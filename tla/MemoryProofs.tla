---------------------------- MODULE MemoryProofs ----------------------------
(***************************************************************************)
(* Proofs about the two allocators.                                        *)
(*                                                                         *)
(* The page allocator (PageAlloc), for every page size, bitmap width, memory*)
(* map and request size.  The inductive invariant is the conjunction of what*)
(* the model checker checks: the bitmap accounts for every page, and no page*)
(* below last_alloc_idx is free.                                           *)
(*                                                                         *)
(* The heap (Heap), for every page size, set of pages and set of requests: *)
(* under CarefulSpec the free list stays in order, no word is in two blocks,*)
(* what callers wrote stays, and free never panics.  The heap is seen as two*)
(* sets of blocks, F on the free list and U in use.  Sane says what the    *)
(* words of the heap have to be for these two sets; each of the ways malloc*)
(* and free change words takes Sane to Sane for other sets, and the walk of*)
(* the free list finds F.                                                  *)
(***************************************************************************)
EXTENDS PageAlloc, Heap, FiniteSetTheorems, NaturalsInduction, SequenceTheorems,
        WellFoundedInduction, TLAPS

IInv == TypeOK /\ NoFreeBelowLastAlloc /\ BitmapAccounts

(* BM_IDX is a natural number and does not decrease from a page to a later  *)
(* one: this is all the proofs use of the division.                         *)
LEMMA WordMonotone ==
  \A p, q \in Nat : /\ Word(p) \in Nat
                    /\ p <= q => Word(p) <= Word(q)
<1> SUFFICES ASSUME NEW p \in Nat, NEW q \in Nat
             PROVE  /\ Word(p) \in Nat
                    /\ p <= q => Word(p) <= Word(q)
    OBVIOUS
<1> DEFINE a == p \div WordBits
           b == q \div WordBits
<1>1. WordBits \in Nat /\ WordBits > 0
  BY SizesAssumption
<1>2. /\ a \in Nat /\ b \in Nat
      /\ WordBits * a <= p /\ q < WordBits * b + WordBits
  BY <1>1
<1>3. ASSUME p <= q, b < a PROVE FALSE
  <2> HIDE DEF a, b
  <2>1. WordBits * (b + 1) <= WordBits * a
    BY <1>1, <1>2, <1>3
  <2>2. WordBits * (b + 1) = WordBits * b + WordBits
    BY <1>1, <1>2
  <2>3. /\ WordBits * a \in Nat
        /\ WordBits * b \in Nat
    BY <1>1, <1>2
  <2>. QED BY <1>1, <1>2, <1>3, <2>1, <2>2, <2>3
<1>. QED BY <1>2, <1>3 DEF Word

(* What is reserved at boot are pages the bitmap has a bit for. *)
LEMMA BootUsedPages == BootUsed \subseteq Pages
  BY DEF BootUsed

(* A run in which every page is free lies within the bitmap, apart from     *)
(* every page that is marked.                                               *)
LEMMA FreeRun ==
  ASSUME NEW u, NEW pg, NEW n, RangeFree(u, pg, n)
  PROVE  Run(pg, n) \subseteq Pages \ u
  BY DEF RangeFree, IsFree

(* Marking more pages cannot break the guarantee of last_alloc_idx, and a   *)
(* search moves it only over words it has seen to be full.                  *)
LEMMA SearchKeepsGuarantee ==
  ASSUME IInv, NEW n, NEW area, NEW idx \in IdxAfterSearch(used, area, last_alloc_idx, n)
  PROVE  /\ idx \in Nat
         /\ \A pg \in Pages : Word(pg) < idx => pg \in used
<1>1. Pages \subseteq Nat
  BY SizesAssumption DEF Pages
<1>2. CASE idx = last_alloc_idx
  BY <1>2 DEF IInv, TypeOK, NoFreeBelowLastAlloc
<1>3. CASE idx # last_alloc_idx
  <2>1. area = MEM_HEAP /\ FreeSeen(used, last_alloc_idx) # {}
    BY <1>3 DEF IdxAfterSearch
  <2>2. PICK f \in Pages : /\ FirstOf(FreeSeen(used, last_alloc_idx), area, f)
                           /\ idx = Word(f)
    BY <2>1 DEF IdxAfterSearch
  <2>3. /\ f \in FreeSeen(used, last_alloc_idx)
        /\ \A q \in FreeSeen(used, last_alloc_idx) : f <= q
    BY <2>1, <2>2 DEF FirstOf, Before, MEM_HEAP, MEM_STACK
  <2>4. ASSUME NEW pg \in Pages, Word(pg) < idx, pg \notin used
        PROVE  FALSE
    <3>1. last_alloc_idx <= Word(pg)
      <4>1. Word(pg) \in Nat /\ last_alloc_idx \in Nat
        BY <1>1, WordMonotone DEF IInv, TypeOK
      <4>2. ~(Word(pg) < last_alloc_idx)
        BY <2>4 DEF IInv, NoFreeBelowLastAlloc
      <4>. QED BY <4>1, <4>2
    <3>2. Word(pg) < BmWords
      <4>1. Word(f) < BmWords
        BY <2>3 DEF FreeSeen, SearchPages
      <4>2. Word(pg) \in Nat /\ Word(f) \in Nat /\ BmWords \in Nat
        BY <1>1, WordMonotone, MemMapAssumption
      <4>. QED BY <4>1, <4>2, <2>2, <2>4
    <3>3. pg \in FreeSeen(used, last_alloc_idx)
      <4>1. Word(pg) \in Nat /\ last_alloc_idx \in Nat
        BY <1>1, WordMonotone DEF IInv, TypeOK
      <4>. QED BY <2>4, <3>1, <3>2, <4>1 DEF FreeSeen, SearchPages, IsFree
    <3>4. f <= pg
      BY <2>3, <3>3
    <3>5. Word(f) <= Word(pg) /\ Word(f) \in Nat /\ Word(pg) \in Nat
      BY <1>1, <3>4, WordMonotone
    <3>. QED BY <2>2, <2>4, <3>5
  <2>5. idx \in Nat
    BY <1>1, <2>2, WordMonotone
  <2>. QED BY <2>4, <2>5
<1>. QED BY <1>2, <1>3

(* init_mem establishes the invariant, whether or not it finds its stack. *)
LEMMA InitInvariant == Init => IInv
<1> SUFFICES ASSUME Init PROVE IInv
    OBVIOUS
<1>1. Pages \subseteq Nat /\ \A p \in Pages : Word(p) \in Nat
  BY SizesAssumption, WordMonotone DEF Pages
<1>2. NoFreeBelowLastAlloc
  <2>1. last_alloc_idx = 0
    BY DEF Init
  <2>. QED BY <1>1, <2>1 DEF NoFreeBelowLastAlloc
<1>3. CASE \E pg \in Pages :
             /\ FirstOf(Fits(BootUsed, MEM_STACK, 0, StackPages), MEM_STACK, pg)
             /\ used = BootUsed \union Run(pg, StackPages)
             /\ held = Run(pg, StackPages)
  <2>1. PICK pg \in Pages :
             /\ FirstOf(Fits(BootUsed, MEM_STACK, 0, StackPages), MEM_STACK, pg)
             /\ used = BootUsed \union Run(pg, StackPages)
             /\ held = Run(pg, StackPages)
    BY <1>3
  <2>2. RangeFree(BootUsed, pg, StackPages)
    BY <2>1 DEF FirstOf, Fits
  <2>3. Run(pg, StackPages) \subseteq Pages \ BootUsed
    BY <2>2, FreeRun
  <2>. QED BY <1>2, <2>1, <2>3, BootUsedPages DEF IInv, Init, TypeOK, BitmapAccounts
<1>4. CASE used = BootUsed /\ held = {}
  BY <1>2, <1>4, BootUsedPages DEF IInv, Init, TypeOK, BitmapAccounts
<1>. QED BY <1>3, <1>4 DEF Init

LEMMA AllocInvariant ==
  ASSUME IInv, NEW n \in 1 .. MaxCount, NEW area, alloc_ppages(n, area)
  PROVE  IInv'
<1>1. /\ last_alloc_idx' \in Nat
      /\ \A pg \in Pages : Word(pg) < last_alloc_idx' => pg \in used
  BY SearchKeepsGuarantee DEF alloc_ppages
<1>2. CASE \E pg \in Pages :
             /\ FirstOf(Fits(used, area, last_alloc_idx, n), area, pg)
             /\ used' = used \union Run(pg, n)
             /\ held' = held \union Run(pg, n)
             /\ call' = << "alloc", n, pg >>
  <2>1. PICK pg \in Pages :
             /\ FirstOf(Fits(used, area, last_alloc_idx, n), area, pg)
             /\ used' = used \union Run(pg, n)
             /\ held' = held \union Run(pg, n)
             /\ call' = << "alloc", n, pg >>
    BY <1>2
  <2>2. RangeFree(used, pg, n)
    BY <2>1 DEF FirstOf, Fits
  <2>3. Run(pg, n) \subseteq Pages \ used
    BY <2>2, FreeRun
  <2>4. pg \in Nat
    BY SizesAssumption DEF Pages
  <2>. QED BY <1>1, <2>1, <2>3, <2>4
           DEF IInv, TypeOK, NoFreeBelowLastAlloc, BitmapAccounts, alloc_ppages
<1>3. CASE UNCHANGED << used, held >>
  BY <1>1, <1>3 DEF IInv, TypeOK, NoFreeBelowLastAlloc, BitmapAccounts, alloc_ppages
<1>. QED BY <1>2, <1>3 DEF alloc_ppages

LEMMA AllocRangeInvariant ==
  ASSUME IInv, NEW pg \in Pages, NEW n \in 1 .. MaxCount, alloc_ppage_range(pg, n)
  PROVE  IInv'
<1>1. CASE RangeFree(used, pg, n) /\ used' = used \union Run(pg, n)
             /\ held' = held \union Run(pg, n) /\ UNCHANGED intr
  <2>1. Run(pg, n) \subseteq Pages \ used
    BY <1>1, FreeRun
  <2>. QED BY <1>1, <2>1
           DEF IInv, TypeOK, NoFreeBelowLastAlloc, BitmapAccounts, alloc_ppage_range
<1>2. CASE intr' = FALSE /\ UNCHANGED << used, held >>
  BY <1>2 DEF IInv, TypeOK, NoFreeBelowLastAlloc, BitmapAccounts, alloc_ppage_range
<1>. QED BY <1>1, <1>2 DEF alloc_ppage_range

(* The lowest freed page settles last_alloc_idx: no freed page is in a word *)
(* before it.  The panic is out of reach, since what is held is marked.     *)
LEMMA FreeInvariant ==
  ASSUME IInv, NEW pg \in Pages, NEW n \in 1 .. MaxCount, free_ppages(pg, n)
  PROVE  IInv'
<1>1. Run(pg, n) \subseteq held /\ Run(pg, n) \subseteq used
  BY DEF IInv, BitmapAccounts, free_ppages
<1>2. /\ used' = used \ Run(pg, n)
      /\ last_alloc_idx' = IdxAfterFree(last_alloc_idx, pg)
      /\ held' = held \ Run(pg, n)
      /\ panicked' = panicked /\ intr' = intr
  BY <1>1 DEF free_ppages
<1>3. Pages \subseteq Nat
  BY SizesAssumption DEF Pages
<1>4. /\ last_alloc_idx \in Nat /\ Word(pg) \in Nat
      /\ last_alloc_idx' \in Nat
      /\ last_alloc_idx' <= last_alloc_idx /\ last_alloc_idx' <= Word(pg)
  <2>1. last_alloc_idx \in Nat /\ Word(pg) \in Nat
    BY <1>3, WordMonotone DEF IInv, TypeOK
  <2>. QED BY <1>2, <2>1 DEF IdxAfterFree
<1>5. ASSUME NEW q \in Pages, Word(q) < last_alloc_idx'
      PROVE  q \in used'
  <2>1. Word(q) \in Nat
    BY <1>3, WordMonotone
  <2>2. q \in used
    BY <1>4, <1>5, <2>1 DEF IInv, NoFreeBelowLastAlloc
  <2>3. q \notin Run(pg, n)
    <3>1. ~(pg <= q)
      BY <1>3, <1>4, <1>5, <2>1, WordMonotone
    <3>. QED BY <1>3, <3>1 DEF Run
  <2>. QED BY <1>2, <2>2, <2>3
<1>. QED BY <1>1, <1>2, <1>4, <1>5 DEF IInv, TypeOK, NoFreeBelowLastAlloc, BitmapAccounts

LEMMA InductiveInvariant == Spec => []IInv
<1>1. IInv /\ [Next]_vars => IInv'
  <2> SUFFICES ASSUME IInv, [Next]_vars PROVE IInv'
      OBVIOUS
  <2>1. CASE UNCHANGED vars
    BY <2>1 DEF vars, IInv, TypeOK, NoFreeBelowLastAlloc, BitmapAccounts
  <2>2. ASSUME NEW f \in BOOLEAN, set_intr_flag(f) PROVE IInv'
    BY <2>2 DEF set_intr_flag, IInv, TypeOK, NoFreeBelowLastAlloc, BitmapAccounts
  <2>3. CASE Next
    BY <2>2, <2>3, AllocInvariant, AllocRangeInvariant, FreeInvariant DEF Next
  <2>. QED BY <2>1, <2>3
<1>. QED BY <1>1, InitInvariant, PTL DEF Spec

(* The allocator's variables keep their types. *)
THEOREM TypeCorrect == Spec => []TypeOK
<1>1. IInv => TypeOK
  BY DEF IInv
<1>. QED BY <1>1, InductiveInvariant, PTL

(* "It's guaranteed that all the elements before this have no free pages":  *)
(* the comment on last_alloc_idx holds after every sequence of calls.       *)
THEOREM LastAllocGuarantee == Spec => []NoFreeBelowLastAlloc
<1>1. IInv => NoFreeBelowLastAlloc
  BY DEF IInv
<1>. QED BY <1>1, InductiveInvariant, PTL

(* The bitmap marks the reserved pages and the held ones, no page is both,  *)
(* and free_ppage does not panic.                                           *)
THEOREM Accounting == Spec => []BitmapAccounts
<1>1. IInv => BitmapAccounts
  BY DEF IInv
<1>. QED BY <1>1, InductiveInvariant, PTL

-----------------------------------------------------------------------------
(* Implementation of the promise *)

(* A run that is available to a caller is one whose pages are all free. *)
LEMMA AvailableIsFree ==
  ASSUME IInv, NEW pg \in Pages, NEW n \in 1 .. MaxCount
  PROVE  RangeFree(used, pg, n) <=> Promise!Available(pg, n)
  BY DEF IInv, BitmapAccounts, RangeFree, IsFree, Run, Promise!Available, Promise!Run

(* The upward search finds a run whenever there is one: a run that starts   *)
(* below last_alloc_idx would start at a free page there.                   *)
LEMMA SearchIsComplete ==
  ASSUME IInv, NEW n \in 1 .. MaxCount, NEW area,
         NEW pg \in Pages, Word(pg) < BmWords, RangeFree(used, pg, n)
  PROVE  pg \in Fits(used, area, last_alloc_idx, n)
<1>1. Word(pg) \in Nat /\ last_alloc_idx \in Nat /\ pg \in Nat /\ n \in Nat /\ n > 0
  BY SizesAssumption, WordMonotone DEF Pages, IInv, TypeOK
<1>2. pg \in Run(pg, n)
  BY <1>1 DEF Run
<1>3. pg \notin used
  BY <1>2, FreeRun
<1>4. Word(pg) >= last_alloc_idx
  BY <1>1, <1>3 DEF IInv, NoFreeBelowLastAlloc
<1>. QED BY <1>4 DEF Fits, SearchPages

LEMMA StepImplements ==
  ASSUME IInv, Next
  PROVE  Promise!Next \/ UNCHANGED << held, call >>
<1>1. ASSUME NEW n \in 1 .. MaxCount, NEW area, alloc_ppages(n, area)
      PROVE  Promise!Alloc(n)
  <2>1. ASSUME NEW pg \in Pages,
               FirstOf(Fits(used, area, last_alloc_idx, n), area, pg),
               held' = held \union Run(pg, n), call' = << "alloc", n, pg >>
        PROVE  Promise!Alloc(n)
    <3>1. RangeFree(used, pg, n) /\ Word(pg) < BmWords
      BY <2>1 DEF FirstOf, Fits, SearchPages
    <3>2. Promise!Available(pg, n)
      BY <3>1, AvailableIsFree
    <3>. QED BY <2>1, <3>1, <3>2 DEF Promise!Alloc, Promise!Run, Run
  <2>2. ASSUME Fits(used, area, last_alloc_idx, n) = {},
               call' = << "alloc", n, -1 >>, UNCHANGED held
        PROVE  Promise!Alloc(n)
    <3>1. ASSUME NEW pg \in Pages, Word(pg) < BmWords
          PROVE  ~Promise!Available(pg, n)
      <4>1. ~RangeFree(used, pg, n)
        BY <2>2, <3>1, SearchIsComplete
      <4>. QED BY <4>1, AvailableIsFree
    <3>. QED BY <2>2, <3>1 DEF Promise!Alloc
  <2>. QED BY <1>1, <2>1, <2>2 DEF alloc_ppages
<1>2. ASSUME NEW n \in 1 .. MaxCount, NEW pg \in Pages, alloc_ppage_range(pg, n)
      PROVE  Promise!AllocAt(pg, n)
  BY <1>2, AvailableIsFree DEF alloc_ppage_range, Promise!AllocAt, Promise!Run, Run
<1>3. ASSUME NEW n \in 1 .. MaxCount, NEW pg \in Pages, free_ppages(pg, n)
      PROVE  Promise!Free(pg, n)
  <2>1. Run(pg, n) \subseteq used
    BY <1>3 DEF free_ppages, IInv, BitmapAccounts
  <2>. QED BY <1>3, <2>1 DEF free_ppages, Promise!Free, Promise!Run, Run
<1>4. ASSUME NEW f \in BOOLEAN, set_intr_flag(f) PROVE UNCHANGED << held, call >>
  BY <1>4 DEF set_intr_flag
<1>. QED BY <1>1, <1>2, <1>3, <1>4 DEF Next, Promise!Next

(* src/mem.c implements the page pool: every call hands out free pages, or  *)
(* refuses when no run of that length is left, or takes back what was held. *)
THEOREM Implementation == Spec => PromiseSpec
<1>1. Init => Promise!Init
  <2> SUFFICES ASSUME Init PROVE Promise!Init
      OBVIOUS
  <2>1. IInv
    BY InitInvariant
  <2>. QED BY <2>1 DEF Init, IInv, TypeOK, BitmapAccounts, Promise!Init, NoCall, Promise!NoCall
<1>2. IInv /\ [Next]_vars => [Promise!Next]_(<< held, call >>)
  BY StepImplements DEF vars
<1>3. <<held, call>> = Promise!poolVars
  BY DEF Promise!poolVars
<1>. QED BY <1>1, <1>2, <1>3, InductiveInvariant, PTL DEF Spec, PromiseSpec, Promise!Spec, Promise!poolVars

-----------------------------------------------------------------------------
(* n is the block of F that follows x in memory, or NULL when none does *)
Succ(F, x, n) ==
  \/ n = NULL /\ \A c \in F : c <= x
  \/ n \in F /\ x < n /\ \A c \in F : c <= x \/ n <= c

Ext(m, b) == b .. b + m[b] - 1
BlockOK(m, g, b) == m[b] >= DescWords /\ Ext(m, b) \subseteq WordsOf(g)
Ordered(m, b, c) == b < c => b + m[b] <= c

Sane(m, p, F, U, g) ==
  /\ m \in [Words -> Nat] /\ g \subseteq HeapPages
  /\ F \subseteq Words /\ U \subseteq Words /\ F \cap U = {}
  /\ \A b \in F \cup U : BlockOK(m, g, b)
  /\ \A b, c \in F \cup U : Ordered(m, b, c)
  /\ \A b \in F : m[b + 1] = MAGIC_FREE
  /\ \A b \in U : m[b + 1] = MAGIC_USED
  /\ Succ(F, NULL, p)
  /\ \A b \in F : Succ(F, b, m[b + 2])

(* The blocks callers hold, L: each is theirs alone, as large as they asked  *)
(* for, and holds what they wrote                                           *)
Holder == [ptr : Nat, asked : Nat]
Descs(L) == { PTR_DESC(b.ptr) : b \in L }
HolderOK(m, b) ==
  /\ b.ptr >= DescWords /\ b.asked + DescWords <= m[PTR_DESC(b.ptr)]
  /\ \A a \in b.ptr .. b.ptr + b.asked - 1 : m[a] = DATA
Held(m, L) ==
  /\ L \subseteq Holder
  /\ \A b, c \in L : b.ptr = c.ptr => b = c
  /\ \A b \in L : HolderOK(m, b)
Fine(m, p, g, L) == \E F : Sane(m, p, F, Descs(L), g) /\ Held(m, L)

HeapInv ==
  /\ free_panicked = FALSE
  /\ Sane(mem, pool, PoolBlocks, Descs(live), pages)
  /\ Held(mem, live)
-----------------------------------------------------------------------------
(* The least element of a set of naturals *)
LEMMA Least ==
  ASSUME NEW T \in SUBSET Nat, T # {}
  PROVE  \E m \in T : \A n \in T : m <= n
<1> DEFINE R == OpToRel(<, Nat)
<1>1. IsWellFoundedOn(R, Nat)
  BY NatLessThanWellFounded, Zenon
<1>2. \A x, y \in Nat : y < x => << y, x >> \in R
  BY Zenon DEF OpToRel
<1> HIDE DEF R
<1>3. \E x \in T : \A y \in T : ~(<< y, x >> \in R)
  BY <1>1, WFMin, Zenon
<1>4. PICK x \in T : \A y \in T : ~(<< y, x >> \in R)
  BY <1>3
<1>5. ASSUME NEW y \in T
      PROVE  x <= y
  <2>1. x \in Nat /\ y \in Nat
    OBVIOUS
  <2>2. ~(y < x)
    BY <1>2, <1>4, <2>1
  <2>. QED BY <2>1, <2>2
<1>. QED BY <1>5

-----------------------------------------------------------------------------
(* Pages and words *)
LEMMA Product ==
  ASSUME NEW a \in Nat \ {0}, NEW b \in Nat \ {0}
  PROVE  a * b \in Nat /\ a * b >= b /\ a * b >= a
OBVIOUS

LEMMA PageIs ==
  ASSUME NEW pg \in HeapPages
  PROVE  /\ PageWords \in Nat \ {0} /\ pg \in Nat \ {0}
         /\ pg * PageWords \in Nat \ {0}
BY HeapAssumption, Product

LEMMA WordsNat == Words \subseteq Nat \ {0}
<1> SUFFICES ASSUME NEW pg \in HeapPages, NEW a \in pg * PageWords .. pg * PageWords + PageWords - 1
             PROVE  a \in Nat \ {0}
  BY DEF Words, WordsOf
<1> DEFINE s == pg * PageWords
<1>1. s \in Nat \ {0} /\ PageWords \in Nat \ {0}
  BY PageIs
<1> HIDE DEF s
<1>2. a \in s .. s + PageWords - 1
  BY DEF s
<1>. QED BY <1>1, <1>2

LEMMA WordsFinite == IsFiniteSet(Words)
<1> DEFINE span(pg) == pg * PageWords .. pg * PageWords + PageWords - 1
           T == { span(pg) : pg \in HeapPages }
           f == [pg \in HeapPages |-> span(pg)]
<1>1. f \in Surjection(HeapPages, T)
  <2>1. f \in [HeapPages -> T] /\ \A t \in T : \E pg \in HeapPages : f[pg] = t
    <3> HIDE DEF span
    <3>. QED OBVIOUS
  <2> HIDE DEF f, T
  <2>. QED BY <2>1 DEF Surjection
<1>2. IsFiniteSet(T)
  <2> HIDE DEF f, T
  <2>. QED BY <1>1, FS_Surjection, HeapAssumption
<1>3. ASSUME NEW pg \in HeapPages
      PROVE  IsFiniteSet(span(pg))
  <2> DEFINE s == pg * PageWords
  <2>1. s \in Int /\ s + PageWords - 1 \in Int
    BY PageIs
  <2> HIDE DEF s
  <2>2. IsFiniteSet(s .. s + PageWords - 1)
    BY <2>1, FS_Interval
  <2>. QED BY <2>2 DEF s
<1>4. \A t \in T : IsFiniteSet(t)
  <2> HIDE DEF span
  <2>. QED BY <1>3
<1>5. Words = UNION T
  BY DEF Words, WordsOf
<1> HIDE DEF T
<1>. QED BY <1>2, <1>4, <1>5, FS_UNION

LEMMA FuelIs == Fuel \in Nat \ {0} /\ \A S \in SUBSET Words : IsFiniteSet(S) /\ Cardinality(S) < Fuel
<1>1. Cardinality(Words) \in Nat
  BY WordsFinite, FS_CardinalityType
<1>2. ASSUME NEW S \in SUBSET Words
      PROVE  IsFiniteSet(S) /\ Cardinality(S) <= Cardinality(Words) /\ Cardinality(S) \in Nat
  <2>1. IsFiniteSet(S) /\ Cardinality(S) <= Cardinality(Words)
    BY WordsFinite, FS_Subset
  <2>. QED BY <2>1, FS_CardinalityType
<1>. QED BY <1>1, <1>2 DEF Fuel

LEMMA WordsMono ==
  ASSUME NEW g \in SUBSET HeapPages, NEW h \in SUBSET HeapPages, g \subseteq h
  PROVE  WordsOf(g) \subseteq WordsOf(h) /\ WordsOf(h) \subseteq Words
BY DEF WordsOf, Words

LEMMA PagesForIs ==
  ASSUME NEW total \in Nat \ {0}
  PROVE  /\ PagesFor(total) \in Nat \ {0}
         /\ PagesFor(total) * PageWords \in Nat
         /\ PagesFor(total) * PageWords >= total
<1> DEFINE d == PageWords
           x == total + d - 1
           q == x \div d
<1>1. d \in Nat \ {0} /\ x \in Nat
  BY HeapAssumption
<1>2. q \in Nat /\ x % d \in 0 .. d - 1 /\ x = q * d + (x % d)
  <2> HIDE DEF x, d
  <2>. QED BY <1>1
<1>3. q * d \in Nat /\ q * d >= total
  <2>1. q * d \in Int
    BY <1>1, <1>2
  <2> DEFINE p == q * d
             r == x % d
  <2>2. p \in Int /\ r \in 0 .. d - 1 /\ x = p + r
    BY <2>1, <1>2
  <2>3. x = total + d - 1
    OBVIOUS
  <2> HIDE DEF p, r, x, d
  <2>4. p >= total
    BY <2>2, <2>3, <1>1
  <2>. QED BY <2>2, <2>4 DEF p
<1>4. q # 0
  <2> SUFFICES ASSUME q = 0 PROVE FALSE
    OBVIOUS
  <2>1. q * d = 0
    <3> HIDE DEF q, d
    <3>. QED BY <1>1
  <2> HIDE DEF q, d
  <2>. QED BY <2>1, <1>3
<1>. QED BY <1>2, <1>3, <1>4 DEF PagesFor
-----------------------------------------------------------------------------
(* Writing words: m2 is m but for the words of S *)
Same(m, m2, S) == \A w \in Words : w \notin S => m2[w] = m[w]
WordSet(m, m2, a, v) == m2 \in [Words -> Nat] /\ m2[a] = v /\ Same(m, m2, {a})
DescSet(m, m2, b, s, k, n) ==
  /\ m2 \in [Words -> Nat] /\ m2[b] = s /\ m2[b + 1] = k /\ m2[b + 2] = n
  /\ Same(m, m2, {b, b + 1, b + 2})

LEMMA SetSizeIs ==
  ASSUME NEW m \in [Words -> Nat], NEW a \in Words, NEW v \in Nat
  PROVE  WordSet(m, SetSize(m, a, v), a, v)
BY DEF SetSize, Same, WordSet

LEMMA SetNextIs ==
  ASSUME NEW m \in [Words -> Nat], NEW b, b + 2 \in Words, NEW v \in Nat
  PROVE  WordSet(m, SetNext(m, b, v), b + 2, v)
BY SetSizeIs DEF SetNext

LEMMA SetDescIs ==
  ASSUME NEW m \in [Words -> Nat], NEW b \in Words, b + 1 \in Words, b + 2 \in Words,
         NEW s \in Nat, NEW k \in Nat, NEW n \in Nat
  PROVE  DescSet(m, SetDesc(m, b, s, k, n), b, s, k, n)
<1> DEFINE m1 == SetSize(m, b, s)
           m2 == SetMagic(m1, b, k)
           m3 == SetNext(m2, b, n)
<1>0. b \in Nat
  BY WordsNat
<1>1. m1 \in [Words -> Nat] /\ m1[b] = s /\ Same(m, m1, {b})
  BY SetSizeIs DEF WordSet
<1> HIDE DEF m1
<1>2. m2 \in [Words -> Nat] /\ m2[b + 1] = k /\ Same(m1, m2, {b + 1})
  BY <1>1, SetSizeIs DEF SetMagic, WordSet
<1> HIDE DEF m2
<1>3. m3 \in [Words -> Nat] /\ m3[b + 2] = n /\ Same(m2, m3, {b + 2})
  BY <1>2, SetNextIs DEF WordSet
<1> HIDE DEF m3
<1>4. b # b + 1 /\ b # b + 2 /\ b + 1 # b + 2
  BY <1>0
<1>5. m3 = SetDesc(m, b, s, k, n)
  BY DEF SetDesc, m1, m2, m3
<1>6. m3[b] = s /\ m3[b + 1] = k
  BY <1>1, <1>2, <1>3, <1>4 DEF Same
<1>7. Same(m, m3, {b, b + 1, b + 2})
  BY <1>1, <1>2, <1>3 DEF Same
<1>. QED BY <1>3, <1>5, <1>6, <1>7 DEF DescSet

LEMMA FillIs ==
  ASSUME NEW m \in [Words -> Nat], NEW p \in Nat, NEW n \in Int, NEW v \in Nat
  PROVE  /\ Fill(m, p, n, v) \in [Words -> Nat]
         /\ Same(m, Fill(m, p, n, v), p .. p + n - 1)
         /\ \A w \in Words : p <= w /\ w < p + n => Fill(m, p, n, v)[w] = v
BY WordsNat DEF Fill, Same

(* What Sane says of one block and of two *)
LEMMA BlockIs ==
  ASSUME NEW m, NEW p, NEW F, NEW U, NEW g, Sane(m, p, F, U, g), NEW b \in F \cup U
  PROVE  /\ b \in Nat \ {0} /\ m[b] \in Nat /\ m[b] >= 3
         /\ b \in Words /\ b + 1 \in Words /\ b + 2 \in Words
         /\ \A a \in Int : b <= a /\ a < b + m[b] => a \in Words /\ a \in WordsOf(g)
<1>1. b \in Words /\ b \in Nat \ {0}
  BY WordsNat DEF Sane
<1>2. m[b] \in Nat
  BY <1>1 DEF Sane
<1>3. m[b] >= 3 /\ b .. b + m[b] - 1 \subseteq WordsOf(g)
  BY DEF Sane, BlockOK, DescWords, Ext
<1>4. WordsOf(g) \subseteq Words
  BY WordsMono DEF Sane
<1> DEFINE s == m[b]
<1>5. s \in Nat /\ s >= 3 /\ b .. b + s - 1 \subseteq WordsOf(g)
  BY <1>2, <1>3
<1> HIDE DEF s
<1>6. \A a \in Int : b <= a /\ a < b + s => a \in Words /\ a \in WordsOf(g)
  BY <1>1, <1>4, <1>5
<1>7. b + 1 \in Words /\ b + 2 \in Words
  BY <1>1, <1>5, <1>6
<1>. QED BY <1>1, <1>5, <1>6, <1>7 DEF s

LEMMA ExtWords ==
  ASSUME NEW m, NEW p, NEW F, NEW U, NEW g, Sane(m, p, F, U, g), NEW b \in F \cup U
  PROVE  Ext(m, b) \subseteq Words /\ Ext(m, b) \subseteq WordsOf(g)
BY WordsMono DEF Sane, BlockOK

LEMMA PairIs ==
  ASSUME NEW m, NEW p, NEW F, NEW U, NEW g, Sane(m, p, F, U, g),
         NEW b \in F \cup U, NEW c \in F \cup U, b # c
  PROVE  b + m[b] <= c \/ c + m[c] <= b
<1>1. b \in Nat /\ c \in Nat
  BY BlockIs
<1>2. b < c \/ c < b
  BY <1>1
<1>. QED BY <1>2 DEF Sane, Ordered
-----------------------------------------------------------------------------
(* The walk of the free list, one block at a time *)
Onward(s, h) ==
  LET b == IF s = << >> THEN h.pool ELSE Next_(h.mem, s[Len(s)])
  IN  IF b = NULL THEN s ELSE Append(s, b)
ListSteps(g, h) ==
  \A k \in 0 .. Fuel : g[k] = IF k = 0 THEN << >> ELSE Onward(g[k - 1], h)

LEMMA RunOfFree ==
  ASSUME NEW h
  PROVE  \E g : ListSteps(g, h) /\ FreeList(h) = g[Fuel]
<1> DEFINE Turn(g, k) == IF k = 0 THEN << >> ELSE Onward(g[k - 1], h)
           Span(g, m) == g = [k \in 0 .. m |-> Turn(g, k)]
           F == CHOOSE g : Span(g, Fuel)
<1>0. Fuel \in Nat
  BY FuelIs
<1>1. FreeList(h) = F[Fuel]
  BY DEF FreeList, Onward
<1>2. ASSUME NEW m \in Nat, \E g : m # 0 => Span(g, m - 1)
      PROVE  \E g : Span(g, m)
  <2>1. PICK g : m # 0 => Span(g, m - 1)
    BY <1>2
  <2> DEFINE r == [k \in 0 .. m |-> IF k = m THEN Turn(g, m) ELSE g[k]]
  <2>2. ASSUME NEW k \in 0 .. m
        PROVE  r[k] = Turn(r, k)
    <3>1. k # 0 => k - 1 \in 0 .. m /\ k - 1 # m
      OBVIOUS
    <3>2. k # 0 => r[k - 1] = g[k - 1]
      BY <3>1
    <3>3. Turn(r, k) = Turn(g, k)
      <4> HIDE DEF r
      <4>. QED BY <3>2
    <3>4. CASE k = m
      <4> HIDE DEF Turn
      <4>1. r[k] = Turn(g, m)
        BY <3>4
      <4> HIDE DEF r
      <4>. QED BY <3>3, <3>4, <4>1
    <3>5. CASE k # m
      <4>1. k \in 0 .. m - 1 /\ m # 0
        BY <3>5
      <4> HIDE DEF Turn
      <4>2. g[k] = Turn(g, k)
        BY <2>1, <4>1
      <4>3. r[k] = g[k]
        BY <3>5
      <4> HIDE DEF r
      <4>. QED BY <3>3, <4>2, <4>3
    <3>. QED BY <3>4, <3>5
  <2>3. r = [k \in 0 .. m |-> r[k]]
    OBVIOUS
  <2> HIDE DEF r, Turn
  <2>4. Span(r, m)
    BY <2>2, <2>3
  <2> HIDE DEF Span
  <2>. QED BY <2>4
<1> HIDE DEF Span
<1>3. \E g : Span(g, Fuel)
  <2> DEFINE T == { m \in Nat : ~\E g : Span(g, m) }
  <2>1. SUFFICES ASSUME T # {} PROVE FALSE
    BY <1>0
  <2>2. T \in SUBSET Nat
    OBVIOUS
  <2>3. PICK m \in T : \A j \in T : m <= j
    BY <2>1, <2>2, Least
  <2>4. m # 0 => m - 1 \in Nat /\ ~(m <= m - 1)
    OBVIOUS
  <2>5. m # 0 => m - 1 \notin T
    BY <2>3, <2>4
  <2>6. m # 0 => \E g : Span(g, m - 1)
    BY <2>4, <2>5
  <2>. QED BY <1>2, <2>6
<1>4. Span(F, Fuel)
  BY <1>3
<1>5. \A k \in 0 .. Fuel : F[k] = Turn(F, k)
  <2> HIDE DEF F, Turn
  <2>. QED BY <1>4 DEF Span
<1> HIDE DEF F
<1>. QED BY <1>1, <1>5 DEF ListSteps
-----------------------------------------------------------------------------
(* s is the beginning of the free list: blocks of F, each followed by the   *)
(* next one of F in memory                                                  *)
Begins(s, p, m, F) ==
  /\ s \in Seq(F)
  /\ \A i, j \in 1 .. Len(s) : i < j => s[i] < s[j]
  /\ s # << >> => s[1] = p
  /\ \A i \in 1 .. Len(s) : i > 1 => m[s[i - 1] + 2] = s[i]
  /\ \A c \in F : \A i \in 1 .. Len(s) : c <= s[i] => \E j \in 1 .. i : s[j] = c
Extends(s, t) == \A i \in 1 .. Len(s) : t[i] = s[i]
Whole(s, F) == \A c \in F : \E i \in 1 .. Len(s) : s[i] = c

LEMMA AppendIs ==
  ASSUME NEW F, NEW s \in Seq(F), NEW b \in F
  PROVE  /\ Append(s, b) \in Seq(F) /\ Len(s) \in Nat /\ Len(Append(s, b)) = Len(s) + 1
         /\ Append(s, b) # << >>
         /\ \A i \in 1 .. Len(s) : Append(s, b)[i] = s[i]
         /\ Append(s, b)[Len(s) + 1] = b
BY AppendProperties

LEMMA OnwardKeeps ==
  ASSUME NEW h, NEW F, NEW U, Sane(h.mem, h.pool, F, U, h.pages),
         NEW s, Begins(s, h.pool, h.mem, F)
  PROVE  /\ Begins(Onward(s, h), h.pool, h.mem, F)
         /\ \/ Onward(s, h) = s /\ Whole(s, F)
            \/ Len(Onward(s, h)) = Len(s) + 1
         /\ Extends(s, Onward(s, h))
<1> DEFINE m == h.mem
           p == h.pool
           x == IF s = << >> THEN 0 ELSE s[Len(s)]
           b == IF s = << >> THEN p ELSE Next_(m, s[Len(s)])
           t == Append(s, b)
<1>0. s \in Seq(F) /\ Len(s) \in Nat /\ (s = << >> <=> Len(s) = 0)
  BY DEF Begins
<1>1. F \subseteq Nat \ {0} /\ \A c \in F : c + 2 \in Words
  BY BlockIs
<1>2. s # << >> => x \in F /\ x = s[Len(s)] /\ Len(s) \in 1 .. Len(s)
  BY <1>0
<1>3. s # << >> => b = m[x + 2]
  BY <1>1, <1>2 DEF Next_, Read
<1>4. Succ(F, x, b)
  BY <1>2, <1>3 DEF Sane, NULL
<1>5. x \in Nat
  BY <1>1, <1>2
<1>6. \A i \in 1 .. Len(s) : s[i] <= x
  <2>1. \A i \in 1 .. Len(s) : i < Len(s) => s[i] < s[Len(s)]
    BY <1>0 DEF Begins
  <2>2. \A i \in 1 .. Len(s) : s[i] \in Nat
    <3>1. \A i \in 1 .. Len(s) : s[i] \in F
      BY <1>0
    <3>. QED BY <1>1, <3>1
  <2>. QED BY <1>0, <1>2, <1>5, <2>1, <2>2
<1>7. \A c \in F : c <= x => \E j \in 1 .. Len(s) : s[j] = c
  BY <1>0, <1>1, <1>2 DEF Begins
<1>8. Onward(s, h) = IF b = NULL THEN s ELSE t
  BY DEF Onward
<1> SUFFICES /\ Begins(IF b = NULL THEN s ELSE t, p, m, F)
             /\ \/ (IF b = NULL THEN s ELSE t) = s /\ Whole(s, F)
                \/ Len(IF b = NULL THEN s ELSE t) = Len(s) + 1
             /\ Extends(s, IF b = NULL THEN s ELSE t)
  BY <1>8
<1>9. CASE b = NULL
  <2>1. Whole(s, F)
    BY <1>1, <1>4, <1>5, <1>7, <1>9 DEF Succ, NULL, Whole
  <2>. QED BY <1>9, <2>1 DEF Extends
<1>10. CASE b # NULL
  <2> HIDE DEF b, x
  <2>1. b \in F /\ x < b /\ \A c \in F : c <= x \/ b <= c
    BY <1>4, <1>10 DEF Succ
  <2>2. /\ t \in Seq(F) /\ Len(t) = Len(s) + 1 /\ t # << >>
        /\ \A i \in 1 .. Len(s) : t[i] = s[i]
        /\ t[Len(s) + 1] = b
    BY <1>0, <2>1, AppendIs
  <2> HIDE DEF t
  <2> DEFINE n == Len(s)
  <2>3. n \in Nat /\ Len(t) = n + 1
    BY <1>0, <2>2
  <2>4. \A i \in 1 .. n + 1 : i \in 1 .. n \/ i = n + 1
    BY <2>3
  <2>5. \A i, j \in 1 .. Len(t) : i < j => t[i] < t[j]
    <3> SUFFICES ASSUME NEW i \in 1 .. n + 1, NEW j \in 1 .. n + 1, i < j PROVE t[i] < t[j]
      BY <2>3
    <3>1. i \in 1 .. n
      BY <2>3
    <3>2. CASE j \in 1 .. n
      BY <2>2, <3>1, <3>2 DEF Begins
    <3>3. CASE j = n + 1
      <4>1. t[i] = s[i] /\ t[j] = b /\ s[i] <= x
        BY <1>6, <2>2, <3>1, <3>3
      <4>2. s[i] \in Nat /\ b \in Nat
        <5>1. s[i] \in F
          BY <1>0, <3>1
        <5>. QED BY <1>1, <2>1, <5>1
      <4>. QED BY <1>5, <2>1, <4>1, <4>2
    <3>. QED BY <2>4, <3>2, <3>3
  <2>6. t[1] = p
    <3>1. CASE s = << >>
      BY <1>0, <2>2, <3>1 DEF b
    <3>2. CASE s # << >>
      <4>1. 1 \in 1 .. Len(s)
        BY <1>0, <3>2
      <4>. QED BY <2>2, <3>2, <4>1 DEF Begins
    <3>. QED BY <3>1, <3>2
  <2>7. \A i \in 1 .. Len(t) : i > 1 => m[t[i - 1] + 2] = t[i]
    <3> SUFFICES ASSUME NEW i \in 1 .. n + 1, i > 1 PROVE m[t[i - 1] + 2] = t[i]
      BY <2>3
    <3>1. i - 1 \in 1 .. n
      BY <2>3
    <3>2. t[i - 1] = s[i - 1]
      BY <2>2, <3>1
    <3>3. CASE i \in 1 .. n
      BY <2>2, <3>2, <3>3 DEF Begins
    <3>4. CASE i = n + 1
      <4>1. i - 1 = n /\ s # << >>
        BY <1>0, <2>3, <3>1, <3>4
      <4>2. x = s[n] /\ t[i] = b
        BY <1>2, <2>2, <3>4, <4>1
      <4>. QED BY <1>3, <3>2, <4>1, <4>2
    <3>. QED BY <2>4, <3>3, <3>4
  <2>8. \A c \in F : \A i \in 1 .. Len(t) : c <= t[i] => \E j \in 1 .. i : t[j] = c
    <3> SUFFICES ASSUME NEW c \in F, NEW i \in 1 .. n + 1, c <= t[i]
                 PROVE  \E j \in 1 .. i : t[j] = c
      BY <2>3
    <3>1. CASE i \in 1 .. n
      <4>1. PICK j \in 1 .. i : s[j] = c
        BY <2>2, <3>1 DEF Begins
      <4>2. j \in 1 .. n
        BY <2>3, <3>1
      <4>. QED BY <2>2, <4>1, <4>2
    <3>2. CASE i = n + 1
      <4>1. t[i] = b /\ c \in Nat /\ b \in Nat
        BY <1>1, <2>1, <2>2, <3>2
      <4>2. CASE c = b
        BY <2>2, <3>2, <4>1, <4>2
      <4>3. CASE c # b
        <5>1. c <= x
          BY <1>5, <2>1, <4>1, <4>3
        <5>2. PICK j \in 1 .. n : s[j] = c
          BY <1>7, <5>1
        <5>3. j \in 1 .. i
          BY <2>3, <3>2
        <5>. QED BY <2>2, <5>2, <5>3
      <4>. QED BY <4>2, <4>3
    <3>. QED BY <2>4, <3>1, <3>2
  <2>9. Begins(t, p, m, F)
    BY <2>2, <2>5, <2>6, <2>7, <2>8 DEF Begins
  <2>. QED BY <1>10, <2>2, <2>9 DEF Extends
<1>. QED BY <1>9, <1>10

(* The walk finds the blocks of F, every one of them, in order *)
LEMMA ListFacts ==
  ASSUME NEW h, NEW F, NEW U, Sane(h.mem, h.pool, F, U, h.pages)
  PROVE  /\ Begins(FreeList(h), h.pool, h.mem, F) /\ Whole(FreeList(h), F)
         /\ Len(FreeList(h)) < Fuel
<1>1. PICK g : ListSteps(g, h) /\ FreeList(h) = g[Fuel]
  BY RunOfFree
<1> DEFINE Good(k) == /\ Begins(g[k], h.pool, h.mem, F)
                      /\ Len(g[k]) = k \/ Whole(g[k], F)
<1>2. Fuel \in Nat \ {0}
  BY FuelIs
<1>3. Good(0)
  <2>1. g[0] = << >>
    BY <1>1, <1>2 DEF ListSteps
  <2>2. << >> \in Seq(F) /\ Len(<< >>) = 0
    OBVIOUS
  <2>. QED BY <2>1, <2>2 DEF Begins
<1>4. ASSUME NEW k \in 1 .. Fuel, Good(k - 1)
      PROVE  Good(k)
  <2>0. k \in 0 .. Fuel /\ k # 0 /\ k - 1 + 1 = k
    BY <1>2
  <2>1. g[k] = Onward(g[k - 1], h)
    BY <1>1, <2>0 DEF ListSteps
  <2> DEFINE s == g[k - 1]
             t == Onward(s, h)
  <2>2. Begins(s, h.pool, h.mem, F) /\ (Len(s) = k - 1 \/ Whole(s, F))
    BY <1>4
  <2>3. g[k] = t
    BY <2>1
  <2> HIDE DEF s
  <2>4. /\ Begins(t, h.pool, h.mem, F)
        /\ (t = s /\ Whole(s, F)) \/ Len(t) = Len(s) + 1
        /\ Extends(s, t)
    BY <2>2, OnwardKeeps
  <2>5. Len(s) \in Nat
    BY <2>2 DEF Begins
  <2> HIDE DEF t
  <2>6. CASE Whole(s, F)
    <3>1. 1 .. Len(s) \subseteq 1 .. Len(t)
      BY <2>4, <2>5
    <3>2. Whole(t, F)
      BY <2>4, <2>6, <3>1 DEF Whole, Extends
    <3>. QED BY <2>3, <2>4, <3>2
  <2>7. CASE Len(s) = k - 1 /\ ~Whole(s, F)
    BY <2>0, <2>3, <2>4, <2>7
  <2>. QED BY <2>2, <2>6, <2>7
<1>5. Good(Fuel)
  <2> HIDE DEF Good
  <2> DEFINE T == { k \in 0 .. Fuel : ~Good(k) }
  <2>1. SUFFICES ASSUME T # {} PROVE FALSE
    BY <1>2
  <2>2. T \in SUBSET Nat
    OBVIOUS
  <2>3. PICK k \in T : \A j \in T : k <= j
    BY <2>1, <2>2, Least
  <2>4. k # 0
    BY <1>3, <2>3
  <2>5. k \in 1 .. Fuel /\ k - 1 \in 0 .. Fuel /\ ~(k <= k - 1)
    BY <1>2, <2>3, <2>4
  <2>6. k - 1 \notin T
    BY <2>3, <2>5
  <2>. QED BY <1>4, <2>3, <2>5, <2>6
<1> DEFINE L == FreeList(h)
<1>6. Begins(L, h.pool, h.mem, F) /\ (Len(L) = Fuel \/ Whole(L, F))
  BY <1>1, <1>5
<1> HIDE DEF L
<1>7. Len(L) < Fuel
  <2>1. L \in Seq(F) /\ Len(L) \in Nat
    BY <1>6 DEF Begins
  <2>2. L \in [1 .. Len(L) -> F]
    BY <2>1
  <2>3. \A i, j \in 1 .. Len(L) : i # j => L[i] # L[j]
    <3> SUFFICES ASSUME NEW i \in 1 .. Len(L), NEW j \in 1 .. Len(L), i # j PROVE L[i] # L[j]
      OBVIOUS
    <3>1. L[i] \in Nat /\ L[j] \in Nat
      BY <2>2, BlockIs
    <3>2. i < j \/ j < i
      OBVIOUS
    <3>3. L[i] < L[j] \/ L[j] < L[i]
      BY <1>6, <3>2 DEF Begins
    <3>. QED BY <3>1, <3>3
  <2>4. L \in Injection(1 .. Len(L), F)
    BY <2>2, <2>3 DEF Injection, IsInjective
  <2>5. F \in SUBSET Words
    BY DEF Sane
  <2>6. IsFiniteSet(F) /\ Cardinality(F) < Fuel
    BY <2>5, FuelIs
  <2>7. Cardinality(1 .. Len(L)) <= Cardinality(F)
    BY <2>4, <2>6, FS_Injection
  <2> DEFINE n == Len(L)
  <2>8. Cardinality(1 .. n) = n
    <3>1. n \in Nat /\ 1 \in Int /\ n \in Int
      BY <2>1
    <3> HIDE DEF n
    <3>2. Cardinality(1 .. n) = IF 1 > n THEN 0 ELSE n - 1 + 1
      BY <3>1, FS_Interval
    <3>. QED BY <3>1, <3>2
  <2>9. Cardinality(F) \in Nat
    BY <2>6, FS_CardinalityType
  <2>. QED BY <1>2, <2>1, <2>6, <2>7, <2>8, <2>9
<1>8. Whole(L, F)
  BY <1>2, <1>6, <1>7
<1>. QED BY <1>6, <1>7, <1>8 DEF L
-----------------------------------------------------------------------------
(* The ways blocks change.  q is the block of F in front of the one that is *)
(* put in or taken out, or NULL when the pool itself points there.          *)
NextOf(m, p, q) == IF q = NULL THEN p ELSE m[q + 2]
LinkWords(q) == IF q = NULL THEN {} ELSE {q + 2}
Linked(p, m2, p2, q, b) == IF q = NULL THEN p2 = b ELSE p2 = p /\ m2[q + 2] = b

LEMMA Apart ==
  ASSUME NEW m, NEW p, NEW F, NEW U, NEW g, Sane(m, p, F, U, g),
         NEW b \in F \cup U, NEW c \in F \cup U, b # c
  PROVE  /\ c \notin Ext(m, b) /\ c + 1 \notin Ext(m, b) /\ c + 2 \notin Ext(m, b)
         /\ c # b + 2 /\ c + 1 # b + 2 /\ c + 2 # b + 2
<1> DEFINE s == m[b]
           t == m[c]
<1>1. b \in Nat /\ c \in Nat /\ s \in Nat /\ t \in Nat /\ s >= 3 /\ t >= 3
  BY BlockIs
<1>2. b + s <= c \/ c + t <= b
  BY PairIs
<1> HIDE DEF s, t
<1>3. c \notin b .. b + s - 1 /\ c + 1 \notin b .. b + s - 1 /\ c + 2 \notin b .. b + s - 1
  BY <1>1, <1>2
<1>4. c # b + 2 /\ c + 1 # b + 2 /\ c + 2 # b + 2
  BY <1>1, <1>2
<1>. QED BY <1>3, <1>4 DEF Ext, s

(* What is left of the other blocks' descriptors *)
Kept(m, m2, q, c) ==
  m2[c] = m[c] /\ m2[c + 1] = m[c + 1] /\ (c # q => m2[c + 2] = m[c + 2])

LEMMA OthersStay ==
  ASSUME NEW m, NEW p, NEW F, NEW U, NEW g, Sane(m, p, F, U, g),
         NEW b \in F \cup U, NEW d \in F \cup U, NEW q \in F \cup {NULL}, NEW m2,
         Same(m, m2, Ext(m, b) \cup Ext(m, d) \cup LinkWords(q)),
         NEW c \in F \cup U, c # b, c # d
  PROVE  Kept(m, m2, q, c)
<1>1. c \in Words /\ c + 1 \in Words /\ c + 2 \in Words /\ c \in Nat
  BY BlockIs
<1>2. /\ c \notin Ext(m, b) /\ c + 1 \notin Ext(m, b) /\ c + 2 \notin Ext(m, b)
      /\ c \notin Ext(m, d) /\ c + 1 \notin Ext(m, d) /\ c + 2 \notin Ext(m, d)
  BY Apart
<1>3. c \notin LinkWords(q) /\ c + 1 \notin LinkWords(q)
  <2>1. CASE q = NULL
    BY <2>1 DEF LinkWords
  <2>2. CASE q # NULL /\ q = c
    BY <1>1, <2>2 DEF LinkWords
  <2>3. CASE q # NULL /\ q # c
    <3>1. c # q + 2 /\ c + 1 # q + 2
      BY <2>3, Apart
    <3>. QED BY <2>3, <3>1 DEF LinkWords
  <2>. QED BY <2>1, <2>2, <2>3
<1>4. c # q => c + 2 \notin LinkWords(q)
  <2>1. q # NULL /\ c # q => c + 2 # q + 2
    BY Apart
  <2>. QED BY <2>1 DEF LinkWords
<1>. QED BY <1>1, <1>2, <1>3, <1>4 DEF Same, Kept

(* The order of the list when a block joins it between q and n ... *)
LEMMA SuccAdd ==
  ASSUME NEW F \in SUBSET (Nat \ {0}), NEW q \in F \cup {0}, NEW n, Succ(F, q, n),
         NEW b \in Nat, q < b, n = NULL \/ b < n
  PROVE  /\ Succ(F \cup {b}, q, b) /\ Succ(F \cup {b}, b, n)
         /\ \A c \in F \cup {0} : \A x : c # q /\ Succ(F, c, x) => Succ(F \cup {b}, c, x)
<1>1. q \in Nat
  OBVIOUS
<1>2. CASE n = NULL
  <2>1. \A c \in F : c <= q
    BY <1>2 DEF Succ, NULL
  <2>2. \A c \in F : c <= b
    BY <1>1, <2>1
  <2>3. Succ(F \cup {b}, q, b) /\ Succ(F \cup {b}, b, n)
    BY <1>2, <2>1, <2>2 DEF Succ
  <2>4. ASSUME NEW c \in F \cup {0}, NEW x, c # q, Succ(F, c, x)
        PROVE  Succ(F \cup {b}, c, x)
    <3>1. c \in Nat /\ c < q /\ q \in F
      BY <2>1, <2>4
    <3>2. x \in F /\ c < x /\ \A d \in F : d <= c \/ x <= d
      BY <1>1, <2>4, <3>1 DEF Succ, NULL
    <3>3. x <= b
      BY <2>2, <3>2
    <3>. QED BY <3>2, <3>3 DEF Succ
  <2>. QED BY <2>3, <2>4
<1>3. CASE n # NULL
  <2>1. n \in F /\ q < n /\ b < n /\ \A c \in F : c <= q \/ n <= c
    BY <1>3 DEF Succ
  <2>2. \A c \in F : c <= b \/ n <= c
    BY <1>1, <2>1
  <2>3. \A c \in F : c <= q \/ b <= c
    BY <1>1, <2>1
  <2>4. Succ(F \cup {b}, q, b) /\ Succ(F \cup {b}, b, n)
    BY <2>1, <2>2, <2>3 DEF Succ
  <2>5. ASSUME NEW c \in F \cup {0}, NEW x, c # q, Succ(F, c, x)
        PROVE  Succ(F \cup {b}, c, x)
    <3>1. c \in Nat /\ (c < q \/ b <= c)
      BY <1>1, <2>3, <2>5
    <3>2. CASE x = NULL
      <4>1. \A d \in F : d <= c
        BY <2>1, <2>5, <3>2 DEF Succ, NULL
      <4>2. n <= c /\ b <= c
        BY <2>1, <3>1, <4>1
      <4>. QED BY <3>2, <4>1, <4>2 DEF Succ
    <3>3. CASE x # NULL
      <4>1. x \in F /\ c < x /\ \A d \in F : d <= c \/ x <= d
        BY <2>5, <3>3 DEF Succ
      <4>2. b <= c \/ x <= b
        BY <1>1, <2>1, <3>1, <4>1
      <4>. QED BY <4>1, <4>2 DEF Succ
    <3>. QED BY <3>2, <3>3
  <2>. QED BY <2>4, <2>5
<1>. QED BY <1>2, <1>3

(* ... and when the block n behind q leaves it *)
LEMMA SuccDrop ==
  ASSUME NEW F \in SUBSET (Nat \ {0}), NEW q \in F \cup {0}, NEW n \in F, Succ(F, q, n),
         NEW x, Succ(F, n, x)
  PROVE  /\ Succ(F \ {n}, q, x)
         /\ \A c \in F \cup {0} : \A y : c # q /\ c # n /\ Succ(F, c, y) => Succ(F \ {n}, c, y)
<1>1. q \in Nat /\ n \in Nat /\ n # 0 /\ n \in F
  OBVIOUS
<1>2. q < n /\ \A c \in F : c <= q \/ n <= c
  BY <1>1 DEF Succ, NULL
<1>3. Succ(F \ {n}, q, x)
  <2>1. CASE x = NULL
    <3>1. \A c \in F : c <= n
      BY <1>1, <2>1 DEF Succ, NULL
    <3>2. \A c \in F \ {n} : c <= q
      BY <1>1, <1>2, <3>1
    <3>. QED BY <2>1, <3>2 DEF Succ
  <2>2. CASE x # NULL
    <3>1. x \in F /\ n < x /\ \A c \in F : c <= n \/ x <= c
      BY <2>2 DEF Succ
    <3>2. x \in F \ {n} /\ q < x
      BY <1>1, <1>2, <3>1
    <3>3. \A c \in F \ {n} : c <= q \/ x <= c
      BY <1>1, <1>2, <3>1
    <3>. QED BY <3>2, <3>3 DEF Succ
  <2>. QED BY <2>1, <2>2
<1>4. ASSUME NEW c \in F \cup {0}, NEW y, c # q, c # n, Succ(F, c, y)
      PROVE  Succ(F \ {n}, c, y)
  <2>1. CASE y = NULL
    BY <1>4, <2>1 DEF Succ, NULL
  <2>2. CASE y # NULL
    <3>1. y \in F /\ c < y /\ \A d \in F : d <= c \/ y <= d
      BY <1>4, <2>2 DEF Succ
    <3>2. c \in Nat /\ y \in Nat
      BY <3>1
    <3>3. y # n
      <4> SUFFICES ASSUME y = n PROVE FALSE
        OBVIOUS
      <4>1. c <= q
        BY <1>1, <1>2, <3>1, <3>2
      <4>2. q # 0 /\ q \in F
        BY <1>1, <1>4, <3>2, <4>1
      <4>3. q <= c \/ n <= q
        BY <3>1, <4>2
      <4>. QED BY <1>1, <1>2, <1>4, <3>2, <4>1, <4>3
    <3>. QED BY <3>1, <3>3 DEF Succ
  <2>. QED BY <2>1, <2>2
<1>. QED BY <1>3, <1>4

(* free, in front of the block after it or behind the last one *)
LEMMA Insert ==
  ASSUME NEW m, NEW p, NEW F, NEW U, NEW g, Sane(m, p, F, U, g),
         NEW b \in U, NEW q \in F \cup {NULL}, q < b, \A c \in F : c <= q \/ b < c,
         NEW m2 \in [Words -> Nat], NEW p2,
         m2[b] = m[b], m2[b + 1] = MAGIC_FREE, m2[b + 2] = NextOf(m, p, q),
         Linked(p, m2, p2, q, b),
         Same(m, m2, Ext(m, b) \cup LinkWords(q))
  PROVE  Sane(m2, p2, F \cup {b}, U \ {b}, g)
<1> DEFINE F2 == F \cup {b}
           U2 == U \ {b}
           n == NextOf(m, p, q)
<1>0. b \notin F /\ F \cap U = {}
  BY DEF Sane
<1>1. \A c \in F \cup U : c \in Nat \ {0}
  BY BlockIs
<1>2. q \in Nat /\ b \in Nat /\ b # 0 /\ q \in F \cup {0} /\ F \in SUBSET (Nat \ {0})
  BY <1>1 DEF NULL
<1>3. \A c \in F \cup U : c # b => m2[c] = m[c] /\ m2[c + 1] = m[c + 1] /\ (c # q => m2[c + 2] = m[c + 2])
  <2>1. Same(m, m2, Ext(m, b) \cup Ext(m, b) \cup LinkWords(q))
    BY DEF Same
  <2>2. ASSUME NEW c \in F \cup U, c # b
        PROVE  Kept(m, m2, q, c)
    BY <2>1, <2>2, OthersStay
  <2>. QED BY <2>2 DEF Kept
<1>4. \A c \in F \cup U : m2[c] = m[c]
  BY <1>3
<1>5. \A c \in F2 \cup U2 : BlockOK(m2, g, c)
  BY <1>4 DEF Sane, BlockOK, Ext
<1>6. \A c, d \in F2 \cup U2 : Ordered(m2, c, d)
  BY <1>4 DEF Sane, Ordered
<1>7. (\A c \in F2 : m2[c + 1] = MAGIC_FREE) /\ (\A c \in U2 : m2[c + 1] = MAGIC_USED)
  BY <1>0, <1>3 DEF Sane
<1>8. Succ(F, q, n)
  BY DEF Sane, NextOf
<1> HIDE DEF n
<1>9. n = NULL \/ b < n
  <2>1. n = NULL \/ (n \in F /\ q < n)
    BY <1>8 DEF Succ
  <2>2. n \in F /\ q < n => n \in Nat /\ ~(n <= q)
    BY <1>1, <1>2
  <2>. QED BY <2>1, <2>2
<1>10. /\ Succ(F2, b, n) /\ Succ(F2, q, b)
       /\ \A c \in F \cup {0} : \A x : c # q /\ Succ(F, c, x) => Succ(F2, c, x)
  BY <1>2, <1>8, <1>9, SuccAdd
<1>12. Succ(F2, NULL, p2)
  <2>1. CASE q = NULL
    BY <1>10, <2>1 DEF Linked
  <2>2. CASE q # NULL
    <3>1. Succ(F, 0, p) /\ p2 = p
      BY <2>2 DEF Sane, Linked, NULL
    <3>. QED BY <1>10, <2>2, <3>1 DEF NULL
  <2>. QED BY <2>1, <2>2
<1>13. ASSUME NEW c \in F2
       PROVE  Succ(F2, c, m2[c + 2])
  <2>1. CASE c = b
    BY <1>10, <2>1 DEF n
  <2>2. CASE c = q
    <3>1. c \in F /\ q # NULL
      BY <1>1, <1>2, <2>2 DEF NULL
    <3>. QED BY <1>10, <2>2, <3>1 DEF Linked
  <2>3. CASE c # b /\ c # q
    <3>1. c \in F /\ m2[c + 2] = m[c + 2]
      BY <1>3, <2>3
    <3>2. Succ(F, c, m[c + 2])
      BY <3>1 DEF Sane
    <3>. QED BY <1>10, <2>3, <3>1, <3>2
  <2>. QED BY <2>1, <2>2, <2>3
<1>14. F2 \subseteq Words /\ U2 \subseteq Words /\ F2 \cap U2 = {} /\ g \subseteq HeapPages
  BY <1>0 DEF Sane
<1> HIDE DEF F2, U2
<1> SUFFICES Sane(m2, p2, F2, U2, g)
  BY DEF F2, U2
<1>. QED BY <1>5, <1>6, <1>7, <1>12, <1>13, <1>14 DEF Sane

(* free, joined with the block that starts at its end *)
LEMMA JoinNext ==
  ASSUME NEW m, NEW p, NEW F, NEW U, NEW g, Sane(m, p, F, U, g),
         NEW b \in U, NEW q \in F \cup {NULL}, q < b, NEW n \in F, n = NextOf(m, p, q), n = b + m[b],
         NEW m2 \in [Words -> Nat], NEW p2,
         m2[b] = m[b] + m[n], m2[b + 1] = MAGIC_FREE, m2[b + 2] = m[n + 2],
         Linked(p, m2, p2, q, b),
         Same(m, m2, Ext(m, b) \cup Ext(m, n) \cup LinkWords(q))
  PROVE  Sane(m2, p2, (F \ {n}) \cup {b}, U \ {b}, g)
<1> DEFINE F1 == F \ {n}
           F2 == F1 \cup {b}
           U2 == U \ {b}
           x == m[n + 2]
<1>0. b \notin F /\ F \cap U = {} /\ b # n /\ n \notin U
  BY DEF Sane
<1>1. \A c \in F \cup U : c \in Nat \ {0} /\ m[c] \in Nat /\ m[c] >= 3
  BY BlockIs
<1>2. /\ q \in Nat /\ b \in Nat /\ b # 0 /\ n \in Nat /\ n # 0 /\ q # b /\ b < n
      /\ m[b] \in Nat /\ m[n] \in Nat
  <2>1. q \in Nat /\ b \in Nat /\ b # 0 /\ n \in Nat /\ n # 0 /\ q # b
    <3>1. b \in Nat \ {0} /\ n \in Nat \ {0} /\ (q \in Nat \ {0} \/ q = 0)
      BY <1>1 DEF NULL
    <3>. QED BY <3>1
  <2> DEFINE s == m[b]
  <2>2. s \in Nat /\ s >= 3 /\ n = b + s /\ m[n] \in Nat
    BY <1>1
  <2> HIDE DEF s
  <2>3. b < n
    BY <2>1, <2>2
  <2>. QED BY <2>1, <2>2, <2>3 DEF s
<1>3. \A c \in F \cup U : c # b /\ c # n =>
        m2[c] = m[c] /\ m2[c + 1] = m[c + 1] /\ (c # q => m2[c + 2] = m[c + 2])
  <2>1. ASSUME NEW c \in F \cup U, c # b, c # n
        PROVE  Kept(m, m2, q, c)
    BY <2>1, OthersStay
  <2>. QED BY <2>1 DEF Kept
<1>4. \A c \in F2 \cup U2 : c \in F \cup U /\ c # n /\ (c # b => m2[c] = m[c])
  BY <1>0, <1>3
<1>5. ASSUME NEW c \in F2 \cup U2
      PROVE  BlockOK(m2, g, c)
  <2>1. CASE c # b
    BY <1>4, <2>1 DEF Sane, BlockOK, Ext
  <2>2. CASE c = b
    <3> DEFINE s == m[b]
               t == m[n]
    <3>1. b .. b + s - 1 \subseteq WordsOf(g) /\ n .. n + t - 1 \subseteq WordsOf(g) /\ s >= 3
      BY DEF Sane, BlockOK, Ext, DescWords
    <3>2. s \in Nat /\ t \in Nat /\ m2[b] = s + t /\ n = b + s
      BY <1>2
    <3> HIDE DEF s, t
    <3>3. \A a \in b .. b + (s + t) - 1 : a \in b .. b + s - 1 \/ a \in n .. n + t - 1
      BY <1>2, <3>2
    <3>4. b .. b + (s + t) - 1 \subseteq WordsOf(g)
      BY <3>1, <3>3
    <3>. QED BY <2>2, <3>1, <3>2, <3>4 DEF BlockOK, Ext, DescWords
  <2>. QED BY <2>1, <2>2
<1>6. ASSUME NEW c \in F2 \cup U2, NEW d \in F2 \cup U2, c < d
      PROVE  c + m2[c] <= d
  <2>1. /\ c \in F \cup U /\ d \in F \cup U /\ c # n /\ d # n
        /\ c \in Nat /\ d \in Nat
    BY <1>1, <1>4
  <2>2. c + m[c] <= d
    BY <1>6, <2>1 DEF Sane, Ordered
  <2>3. CASE c # b
    BY <1>4, <2>2, <2>3
  <2>4. CASE c = b
    <3>1. n < d
      BY <1>2, <2>1, <2>2, <2>4
    <3>2. n + m[n] <= d
      BY <2>1, <3>1 DEF Sane, Ordered
    <3>. QED BY <1>2, <2>1, <2>4, <3>2
  <2>. QED BY <2>3, <2>4
<1>7. (\A c \in F2 : m2[c + 1] = MAGIC_FREE) /\ (\A c \in U2 : m2[c + 1] = MAGIC_USED)
  BY <1>0, <1>3 DEF Sane
<1>8. Succ(F, q, n) /\ Succ(F, n, x)
  BY DEF Sane, NextOf
<1>9. /\ Succ(F1, q, x)
      /\ \A c \in F \cup {0} : \A y : c # q /\ c # n /\ Succ(F, c, y) => Succ(F1, c, y)
  <2>1. F \in SUBSET (Nat \ {0}) /\ q \in F \cup {0}
    BY <1>1 DEF NULL
  <2> HIDE DEF x
  <2>. QED BY <1>8, <2>1, SuccDrop
<1>10. /\ Succ(F2, q, b) /\ Succ(F2, b, x)
       /\ \A c \in F1 \cup {0} : \A y : c # q /\ Succ(F1, c, y) => Succ(F2, c, y)
  <2>1. F1 \in SUBSET (Nat \ {0}) /\ q \in F1 \cup {0}
    <3>1. q # n
      BY <1>2
    <3>2. \A c \in F1 : c \in Nat \ {0}
      BY <1>1
    <3>. QED BY <3>1, <3>2 DEF NULL
  <2> HIDE DEF x
  <2>2. x = NULL \/ b < x
    <3>1. x = NULL \/ (n < x /\ x \in Nat)
      <4>1. x = NULL \/ (x \in F /\ n < x)
        BY <1>8 DEF Succ
      <4>. QED BY <1>1, <4>1
    <3>. QED BY <1>2, <3>1
  <2> HIDE DEF F1
  <2>. QED BY <1>2, <1>9, <2>1, <2>2, SuccAdd
<1>11. \A c \in F1 \cup {0} : \A y : c # q /\ Succ(F, c, y) => Succ(F2, c, y)
  BY <1>2, <1>9, <1>10
<1>12. Succ(F2, NULL, p2)
  <2>1. CASE q = NULL
    BY <1>10, <2>1 DEF Linked
  <2>2. CASE q # NULL
    <3>1. Succ(F, 0, p) /\ p2 = p
      BY <2>2 DEF Sane, Linked, NULL
    <3>. QED BY <1>11, <2>2, <3>1 DEF NULL
  <2>. QED BY <2>1, <2>2
<1>13. ASSUME NEW c \in F2
       PROVE  Succ(F2, c, m2[c + 2])
  <2>1. CASE c = b
    BY <1>10, <2>1
  <2>2. CASE c = q
    <3>1. q # NULL
      BY <1>1, <1>2, <2>2 DEF NULL
    <3>. QED BY <1>10, <2>2, <3>1 DEF Linked
  <2>3. CASE c # b /\ c # q
    <3>1. c \in F1 /\ c \in F /\ m2[c + 2] = m[c + 2]
      BY <1>3, <2>3
    <3>2. Succ(F, c, m[c + 2])
      BY <3>1 DEF Sane
    <3>. QED BY <1>11, <2>3, <3>1, <3>2
  <2>. QED BY <2>1, <2>2, <2>3
<1>14. F2 \subseteq Words /\ U2 \subseteq Words /\ F2 \cap U2 = {} /\ g \subseteq HeapPages
  BY <1>0 DEF Sane
<1> HIDE DEF F2, U2
<1> SUFFICES Sane(m2, p2, F2, U2, g)
  BY DEF F2, U2, F1
<1>. QED BY <1>5, <1>6, <1>7, <1>12, <1>13, <1>14 DEF Sane, Ordered
(* free, joined with the last block, which ends where it starts *)
LEMMA JoinLast ==
  ASSUME NEW m, NEW p, NEW F, NEW U, NEW g, Sane(m, p, F, U, g),
         NEW b \in U, NEW l \in F, \A c \in F : c <= l, l + m[l] = b,
         NEW m2 \in [Words -> Nat], m2[l] = m[l] + m[b],
         Same(m, m2, Ext(m, b) \cup {l})
  PROVE  Sane(m2, p, F, U \ {b}, g)
<1> DEFINE U2 == U \ {b}
<1>0. b \notin F /\ F \cap U = {} /\ b # l
  BY DEF Sane
<1>1. \A c \in F \cup U : c \in Nat \ {0} /\ m[c] \in Nat /\ m[c] >= 3
  BY BlockIs
<1>2. l \in Nat /\ b \in Nat /\ m[l] \in Nat /\ m[b] \in Nat /\ m[l] >= 3 /\ m[b] >= 3
  BY <1>1
<1>3. \A c \in F \cup U : c # b /\ c # l =>
        m2[c] = m[c] /\ m2[c + 1] = m[c + 1] /\ m2[c + 2] = m[c + 2]
  <2> SUFFICES ASSUME NEW c \in F \cup U, c # b, c # l
               PROVE  m2[c] = m[c] /\ m2[c + 1] = m[c + 1] /\ m2[c + 2] = m[c + 2]
    OBVIOUS
  <2>1. c \in Words /\ c + 1 \in Words /\ c + 2 \in Words
    BY BlockIs
  <2>2. /\ c \notin Ext(m, b) /\ c + 1 \notin Ext(m, b) /\ c + 2 \notin Ext(m, b)
        /\ c \notin Ext(m, l) /\ c + 1 \notin Ext(m, l) /\ c + 2 \notin Ext(m, l)
    BY Apart
  <2>3. l \in Ext(m, l)
    BY <1>2 DEF Ext
  <2>. QED BY <2>1, <2>2, <2>3 DEF Same
<1>4. m2[l + 1] = m[l + 1] /\ m2[l + 2] = m[l + 2]
  <2>1. l + 1 \in Words /\ l + 2 \in Words
    BY BlockIs
  <2>2. l + 1 \notin Ext(m, b) /\ l + 2 \notin Ext(m, b)
    BY <1>0, Apart
  <2>3. l + 1 # l /\ l + 2 # l
    BY <1>2
  <2>. QED BY <2>1, <2>2, <2>3 DEF Same
<1>5. ASSUME NEW c \in F \cup U2
      PROVE  BlockOK(m2, g, c)
  <2>1. CASE c # l
    BY <1>3, <2>1 DEF Sane, BlockOK, Ext
  <2>2. CASE c = l
    <3> DEFINE s == m[l]
               t == m[b]
    <3>1. l .. l + s - 1 \subseteq WordsOf(g) /\ b .. b + t - 1 \subseteq WordsOf(g) /\ s >= 3
      BY DEF Sane, BlockOK, Ext, DescWords
    <3>2. s \in Nat /\ t \in Nat /\ m2[l] = s + t /\ b = l + s
      BY <1>2
    <3> HIDE DEF s, t
    <3>3. \A a \in l .. l + (s + t) - 1 : a \in l .. l + s - 1 \/ a \in b .. b + t - 1
      BY <1>2, <3>2
    <3>4. l .. l + (s + t) - 1 \subseteq WordsOf(g)
      BY <3>1, <3>3
    <3>. QED BY <2>2, <3>1, <3>2, <3>4 DEF BlockOK, Ext, DescWords
  <2>. QED BY <2>1, <2>2
<1>6. ASSUME NEW c \in F \cup U2, NEW d \in F \cup U2, c < d
      PROVE  c + m2[c] <= d
  <2>1. c \in F \cup U /\ d \in F \cup U /\ c # b /\ d # b /\ c \in Nat /\ d \in Nat
    BY <1>0, <1>1
  <2>2. c + m[c] <= d
    BY <1>6, <2>1 DEF Sane, Ordered
  <2>3. CASE c # l
    <3>1. m2[c] = m[c]
      BY <1>3, <2>1, <2>3
    <3>. QED BY <2>2, <3>1
  <2>4. CASE c = l
    <3>1. b < d
      BY <1>2, <2>1, <2>2, <2>4
    <3>2. b + m[b] <= d
      BY <2>1, <3>1 DEF Sane, Ordered
    <3> DEFINE s == m[l]
               t == m[b]
    <3>3. s \in Nat /\ t \in Nat /\ m2[l] = s + t /\ b = l + s /\ b + t <= d
      BY <1>2, <3>2
    <3> HIDE DEF s, t
    <3>4. l + (s + t) <= d
      BY <1>2, <2>1, <3>3
    <3>. QED BY <2>4, <3>3, <3>4
  <2>. QED BY <2>3, <2>4
<1>7. (\A c \in F : m2[c + 1] = MAGIC_FREE) /\ (\A c \in U2 : m2[c + 1] = MAGIC_USED)
  BY <1>0, <1>3, <1>4 DEF Sane
<1>8. \A c \in F : Succ(F, c, m2[c + 2])
  BY <1>0, <1>3, <1>4 DEF Sane
<1>9. F \subseteq Words /\ U2 \subseteq Words /\ F \cap U2 = {} /\ g \subseteq HeapPages /\ Succ(F, NULL, p)
  BY <1>0 DEF Sane
<1> HIDE DEF U2
<1> SUFFICES Sane(m2, p, F, U2, g)
  BY DEF U2
<1>. QED BY <1>5, <1>6, <1>7, <1>8, <1>9 DEF Sane, Ordered

(* malloc: the block n behind q is taken whole, t words of it *)
LEMMA Unlinked ==
  ASSUME NEW m, NEW p, NEW F, NEW U, NEW g, Sane(m, p, F, U, g),
         NEW q \in F \cup {NULL}, NEW n \in F, n = NextOf(m, p, q),
         NEW t \in Nat, t >= DescWords, t <= m[n],
         NEW m2 \in [Words -> Nat], NEW p2,
         m2[n] = t, m2[n + 1] = MAGIC_USED,
         Linked(p, m2, p2, q, m[n + 2]),
         Same(m, m2, Ext(m, n) \cup LinkWords(q))
  PROVE  Sane(m2, p2, F \ {n}, U \cup {n}, g)
<1> DEFINE F2 == F \ {n}
           U2 == U \cup {n}
           x == m[n + 2]
<1>0. n \notin U /\ F \cap U = {}
  BY DEF Sane
<1>1. \A c \in F \cup U : c \in Nat \ {0} /\ m[c] \in Nat /\ m[c] >= 3
  BY BlockIs
<1>2. \A c \in F \cup U : c # n =>
        m2[c] = m[c] /\ m2[c + 1] = m[c + 1] /\ (c # q => m2[c + 2] = m[c + 2])
  <2>1. Same(m, m2, Ext(m, n) \cup Ext(m, n) \cup LinkWords(q))
    BY DEF Same
  <2>2. ASSUME NEW c \in F \cup U, c # n
        PROVE  Kept(m, m2, q, c)
    BY <2>1, <2>2, OthersStay
  <2>. QED BY <2>2 DEF Kept
<1>3. F2 \cup U2 = F \cup U
  OBVIOUS
<1>4. ASSUME NEW c \in F \cup U
      PROVE  m2[c] \in Nat /\ m2[c] <= m[c] /\ m2[c] >= 3
  BY <1>1, <1>2 DEF DescWords
<1>5. ASSUME NEW c \in F \cup U
      PROVE  BlockOK(m2, g, c)
  <2> DEFINE s == m[c]
             s2 == m2[c]
  <2>1. c .. c + s - 1 \subseteq WordsOf(g)
    BY DEF Sane, BlockOK, Ext
  <2>2. s2 \in Nat /\ s2 <= s /\ s2 >= 3 /\ s \in Nat /\ c \in Nat
    BY <1>1, <1>4
  <2> HIDE DEF s, s2
  <2>3. c .. c + s2 - 1 \subseteq c .. c + s - 1
    BY <2>2
  <2>4. c .. c + s2 - 1 \subseteq WordsOf(g)
    BY <2>1, <2>3
  <2>. QED BY <2>2, <2>4 DEF s2, BlockOK, Ext, DescWords
<1>6. ASSUME NEW c \in F \cup U, NEW d \in F \cup U, c < d
      PROVE  c + m2[c] <= d
  <2>1. c + m[c] <= d
    BY <1>6 DEF Sane, Ordered
  <2>. QED BY <1>1, <1>4, <2>1
<1>7. (\A c \in F2 : m2[c + 1] = MAGIC_FREE) /\ (\A c \in U2 : m2[c + 1] = MAGIC_USED)
  BY <1>0, <1>2 DEF Sane
<1>8. Succ(F, q, n) /\ Succ(F, n, x)
  BY DEF Sane, NextOf
<1>9. /\ Succ(F2, q, x)
      /\ \A c \in F \cup {0} : \A y : c # q /\ c # n /\ Succ(F, c, y) => Succ(F2, c, y)
  <2>1. F \in SUBSET (Nat \ {0}) /\ q \in F \cup {0}
    BY <1>1 DEF NULL
  <2> HIDE DEF x
  <2>. QED BY <1>8, <2>1, SuccDrop
<1>10. n # 0 /\ q # n
  <2>1. n \in Nat \ {0} /\ (q = 0 \/ q \in Nat)
    BY <1>1 DEF NULL
  <2>2. q < n
    BY <1>8, <2>1 DEF Succ, NULL
  <2>. QED BY <2>1, <2>2
<1>11. Succ(F2, NULL, p2)
  <2>1. CASE q = NULL
    BY <1>9, <2>1 DEF Linked
  <2>2. CASE q # NULL
    <3>1. Succ(F, 0, p) /\ p2 = p
      BY <2>2 DEF Sane, Linked, NULL
    <3>. QED BY <1>9, <1>10, <2>2, <3>1 DEF NULL
  <2>. QED BY <2>1, <2>2
<1>12. ASSUME NEW c \in F2
       PROVE  Succ(F2, c, m2[c + 2])
  <2>1. CASE c = q
    <3>1. c \in Nat \ {0} /\ q # NULL
      BY <1>1, <2>1 DEF NULL
    <3>. QED BY <1>9, <2>1, <3>1 DEF Linked
  <2>2. CASE c # q
    <3>1. c \in F /\ c # n /\ m2[c + 2] = m[c + 2]
      BY <1>2, <2>2
    <3>2. Succ(F, c, m[c + 2])
      BY <3>1 DEF Sane
    <3>. QED BY <1>9, <2>2, <3>1, <3>2
  <2>. QED BY <2>1, <2>2
<1>13. F2 \subseteq Words /\ U2 \subseteq Words /\ F2 \cap U2 = {} /\ g \subseteq HeapPages
  BY <1>0 DEF Sane
<1> HIDE DEF F2, U2
<1> SUFFICES Sane(m2, p2, F2, U2, g)
  BY DEF F2, U2
<1>. QED BY <1>3, <1>5, <1>6, <1>7, <1>11, <1>12, <1>13 DEF Sane, Ordered
(* A block of t words comes into use at b, clear of the blocks there are *)
Clear(m, S, b, t) == \A c \in S : c + m[c] <= b \/ b + t <= c

LEMMA Taken ==
  ASSUME NEW m, NEW p, NEW F, NEW U, NEW g, Sane(m, p, F, U, g),
         NEW g2 \in SUBSET HeapPages, g \subseteq g2,
         NEW b \in Words, NEW t \in Nat, t >= DescWords,
         b .. b + t - 1 \subseteq WordsOf(g2),
         Clear(m, F \cup U, b, t),
         NEW m2 \in [Words -> Nat], m2[b] = t, m2[b + 1] = MAGIC_USED,
         Same(m, m2, {b, b + 1, b + 2})
  PROVE  Sane(m2, p, F, U \cup {b}, g2) /\ b \notin F \cup U
<1> DEFINE U2 == U \cup {b}
<1>0. F \cap U = {} /\ b \in Nat /\ t >= 3
  BY WordsNat DEF Sane, DescWords
<1>1. \A c \in F \cup U : c \in Nat \ {0} /\ m[c] \in Nat /\ m[c] >= 3 /\ (c + m[c] <= b \/ b + t <= c)
  BY BlockIs DEF Clear
<1>2. b \notin F \cup U
  <2> SUFFICES ASSUME b \in F \cup U PROVE FALSE
    OBVIOUS
  <2> DEFINE s == m[b]
  <2>1. s \in Nat /\ s >= 3 /\ (b + s <= b \/ b + t <= b)
    BY <1>1
  <2> HIDE DEF s
  <2>. QED BY <1>0, <2>1
<1>3. \A c \in F \cup U : m2[c] = m[c] /\ m2[c + 1] = m[c + 1] /\ m2[c + 2] = m[c + 2]
  <2> SUFFICES ASSUME NEW c \in F \cup U
               PROVE  m2[c] = m[c] /\ m2[c + 1] = m[c + 1] /\ m2[c + 2] = m[c + 2]
    OBVIOUS
  <2>1. c \in Words /\ c + 1 \in Words /\ c + 2 \in Words
    BY BlockIs
  <2> DEFINE s == m[c]
  <2>2. c \in Nat /\ s \in Nat /\ s >= 3 /\ (c + s <= b \/ b + t <= c)
    BY <1>1
  <2> HIDE DEF s
  <2>3. c \notin {b, b + 1, b + 2} /\ c + 1 \notin {b, b + 1, b + 2} /\ c + 2 \notin {b, b + 1, b + 2}
    BY <1>0, <2>2
  <2>. QED BY <2>1, <2>3 DEF Same
<1>4. ASSUME NEW c \in F \cup U2
      PROVE  BlockOK(m2, g2, c)
  <2>1. CASE c = b
    BY <1>0, <2>1 DEF BlockOK, Ext, DescWords
  <2>2. CASE c # b
    <3>1. BlockOK(m, g, c) /\ m2[c] = m[c]
      BY <1>3, <2>2 DEF Sane
    <3>2. WordsOf(g) \subseteq WordsOf(g2)
      BY DEF WordsOf
    <3>. QED BY <3>1, <3>2 DEF BlockOK, Ext
  <2>. QED BY <2>1, <2>2
<1>5. ASSUME NEW c \in F \cup U2, NEW d \in F \cup U2, c < d
      PROVE  c + m2[c] <= d
  <2>1. CASE c # b /\ d # b
    BY <1>3, <1>5, <2>1 DEF Sane, Ordered
  <2>2. CASE c = b /\ d # b
    <3> DEFINE s == m[d]
    <3>1. d \in Nat /\ s \in Nat /\ s >= 3 /\ (d + s <= b \/ b + t <= d) /\ b < d
      BY <1>1, <1>5, <2>2
    <3> HIDE DEF s
    <3>2. b + t <= d
      BY <1>0, <3>1
    <3>. QED BY <2>2, <3>2
  <2>3. CASE c # b /\ d = b
    <3> DEFINE s == m[c]
    <3>1. c \in Nat /\ s \in Nat /\ (c + s <= b \/ b + t <= c) /\ c < b /\ m2[c] = s
      BY <1>1, <1>3, <1>5, <2>3
    <3> HIDE DEF s
    <3>2. c + s <= b
      BY <1>0, <3>1
    <3>. QED BY <2>3, <3>1, <3>2
  <2>4. ~(c = b /\ d = b)
    BY <1>0, <1>5
  <2>. QED BY <2>1, <2>2, <2>3, <2>4
<1>6. (\A c \in F : m2[c + 1] = MAGIC_FREE) /\ (\A c \in U2 : m2[c + 1] = MAGIC_USED)
  BY <1>3 DEF Sane
<1>7. Succ(F, NULL, p) /\ \A c \in F : Succ(F, c, m2[c + 2])
  BY <1>3 DEF Sane
<1>8. F \subseteq Words /\ U2 \subseteq Words /\ F \cap U2 = {}
  BY <1>0, <1>2 DEF Sane
<1> HIDE DEF U2
<1> SUFFICES Sane(m2, p, F, U2, g2)
  BY <1>2 DEF U2
<1>. QED BY <1>4, <1>5, <1>6, <1>7, <1>8 DEF Sane, Ordered

(* The blocks of V hold in m2 what they hold in m *)
Keeps(m, m2, V) == \A c \in V : \A a \in Ext(m, c) : m2[a] = m[a]

LEMMA ExtApart ==
  ASSUME NEW m, NEW p, NEW F, NEW U, NEW g, Sane(m, p, F, U, g),
         NEW b \in F \cup U, NEW c \in F \cup U, b # c
  PROVE  Ext(m, b) \cap Ext(m, c) = {}
<1> DEFINE s == m[b]
           t == m[c]
<1>1. b \in Nat /\ c \in Nat /\ s \in Nat /\ t \in Nat
  BY BlockIs
<1>2. b + s <= c \/ c + t <= b
  BY PairIs
<1> HIDE DEF s, t
<1>3. b .. b + s - 1 \cap c .. c + t - 1 = {}
  BY <1>1, <1>2
<1>. QED BY <1>3 DEF Ext, s, t

LEMMA UsedKept ==
  ASSUME NEW m, NEW p, NEW F, NEW U, NEW g, Sane(m, p, F, U, g),
         NEW b \in F \cup U, NEW d \in F \cup U, NEW q \in F \cup {NULL}, NEW m2,
         Same(m, m2, Ext(m, b) \cup Ext(m, d) \cup LinkWords(q)),
         NEW V \in SUBSET U, b \notin V, d \notin V
  PROVE  Keeps(m, m2, V)
<1> SUFFICES ASSUME NEW c \in V, NEW a \in Ext(m, c) PROVE m2[a] = m[a]
  BY DEF Keeps
<1>1. c \in U /\ c # b /\ c # d /\ F \cap U = {}
  BY DEF Sane
<1>2. a \notin Ext(m, b) /\ a \notin Ext(m, d)
  BY <1>1, ExtApart
<1>3. a \notin LinkWords(q)
  <2>1. CASE q = NULL
    BY <2>1 DEF LinkWords
  <2>2. CASE q # NULL
    <3>1. q \in F /\ q # c
      BY <1>1, <2>2
    <3>2. q \in Nat /\ m[q] \in Nat /\ m[q] >= 3
      BY <3>1, BlockIs
    <3>3. q + 2 \in Ext(m, q)
      BY <3>2 DEF Ext
    <3>4. Ext(m, q) \cap Ext(m, c) = {}
      BY <1>1, <3>1, ExtApart
    <3>. QED BY <2>2, <3>3, <3>4 DEF LinkWords
  <2>. QED BY <2>1, <2>2
<1>4. a \in Words
  BY <1>1, ExtWords
<1>. QED BY <1>2, <1>3, <1>4 DEF Same

LEMMA KeepsTrans ==
  ASSUME NEW m, NEW m2, NEW m3, NEW V, NEW W, V \subseteq W,
         \A c \in V : c \in Nat /\ m[c] \in Nat /\ m[c] >= 3,
         Keeps(m, m2, W), Keeps(m2, m3, V)
  PROVE  Keeps(m, m3, V)
<1> SUFFICES ASSUME NEW c \in V, NEW a \in Ext(m, c) PROVE m3[a] = m[a]
  BY DEF Keeps
<1>1. c \in Ext(m, c)
  BY DEF Ext
<1>2. m2[c] = m[c] /\ m2[a] = m[a]
  BY <1>1 DEF Keeps
<1>3. a \in Ext(m2, c)
  BY <1>2 DEF Ext
<1>. QED BY <1>2, <1>3 DEF Keeps

(* malloc: the block b keeps t words *)
LEMMA Shrunk ==
  ASSUME NEW m, NEW p, NEW F, NEW U, NEW g, Sane(m, p, F, U, g),
         NEW b \in F \cup U, NEW t \in Nat, t >= DescWords, t <= m[b],
         NEW m2 \in [Words -> Nat], m2[b] = t, Same(m, m2, {b})
  PROVE  Sane(m2, p, F, U, g)
<1>1. \A c \in F \cup U : c \in Nat \ {0} /\ m[c] \in Nat /\ m[c] >= 3
  BY BlockIs
<1>2. \A c \in F \cup U : (c # b => m2[c] = m[c]) /\ m2[c + 1] = m[c + 1] /\ m2[c + 2] = m[c + 2]
  <2> SUFFICES ASSUME NEW c \in F \cup U
               PROVE  (c # b => m2[c] = m[c]) /\ m2[c + 1] = m[c + 1] /\ m2[c + 2] = m[c + 2]
    OBVIOUS
  <2>1. c \in Words /\ c + 1 \in Words /\ c + 2 \in Words
    BY BlockIs
  <2>2. c + 1 # b /\ c + 2 # b
    <3>1. CASE c = b
      BY <1>1, <3>1
    <3>2. CASE c # b
      <4>1. b \in Ext(m, b)
        BY <1>1 DEF Ext
      <4>. QED BY <3>2, <4>1, Apart
    <3>. QED BY <3>1, <3>2
  <2>. QED BY <2>1, <2>2 DEF Same
<1>4. ASSUME NEW c \in F \cup U
      PROVE  m2[c] \in Nat /\ m2[c] <= m[c] /\ m2[c] >= 3
  BY <1>1, <1>2 DEF DescWords
<1>5. ASSUME NEW c \in F \cup U
      PROVE  BlockOK(m2, g, c)
  <2> DEFINE s == m[c]
             s2 == m2[c]
  <2>1. c .. c + s - 1 \subseteq WordsOf(g)
    BY DEF Sane, BlockOK, Ext
  <2>2. s2 \in Nat /\ s2 <= s /\ s2 >= 3 /\ s \in Nat /\ c \in Nat
    BY <1>1, <1>4
  <2> HIDE DEF s, s2
  <2>3. c .. c + s2 - 1 \subseteq c .. c + s - 1
    BY <2>2
  <2>4. c .. c + s2 - 1 \subseteq WordsOf(g)
    BY <2>1, <2>3
  <2>. QED BY <2>2, <2>4 DEF s2, BlockOK, Ext, DescWords
<1>6. ASSUME NEW c \in F \cup U, NEW d \in F \cup U, c < d
      PROVE  c + m2[c] <= d
  <2>1. c + m[c] <= d
    BY <1>6 DEF Sane, Ordered
  <2>. QED BY <1>1, <1>4, <2>1
<1>. QED BY <1>2, <1>5, <1>6 DEF Sane, Ordered

(* What a caller writes into a block of its own *)
LEMMA Inside ==
  ASSUME NEW m, NEW p, NEW F, NEW U, NEW g, Sane(m, p, F, U, g),
         NEW b \in U, NEW m2 \in [Words -> Nat],
         Same(m, m2, b + 3 .. b + m[b] - 1)
  PROVE  /\ Sane(m2, p, F, U, g) /\ m2[b] = m[b]
         /\ Keeps(m, m2, U \ {b})
<1> DEFINE S == b + 3 .. b + m[b] - 1
<1>1. \A c \in F \cup U : m2[c] = m[c] /\ m2[c + 1] = m[c + 1] /\ m2[c + 2] = m[c + 2]
  <2> SUFFICES ASSUME NEW c \in F \cup U
               PROVE  m2[c] = m[c] /\ m2[c + 1] = m[c + 1] /\ m2[c + 2] = m[c + 2]
    OBVIOUS
  <2>1. c \in Words /\ c + 1 \in Words /\ c + 2 \in Words
    BY BlockIs
  <2>2. b \in Nat /\ c \in Nat /\ m[b] \in Nat
    BY BlockIs
  <2>3. c \notin S /\ c + 1 \notin S /\ c + 2 \notin S
    <3>1. CASE c = b
      BY <2>2, <3>1
    <3>2. CASE c # b
      <4>1. c \notin Ext(m, b) /\ c + 1 \notin Ext(m, b) /\ c + 2 \notin Ext(m, b)
        BY <3>2, Apart
      <4>2. S \subseteq Ext(m, b)
        BY <2>2 DEF Ext
      <4>. QED BY <4>1, <4>2
    <3>. QED BY <3>1, <3>2
  <2>. QED BY <2>1, <2>3 DEF Same
<1>2. \A c \in F \cup U : BlockOK(m2, g, c)
  BY <1>1 DEF Sane, BlockOK, Ext
<1>3. \A c, d \in F \cup U : Ordered(m2, c, d)
  BY <1>1 DEF Sane, Ordered
<1>4. (\A c \in F : m2[c + 1] = MAGIC_FREE) /\ (\A c \in U : m2[c + 1] = MAGIC_USED)
  BY <1>1 DEF Sane
<1>5. \A c \in F : Succ(F, c, m2[c + 2])
  BY <1>1 DEF Sane
<1>6. Sane(m2, p, F, U, g)
  BY <1>2, <1>3, <1>4, <1>5 DEF Sane
<1>7. ASSUME NEW c \in U \ {b}
      PROVE  \A a \in Ext(m, c) : m2[a] = m[a]
  <2> DEFINE s == m[b]
             t == m[c]
  <2>1. c + t <= b \/ b + s <= c
    BY PairIs
  <2>2. b \in Nat /\ c \in Nat /\ s \in Nat /\ t \in Nat
    BY BlockIs
  <2> HIDE DEF s, t
  <2>3. \A a \in c .. c + t - 1 : a \notin b + 3 .. b + s - 1
    BY <2>1, <2>2
  <2>4. \A a \in c .. c + t - 1 : a \in Words
    BY ExtWords DEF t, Ext
  <2>. QED BY <2>3, <2>4 DEF Same, Ext, s, t
<1>. QED BY <1>1, <1>6, <1>7 DEF Keeps
-----------------------------------------------------------------------------
(* Positions of the free list *)
HeapType == [mem : [Words -> Nat], pool : Nat, pages : SUBSET HeapPages]
PrevOf(list, k) == IF k = 1 THEN NULL ELSE list[k - 1]

LEMMA StopIs ==
  ASSUME NEW list, Len(list) \in Nat, NEW met \in SUBSET (1 .. Len(list))
  PROVE  /\ Stop(list, met) \in 1 .. Len(list) + 1
         /\ met = {} => Stop(list, met) = Len(list) + 1
         /\ met # {} => Stop(list, met) \in met
         /\ \A j \in met : Stop(list, met) <= j
<1>1. CASE met = {}
  BY <1>1 DEF Stop
<1>2. CASE met # {}
  <2>1. met \in SUBSET Nat
    OBVIOUS
  <2> DEFINE s == CHOOSE k \in met : \A j \in met : k <= j
  <2>2. \E k \in met : \A j \in met : k <= j
    BY <1>2, <2>1, Least
  <2>3. s \in met /\ \A j \in met : s <= j
    BY <2>2
  <2>4. Stop(list, met) = s
    BY <1>2 DEF Stop
  <2> HIDE DEF s
  <2>. QED BY <1>2, <2>3, <2>4
<1>. QED BY <1>1, <1>2

(* The block in front of position k, and the one at k, are neighbours in F *)
LEMMA PositionIs ==
  ASSUME NEW h, NEW F, NEW U, Sane(h.mem, h.pool, F, U, h.pages),
         NEW k \in 1 .. Len(FreeList(h)) + 1
  PROVE  LET list == FreeList(h)
             q == PrevOf(list, k)
             n == NextOf(h.mem, h.pool, q)
         IN  /\ q \in F \cup {NULL}
             /\ k <= Len(list) => list[k] \in F /\ n = list[k]
             /\ k = Len(list) + 1 => n = NULL /\ \A c \in F : c <= q
             /\ Succ(F, q, n)
<1> DEFINE list == FreeList(h)
           m == h.mem
           p == h.pool
           q == PrevOf(list, k)
           n == NextOf(m, p, q)
<1>1. Begins(list, p, m, F) /\ Whole(list, F)
  BY ListFacts
<1> HIDE DEF list
<1>2. Len(list) \in Nat /\ list \in Seq(F) /\ k \in 1 .. Len(list) + 1
  BY <1>1 DEF Begins, list
<1>3. \A c \in F : c \in Nat \ {0}
  BY BlockIs
<1>4. k # 1 => k - 1 \in 1 .. Len(list) /\ q = list[k - 1] /\ q \in F
  BY <1>2 DEF PrevOf
<1>5. q \in F \cup {NULL}
  BY <1>4 DEF PrevOf
<1>6. Succ(F, q, n)
  BY <1>5 DEF Sane, NextOf
<1>7. CASE k <= Len(list)
  <2>1. list[k] \in F
    BY <1>2, <1>7
  <2>2. n = list[k]
    <3>1. CASE k = 1
      <4>1. list # << >> /\ q = NULL
        BY <1>2, <1>7, <3>1 DEF PrevOf
      <4>. QED BY <1>1, <3>1, <4>1 DEF Begins, NextOf
    <3>2. CASE k # 1
      <4>1. k \in 1 .. Len(list) /\ k > 1
        BY <1>2, <1>7, <3>2
      <4>2. m[list[k - 1] + 2] = list[k]
        BY <1>1, <4>1 DEF Begins
      <4>3. q # NULL
        BY <1>3, <1>4, <3>2 DEF NULL
      <4>. QED BY <1>4, <3>2, <4>2, <4>3 DEF NextOf
    <3>. QED BY <3>1, <3>2
  <2>. QED BY <1>2, <1>5, <1>6, <1>7, <2>1, <2>2 DEF list
<1>8. CASE k = Len(list) + 1
  <2>1. \A c \in F : c <= q
    <3> SUFFICES ASSUME NEW c \in F PROVE c <= q
      OBVIOUS
    <3>1. PICK i \in 1 .. Len(list) : list[i] = c
      BY <1>1 DEF Whole
    <3>2. k # 1 /\ k - 1 = Len(list) /\ i <= Len(list)
      BY <1>2, <1>8
    <3>3. i < Len(list) => list[i] < list[Len(list)]
      BY <1>1, <1>2, <3>2 DEF Begins
    <3>4. q = list[Len(list)] /\ q \in Nat /\ c \in Nat
      BY <1>3, <1>4, <3>2
    <3>. QED BY <1>2, <3>1, <3>2, <3>3, <3>4
  <2>2. n = NULL
    <3> SUFFICES ASSUME n # NULL PROVE FALSE
      OBVIOUS
    <3>1. n \in F /\ q < n
      BY <1>6 DEF Succ
    <3>2. n \in Nat /\ q \in Nat /\ n <= q
      BY <1>3, <1>5, <2>1, <3>1 DEF NULL
    <3>. QED BY <3>1, <3>2
  <2>. QED BY <1>2, <1>5, <1>6, <1>8, <2>1, <2>2 DEF list
<1>. QED BY <1>2, <1>7, <1>8

LEMMA LinkIs ==
  ASSUME NEW h \in HeapType, NEW list, NEW k, NEW b \in Nat,
         PrevOf(list, k) # NULL => PrevOf(list, k) + 2 \in Words,
         k # 1 => PrevOf(list, k) # NULL
  PROVE  LET h2 == Link(h, list, k, b)
         IN  /\ h2 \in HeapType /\ h2.pages = h.pages
             /\ Linked(h.pool, h2.mem, h2.pool, PrevOf(list, k), b)
             /\ Same(h.mem, h2.mem, LinkWords(PrevOf(list, k)))
<1> DEFINE q == PrevOf(list, k)
           h2 == Link(h, list, k, b)
<1>1. CASE k = 1
  <2>1. h2 = [h EXCEPT !.pool = b] /\ q = NULL
    BY <1>1 DEF Link, PrevOf
  <2>2. h2 \in HeapType /\ h2.pages = h.pages /\ h2.mem = h.mem /\ h2.pool = b
    <3> HIDE DEF h2
    <3>. QED BY <2>1 DEF HeapType
  <2>. QED BY <2>1, <2>2 DEF Linked, Same
<1>2. CASE k # 1
  <2>1. q = list[k - 1] /\ q # NULL /\ q + 2 \in Words
    BY <1>2 DEF PrevOf
  <2> DEFINE m2 == SetNext(h.mem, q, b)
  <2>2. h2 = [h EXCEPT !.mem = m2]
    BY <1>2, <2>1 DEF Link
  <2>3. m2 \in [Words -> Nat] /\ m2[q + 2] = b /\ Same(h.mem, m2, {q + 2})
    <3> DEFINE m == h.mem
    <3>1. m \in [Words -> Nat] /\ q + 2 \in Words
      BY <2>1 DEF HeapType
    <3> HIDE DEF q, m
    <3>2. WordSet(m, m2, q + 2, b)
      BY <3>1, SetNextIs DEF m
    <3>. QED BY <3>2 DEF m, WordSet
  <2> HIDE DEF m2
  <2>4. h2 \in HeapType /\ h2.pages = h.pages /\ h2.mem = m2 /\ h2.pool = h.pool
    <3> HIDE DEF h2
    <3>. QED BY <2>2, <2>3 DEF HeapType
  <2> HIDE DEF h2, q
  <2>5. Linked(h.pool, h2.mem, h2.pool, q, b) /\ Same(h.mem, h2.mem, LinkWords(q))
    BY <2>1, <2>3, <2>4 DEF Linked, LinkWords
  <2>. QED BY <2>4, <2>5 DEF h2, q
<1>. QED BY <1>1, <1>2
-----------------------------------------------------------------------------
(* free: the block joins the free list, and no other block in use changes *)
LEMMA UnusedKeeps ==
  ASSUME NEW h \in HeapType, NEW F, NEW U, Sane(h.mem, h.pool, F, U, h.pages), NEW b \in U
  PROVE  LET h2 == Unused(h, b)
         IN  /\ h2 \in HeapType /\ h2.pages = h.pages
             /\ Keeps(h.mem, h2.mem, U \ {b})
             /\ \E F2 : Sane(h2.mem, h2.pool, F2, U \ {b}, h2.pages)
<1> DEFINE m == h.mem
           p == h.pool
           g == h.pages
           size == Size(m, b)
           end == b + size
           list == FreeList(h)
           met == {j \in DOMAIN list : list[j] >= end}
           k == Stop(list, met)
           q == PrevOf(list, k)
           n == NextOf(m, p, q)
           m0 == Fill(SetDesc(m, b, size, MAGIC_FREE, NULL), DESC_PTR(b), size - DescWords, 0)
           h2 == Unused(h, b)
           Done == /\ h2 \in HeapType /\ h2.pages = g
                   /\ Keeps(m, h2.mem, U \ {b})
                   /\ \E F2 : Sane(h2.mem, h2.pool, F2, U \ {b}, g)
<1> SUFFICES Done
  BY Zenon
<1>0. b \notin F /\ F \cap U = {} /\ b \in F \cup U /\ F \in SUBSET (Nat \ {0}) /\ U \in SUBSET (Nat \ {0})
  <2>1. \A c \in F \cup U : c \in Nat \ {0}
    BY BlockIs
  <2>. QED BY <2>1 DEF Sane
<1>1. /\ m \in [Words -> Nat] /\ p \in Nat /\ g \in SUBSET HeapPages
      /\ \A c \in F \cup U : c \in Words /\ c + 1 \in Words /\ c + 2 \in Words
      /\ \A c \in F \cup U : c \in Nat \ {0} /\ m[c] \in Nat /\ m[c] >= 3
  BY BlockIs DEF HeapType
<1>2. size = m[b] /\ size \in Nat /\ size >= 3 /\ b \in Nat /\ b # 0
  BY <1>0, <1>1 DEF Size, Read
<1>3. /\ m0 \in [Words -> Nat] /\ m0[b] = size /\ m0[b + 1] = MAGIC_FREE /\ m0[b + 2] = NULL
      /\ Same(m, m0, Ext(m, b))
  <2> DEFINE m1 == SetDesc(m, b, size, MAGIC_FREE, NULL)
  <2>1. /\ m1 \in [Words -> Nat] /\ m1[b] = size /\ m1[b + 1] = MAGIC_FREE /\ m1[b + 2] = NULL
        /\ Same(m, m1, {b, b + 1, b + 2})
    <3>1. MAGIC_FREE \in Nat /\ NULL \in Nat
      BY DEF MAGIC_FREE, NULL
    <3>2. b \in Words /\ b + 1 \in Words /\ b + 2 \in Words
      BY <1>1
    <3> HIDE DEF m, size
    <3>3. DescSet(m, m1, b, size, MAGIC_FREE, NULL)
      BY <1>1, <1>2, <3>1, <3>2, SetDescIs
    <3> HIDE DEF m1
    <3>. QED BY <3>3 DEF DescSet
  <2> HIDE DEF m1, m, size
  <2>2. DESC_PTR(b) = b + 3 /\ size - DescWords = size - 3 /\ size - 3 \in Int /\ b + 3 \in Nat
    BY <1>2 DEF DESC_PTR, DescWords
  <2>3. m0 \in [Words -> Nat] /\ Same(m1, m0, b + 3 .. b + 3 + (size - 3) - 1)
    <3>1. m0 = Fill(m1, b + 3, size - 3, 0)
      BY <2>2 DEF m1
    <3>2. Fill(m1, b + 3, size - 3, 0) \in [Words -> Nat] /\ Same(m1, Fill(m1, b + 3, size - 3, 0), b + 3 .. b + 3 + (size - 3) - 1)
      BY <2>1, <2>2, FillIs
    <3>. QED BY <3>1, <3>2
  <2> HIDE DEF m0
  <2>4. b \notin b + 3 .. b + 3 + (size - 3) - 1 /\ b + 1 \notin b + 3 .. b + 3 + (size - 3) - 1
        /\ b + 2 \notin b + 3 .. b + 3 + (size - 3) - 1
    BY <1>2
  <2>5. m0[b] = m1[b] /\ m0[b + 1] = m1[b + 1] /\ m0[b + 2] = m1[b + 2]
    BY <1>0, <1>1, <2>3, <2>4 DEF Same
  <2>6. \A a \in {b, b + 1, b + 2} \cup (b + 3 .. b + 3 + (size - 3) - 1) : a \in b .. b + size - 1
    BY <1>2
  <2>7. Same(m, m0, b .. b + size - 1)
    BY <2>1, <2>3, <2>6 DEF Same
  <2>. QED BY <1>2, <2>1, <2>3, <2>5, <2>7 DEF Ext
<1>4. CASE p = NULL
  <2>1. F = {}
    <3>1. Succ(F, 0, 0)
      BY <1>4 DEF Sane, NULL
    <3>2. \A c \in F : c <= 0
      BY <1>0, <3>1 DEF Succ, NULL
    <3>. QED BY <1>0, <3>2
  <2>2. h2 = [h EXCEPT !.mem = m0, !.pool = b]
    <3> HIDE DEF m0
    <3>. QED BY <1>4 DEF Unused, m0
  <2> HIDE DEF m0
  <2>3. h2 \in HeapType /\ h2.mem = m0 /\ h2.pool = b /\ h2.pages = g
    <3> HIDE DEF h2
    <3>1. [h EXCEPT !.mem = m0, !.pool = b] = [[h EXCEPT !.mem = m0] EXCEPT !.pool = b]
      OBVIOUS
    <3>. QED BY <1>1, <1>2, <1>3, <2>2, <3>1 DEF HeapType
  <2> HIDE DEF h2
  <2>4. Sane(m0, b, F \cup {b}, U \ {b}, g)
    <3>1. NULL < b /\ NextOf(m, p, NULL) = NULL
      BY <1>2, <1>4 DEF NULL, NextOf
    <3>2. Linked(p, m0, b, NULL, b)
      BY DEF Linked
    <3>3. Same(m, m0, Ext(m, b) \cup LinkWords(NULL))
      BY <1>3 DEF Same
    <3> HIDE DEF m, p, g
    <3>. QED BY <1>2, <1>3, <2>1, <3>1, <3>2, <3>3, Insert DEF m, p, g
  <2>5. Keeps(m, m0, U \ {b})
    <3>1. Same(m, m0, Ext(m, b) \cup Ext(m, b) \cup LinkWords(NULL))
      BY <1>3 DEF Same
    <3>. QED BY <1>0, <3>1, UsedKept
  <2>. QED BY <2>3, <2>4, <2>5
<1>5. /\ Begins(list, p, m, F) /\ Whole(list, F) /\ Len(list) \in Nat
      /\ DOMAIN list = 1 .. Len(list) /\ \A j \in 1 .. Len(list) : list[j] \in F
  <2>1. Begins(list, p, m, F) /\ Whole(list, F)
    BY ListFacts
  <2> HIDE DEF list
  <2>2. list \in Seq(F)
    BY <2>1 DEF Begins
  <2>. QED BY <2>1, <2>2
<1>6. /\ k \in 1 .. Len(list) + 1 /\ \A j \in met : k <= j
      /\ k <= Len(list) => k \in met
      /\ \A j \in 1 .. Len(list) : j < k => ~(list[j] >= end)
  <2> HIDE DEF list, end
  <2>1. Len(list) \in Nat /\ met \in SUBSET (1 .. Len(list))
    BY <1>5
  <2>2. \A j \in 1 .. Len(list) : list[j] >= end => j \in met
    BY <1>5
  <2> HIDE DEF met
  <2>3. /\ k \in 1 .. Len(list) + 1 /\ (met = {} => k = Len(list) + 1)
        /\ (met # {} => k \in met) /\ \A j \in met : k <= j
    BY <2>1, StopIs
  <2> HIDE DEF k
  <2>4. \A j \in 1 .. Len(list) : j < k => j \notin met
    BY <2>1, <2>3
  <2>5. k <= Len(list) => k \in met
    BY <2>1, <2>3
  <2>. QED BY <2>2, <2>3, <2>4, <2>5
<1>7. /\ q \in F \cup {NULL} /\ Succ(F, q, n)
      /\ k <= Len(list) => list[k] \in F /\ n = list[k] /\ list[k] >= end
      /\ k = Len(list) + 1 => n = NULL /\ \A c \in F : c <= q
  <2>1. /\ q \in F \cup {NULL} /\ Succ(F, q, n)
        /\ k <= Len(list) => list[k] \in F /\ n = list[k]
        /\ k = Len(list) + 1 => n = NULL /\ \A c \in F : c <= q
    <3> HIDE DEF k
    <3>. QED BY <1>6, PositionIs
  <2>2. k <= Len(list) => list[k] >= end
    <3> HIDE DEF list, end, k
    <3>. QED BY <1>6
  <2>. QED BY <2>1, <2>2
<1>8. q < b /\ q # b
  <2>1. CASE q = NULL
    BY <1>2, <2>1 DEF NULL
  <2>2. CASE q # NULL
    <3>1. q \in F /\ q # b
      BY <1>0, <1>7, <2>2
    <3>2. k # 1 /\ q = list[k - 1]
      BY <2>2 DEF PrevOf
    <3>3. k - 1 \in 1 .. Len(list) /\ k - 1 < k
      <4> HIDE DEF k, list
      <4>. QED BY <1>5, <1>6, <3>2
    <3>4. ~(q >= end)
      <4> HIDE DEF k, list, q, end
      <4>. QED BY <1>6, <3>2, <3>3
    <3> DEFINE s == m[q]
    <3>5. q + s <= b \/ b + size <= q
      <4>1. q + m[q] <= b \/ b + m[b] <= q
        <5> HIDE DEF q, m, p, g
        <5>1. Sane(m, p, F, U, g)
          BY DEF m, p, g
        <5>. QED BY <1>0, <3>1, <5>1, PairIs
      <4>. QED BY <1>2, <4>1
    <3>6. q \in Nat /\ s \in Nat /\ s >= 3
      BY <1>1, <3>1
    <3>7. end = b + size
      OBVIOUS
    <3> HIDE DEF s, size, q, end
    <3>. QED BY <1>2, <3>1, <3>4, <3>5, <3>6, <3>7
  <2>. QED BY <2>1, <2>2
<1>9. /\ b \notin LinkWords(q) /\ b + 1 \notin LinkWords(q) /\ b + 2 \notin LinkWords(q)
  <2>1. q # NULL => b # q + 2 /\ b + 1 # q + 2 /\ b + 2 # q + 2
    <3> HIDE DEF q
    <3>. QED BY <1>7, <1>8, Apart
  <2>. QED BY <2>1 DEF LinkWords
<1>10. \A c \in F : c <= q \/ b < c
  <2>1. q \in Nat
    <3> HIDE DEF q
    <3>1. q \in F \/ q = 0
      BY <1>7 DEF NULL
    <3>2. \A c \in F : c \in Nat
      BY <1>0
    <3>. QED BY <3>1, <3>2
  <2>2. CASE k = Len(list) + 1
    BY <1>7, <2>2
  <2>3. CASE k # Len(list) + 1
    <3>1. k <= Len(list)
      <4> HIDE DEF k, list
      <4>. QED BY <1>5, <1>6, <2>3
    <3>2. n \in F /\ n >= end
      BY <1>7, <3>1
    <3>3. b < n
      <4> HIDE DEF n, size
      <4>. QED BY <1>0, <1>2, <3>2
    <3>4. \A c \in F : c <= q \/ n <= c
      <4> HIDE DEF n, q
      <4>1. n # NULL
        BY <1>0, <3>2 DEF NULL
      <4>. QED BY <1>7, <4>1 DEF Succ
    <3> HIDE DEF n, q
    <3>5. n \in Nat /\ \A c \in F : c \in Nat
      BY <1>0, <3>2
    <3>. QED BY <1>2, <3>3, <3>4, <3>5
  <2>. QED BY <2>2, <2>3
<1>11. (q # NULL => q + 2 \in Words) /\ (k # 1 => q # NULL)
  <2>1. q # NULL => q + 2 \in Words
    BY <1>1, <1>7
  <2>2. k # 1 => q # NULL
    <3> SUFFICES ASSUME k # 1 PROVE q # NULL
      OBVIOUS
    <3>1. k - 1 \in 1 .. Len(list) /\ q = list[k - 1]
      <4>1. q = list[k - 1]
        BY DEF PrevOf
      <4> HIDE DEF k, list
      <4>. QED BY <1>5, <1>6, <4>1
    <3>2. q \in F
      <4> HIDE DEF k, list, q
      <4>. QED BY <1>5, <3>1
    <3>. QED BY <1>0, <3>2 DEF NULL
  <2>. QED BY <2>1, <2>2
(* the link to b, whatever has been written to the words of m3 before *)
<1>12. ASSUME NEW m3 \in [Words -> Nat], h2 = Link([h EXCEPT !.mem = m3], list, k, b)
       PROVE  /\ h2 \in HeapType /\ h2.pages = g
              /\ Linked(p, h2.mem, h2.pool, q, b) /\ Same(m3, h2.mem, LinkWords(q))
              /\ h2.mem[b] = m3[b] /\ h2.mem[b + 1] = m3[b + 1] /\ h2.mem[b + 2] = m3[b + 2]
  <2> DEFINE hx == [h EXCEPT !.mem = m3]
  <2>1. hx \in HeapType /\ hx.mem = m3 /\ hx.pool = p /\ hx.pages = g
    BY DEF HeapType
  <2> HIDE DEF hx
  <2>2. h2 = Link(hx, list, k, b)
    BY <1>12 DEF hx
  <2>3. LET hl == Link(hx, list, k, b)
        IN  /\ hl \in HeapType /\ hl.pages = hx.pages
            /\ Linked(hx.pool, hl.mem, hl.pool, PrevOf(list, k), b)
            /\ Same(hx.mem, hl.mem, LinkWords(PrevOf(list, k)))
    <3> HIDE DEF list, k
    <3>. QED BY <1>2, <1>11, <2>1, LinkIs
  <2> HIDE DEF h2
  <2>4. /\ h2 \in HeapType /\ h2.pages = g
        /\ Linked(p, h2.mem, h2.pool, q, b) /\ Same(m3, h2.mem, LinkWords(q))
    BY <2>1, <2>2, <2>3
  <2>5. h2.mem[b] = m3[b] /\ h2.mem[b + 1] = m3[b + 1] /\ h2.mem[b + 2] = m3[b + 2]
    BY <1>0, <1>1, <1>9, <2>4 DEF Same
  <2>. QED BY <2>4, <2>5
<1> DEFINE cur == list[k]
<1>13. CASE p # NULL /\ k <= Len(list) /\ cur = end
  <2> DEFINE joined == SetDesc(m0, b, size + Size(m0, cur), MAGIC_FREE, Next_(m0, cur))
             m3 == Erase(joined, cur)
  <2>1. h2 = Link([h EXCEPT !.mem = m3], list, k, b)
    <3> HIDE DEF list, m0, k, size
    <3>. QED BY <1>13 DEF Unused, m0, list, k, size
  <2> HIDE DEF m0, list, k, size, h2
  <2>2. cur \in F /\ n = cur /\ cur # b /\ cur \in F \cup U
    BY <1>0, <1>7, <1>13
  <2>3. /\ cur \in Words /\ cur + 1 \in Words /\ cur + 2 \in Words
        /\ cur \in Nat /\ m[cur] \in Nat /\ m[cur] >= 3
    BY <1>1, <2>2
  <2> HIDE DEF m, p, g, cur
  <2>4. Sane(m, p, F, U, g)
    BY DEF m, p, g
  <2>5. /\ cur \notin Ext(m, b) /\ cur + 2 \notin Ext(m, b)
        /\ b \notin Ext(m, cur) /\ b + 1 \notin Ext(m, cur) /\ b + 2 \notin Ext(m, cur)
    BY <1>0, <2>2, <2>4, Apart
  <2>6. Size(m0, cur) = m[cur] /\ Next_(m0, cur) = m[cur + 2] /\ m[cur + 2] \in Nat
    BY <1>1, <1>3, <2>3, <2>5 DEF Size, Next_, Read, Same
  <2>7. DescSet(m0, joined, b, size + m[cur], MAGIC_FREE, m[cur + 2])
    <3>1. joined = SetDesc(m0, b, size + m[cur], MAGIC_FREE, m[cur + 2])
      BY <2>6
    <3>2. size + m[cur] \in Nat /\ MAGIC_FREE \in Nat
      BY <1>2, <2>3 DEF MAGIC_FREE
    <3>3. b \in Words /\ b + 1 \in Words /\ b + 2 \in Words
      BY <1>0, <1>1
    <3> DEFINE z == size + m[cur]
               y == m[cur + 2]
    <3>4. z \in Nat /\ y \in Nat
      BY <2>6, <3>2
    <3> HIDE DEF z, y
    <3>5. DescSet(m0, SetDesc(m0, b, z, MAGIC_FREE, y), b, z, MAGIC_FREE, y)
      BY <1>3, <3>2, <3>3, <3>4, SetDescIs
    <3>. QED BY <3>1, <3>5 DEF z, y
  <2> HIDE DEF joined
  <2>8. DescSet(joined, m3, cur, 0, 0, 0)
    BY <2>3, <2>7, SetDescIs DEF DescSet, Erase
  <2> HIDE DEF m3
  <2>9. /\ m3 \in [Words -> Nat] /\ m3[b] = size + m[cur] /\ m3[b + 1] = MAGIC_FREE /\ m3[b + 2] = m[cur + 2]
        /\ Same(m, m3, Ext(m, b) \cup Ext(m, cur))
    <3>1. {cur, cur + 1, cur + 2} \subseteq Ext(m, cur) /\ {b, b + 1, b + 2} \subseteq Ext(m, b)
      <4>1. \A a \in {cur, cur + 1, cur + 2} : a \in cur .. cur + m[cur] - 1
        BY <2>3
      <4>2. \A a \in {b, b + 1, b + 2} : a \in b .. b + m[b] - 1
        BY <1>2
      <4>. QED BY <4>1, <4>2 DEF Ext
    <3>2. Same(m, m3, Ext(m, b) \cup Ext(m, cur))
      BY <1>3, <2>7, <2>8, <3>1 DEF Same, DescSet
    <3>3. m3[b] = joined[b] /\ m3[b + 1] = joined[b + 1] /\ m3[b + 2] = joined[b + 2]
      BY <1>0, <1>1, <2>5, <2>8, <3>1 DEF Same, DescSet
    <3>. QED BY <2>7, <2>8, <3>2, <3>3 DEF DescSet
  <2> DEFINE m2 == h2.mem
             p2 == h2.pool
  <2>10. /\ h2 \in HeapType /\ h2.pages = g
         /\ Linked(p, m2, p2, q, b) /\ Same(m3, m2, LinkWords(q))
         /\ m2[b] = m3[b] /\ m2[b + 1] = m3[b + 1] /\ m2[b + 2] = m3[b + 2]
    BY <1>12, <2>1, <2>9
  <2>11. m2 \in [Words -> Nat]
    BY <2>10 DEF HeapType
  <2> HIDE DEF m2, p2, q, n
  <2>12. Same(m, m2, Ext(m, b) \cup Ext(m, cur) \cup LinkWords(q))
    BY <2>9, <2>10 DEF Same
  <2>13. /\ cur = NextOf(m, p, q) /\ cur = b + m[b]
         /\ m2[b] = m[b] + m[cur] /\ m2[b + 1] = MAGIC_FREE /\ m2[b + 2] = m[cur + 2]
    BY <1>2, <1>13, <2>2, <2>9, <2>10 DEF n
  <2>14. Sane(m2, p2, (F \ {cur}) \cup {b}, U \ {b}, g)
    BY <1>7, <1>8, <2>2, <2>4, <2>10, <2>11, <2>12, <2>13, JoinNext
  <2>15. Keeps(m, m2, U \ {b})
    <3>1. U \ {b} \in SUBSET U /\ b \notin U \ {b} /\ cur \notin U \ {b}
      BY <1>0, <2>2
    <3>. QED BY <1>0, <1>7, <2>2, <2>4, <2>12, <3>1, UsedKept
  <2>. QED BY <2>10, <2>14, <2>15 DEF m2, p2
(* the block put between q and n *)
<1>14. ASSUME NEW m3 \in [Words -> Nat], h2 = Link([h EXCEPT !.mem = m3], list, k, b),
              m3[b] = size, m3[b + 1] = MAGIC_FREE, m3[b + 2] = n, Same(m, m3, Ext(m, b))
       PROVE  Done
  <2> HIDE DEF m0, list, k, size, h2
  <2> DEFINE m2 == h2.mem
             p2 == h2.pool
  <2>1. /\ h2 \in HeapType /\ h2.pages = g
        /\ Linked(p, m2, p2, q, b) /\ Same(m3, m2, LinkWords(q))
        /\ m2[b] = m3[b] /\ m2[b + 1] = m3[b + 1] /\ m2[b + 2] = m3[b + 2]
    BY <1>12, <1>14
  <2>2. m2 \in [Words -> Nat]
    BY <2>1 DEF HeapType
  <2> HIDE DEF m, p, g, cur
  <2>3. Sane(m, p, F, U, g)
    BY DEF m, p, g
  <2> HIDE DEF m2, p2, q, n
  <2>4. Same(m, m2, Ext(m, b) \cup LinkWords(q)) /\ Same(m, m2, Ext(m, b) \cup Ext(m, b) \cup LinkWords(q))
    BY <1>14, <2>1 DEF Same
  <2>5. m2[b] = m[b] /\ m2[b + 1] = MAGIC_FREE /\ m2[b + 2] = NextOf(m, p, q)
    BY <1>2, <1>14, <2>1 DEF n
  <2>6. Sane(m2, p2, F \cup {b}, U \ {b}, g)
    BY <1>7, <1>8, <1>10, <2>1, <2>2, <2>3, <2>4, <2>5, Insert
  <2>7. Keeps(m, m2, U \ {b})
    <3>1. U \ {b} \in SUBSET U /\ b \notin U \ {b}
      BY <1>0
    <3>. QED BY <1>0, <1>7, <2>3, <2>4, <3>1, UsedKept
  <2>. QED BY <2>1, <2>6, <2>7 DEF m2, p2
<1>15. CASE p # NULL /\ k <= Len(list) /\ cur # end
  <2> DEFINE m3 == SetNext(m0, b, cur)
  <2>1. h2 = Link([h EXCEPT !.mem = m3], list, k, b)
    <3> HIDE DEF list, m0, k, size
    <3>. QED BY <1>15 DEF Unused, m0, list, k, size
  <2> HIDE DEF m0, list, k, size, h2, cur
  <2>2. n = cur /\ cur \in Nat
    BY <1>0, <1>7, <1>15 DEF cur
  <2>3. b + 2 \in Words /\ b + 1 \in Words /\ b \in Words
    BY <1>0, <1>1
  <2>4. WordSet(m0, m3, b + 2, cur)
    BY <1>3, <2>2, <2>3, SetNextIs
  <2> HIDE DEF m3
  <2>5. m3 \in [Words -> Nat] /\ m3[b] = size /\ m3[b + 1] = MAGIC_FREE /\ m3[b + 2] = cur
    BY <1>2, <1>3, <2>3, <2>4 DEF WordSet, Same
  <2>6. Same(m, m3, Ext(m, b))
    <3>1. b + 2 \in Ext(m, b)
      BY <1>2 DEF Ext
    <3>. QED BY <1>3, <2>4, <3>1 DEF WordSet, Same
  <2>. QED BY <1>14, <2>1, <2>2, <2>5, <2>6
<1>16. CASE p # NULL /\ ~(k <= Len(list))
  <2> DEFINE last == list[Len(list)]
  <2>1. k = Len(list) + 1
    <3> HIDE DEF k, list
    <3>. QED BY <1>5, <1>6, <1>16
  <2>2. Len(list) # 0
    <3> SUFFICES ASSUME Len(list) = 0 PROVE FALSE
      OBVIOUS
    <3>1. q = NULL /\ n = p
      <4>1. k = 1
        BY <2>1
      <4> HIDE DEF k, list
      <4>. QED BY <4>1 DEF PrevOf, NextOf
    <3>. QED BY <1>7, <1>16, <2>1, <3>1
  <2>3. q = last /\ q \in F /\ q # NULL
    <3>1. k # 1 /\ q = list[k - 1] /\ k - 1 = Len(list)
      <4>1. k # 1 /\ k - 1 = Len(list)
        <5> HIDE DEF k, list
        <5>. QED BY <1>5, <2>1, <2>2
      <4>. QED BY <4>1 DEF PrevOf
    <3>2. q # NULL
      BY <1>11, <3>1
    <3>. QED BY <1>7, <3>1, <3>2
  <2>4. n = NULL /\ \A c \in F : c <= last
    BY <1>7, <2>1, <2>3
  <2>5. last \in Words /\ last \in Nat /\ m[last] \in Nat /\ last # b /\ last \in F \cup U
    BY <1>0, <1>1, <2>3
  <2>6. Size(m0, last) = m[last]
    <3>1. last \notin Ext(m, b)
      <4> HIDE DEF last, m, p, g
      <4>1. Sane(m, p, F, U, g)
        BY DEF m, p, g
      <4>. QED BY <1>0, <2>5, <4>1, Apart
    <3> HIDE DEF last, m0
    <3>. QED BY <1>3, <2>5, <3>1 DEF Size, Read, Same
  <2>7. CASE last + Size(m0, last) = b
    <3> DEFINE m1 == Erase(m0, b)
               v == Size(m0, last) + size
               m2 == SetSize(m1, last, v)
    <3>1. h2 = [h EXCEPT !.mem = m2]
      <4> HIDE DEF list, m0, k, size
      <4>. QED BY <1>16, <2>7 DEF Unused, m0, list, k, size
    <3> HIDE DEF m0, list, k, size, h2, last, m, p, g, q, n
    <3>2. Sane(m, p, F, U, g) /\ v \in Nat /\ v = m[last] + m[b] /\ last + m[last] = b
      BY <1>2, <2>5, <2>6, <2>7 DEF m, p, g
    <3> HIDE DEF v
    <3>3. b \in Words /\ b + 1 \in Words /\ b + 2 \in Words
      BY <1>0, <1>1
    <3>4. DescSet(m0, m1, b, 0, 0, 0)
      BY <1>3, <3>3, SetDescIs DEF Erase
    <3> HIDE DEF m1
    <3>5. WordSet(m1, m2, last, v)
      BY <2>5, <3>2, <3>4, SetSizeIs DEF DescSet
    <3> HIDE DEF m2
    <3>6. m2 \in [Words -> Nat] /\ m2[last] = m[last] + m[b]
      BY <3>2, <3>5 DEF WordSet
    <3>7. Same(m, m2, Ext(m, b) \cup {last})
      <4>1. {b, b + 1, b + 2} \subseteq Ext(m, b)
        <5>1. \A a \in {b, b + 1, b + 2} : a \in b .. b + m[b] - 1
          BY <1>2
        <5>. QED BY <5>1 DEF Ext
      <4>. QED BY <1>3, <3>4, <3>5, <4>1 DEF Same, WordSet, DescSet
    <3>8. Sane(m2, p, F, U \ {b}, g)
      BY <2>3, <2>4, <3>2, <3>6, <3>7, JoinLast
    <3>9. Keeps(m, m2, U \ {b})
      <4>1. last \in Ext(m, last)
        <5>1. m[last] >= 3
          BY <1>1, <2>5
        <5>. QED BY <2>5, <5>1 DEF Ext
      <4>2. Same(m, m2, Ext(m, b) \cup Ext(m, last) \cup LinkWords(NULL))
        BY <3>7, <4>1 DEF Same
      <4>3. U \ {b} \in SUBSET U /\ b \notin U \ {b} /\ last \notin U \ {b}
        BY <1>0, <2>3
      <4>. QED BY <1>0, <2>5, <3>2, <4>2, <4>3, UsedKept
    <3>10. h2 \in HeapType /\ h2.mem = m2 /\ h2.pool = p /\ h2.pages = g
      BY <3>1, <3>6 DEF HeapType, m, p, g
    <3>. QED BY <3>8, <3>9, <3>10
  <2>8. CASE last + Size(m0, last) # b
    <3>1. h2 = Link([h EXCEPT !.mem = m0], list, k, b)
      <4> HIDE DEF list, m0, k, size
      <4>. QED BY <1>16, <2>8 DEF Unused, m0, list, k, size
    <3>. QED BY <1>3, <1>14, <2>4, <3>1
  <2>. QED BY <2>7, <2>8
<1>. QED BY <1>4, <1>13, <1>15, <1>16
-----------------------------------------------------------------------------
(* What malloc returns: no block in use changes, and one is added *)
Allocated(h, r, U, total) ==
  /\ r.heap \in HeapType /\ r.heap.mem[r.blk] = total
  /\ r.blk \in Words /\ r.blk \notin U /\ Keeps(h.mem, r.heap.mem, U)
  /\ \E F2 : Sane(r.heap.mem, r.heap.pool, F2, U \cup {r.blk}, r.heap.pages)

LEMMA AllocatedIs ==
  ASSUME NEW h, NEW h2, NEW blk, NEW U, NEW total,
         h2 \in HeapType, h2.mem[blk] = total, blk \in Words, blk \notin U,
         Keeps(h.mem, h2.mem, U),
         \E F2 : Sane(h2.mem, h2.pool, F2, U \cup {blk}, h2.pages)
  PROVE  Allocated(h, [heap |-> h2, blk |-> blk], U, total)
<1> DEFINE r == [heap |-> h2, blk |-> blk]
<1>1. r.heap = h2 /\ r.blk = blk
  OBVIOUS
<1> HIDE DEF r
<1>2. Allocated(h, r, U, total)
  BY <1>1 DEF Allocated
<1>. QED BY <1>2 DEF r

(* ... from the free list *)
LEMMA TakeKeeps ==
  ASSUME NEW h \in HeapType, NEW F, NEW U, Sane(h.mem, h.pool, F, U, h.pages),
         NEW k \in 1 .. Len(FreeList(h)), NEW total \in Nat, total >= DescWords,
         Size(h.mem, FreeList(h)[k]) >= total
  PROVE  LET taken == TakeFrom(h, FreeList(h), k, total)
             h2 == [taken.heap EXCEPT !.mem = SetDesc(@, taken.blk, total, MAGIC_USED, NULL)]
         IN  Allocated(h, [heap |-> h2, blk |-> taken.blk], U, total)
<1> DEFINE m == h.mem
           p == h.pool
           g == h.pages
           list == FreeList(h)
           b == list[k]
           q == PrevOf(list, k)
           n == NextOf(m, p, q)
           taken == TakeFrom(h, list, k, total)
           blk == taken.blk
           h2 == [taken.heap EXCEPT !.mem = SetDesc(@, blk, total, MAGIC_USED, NULL)]
           Done == /\ h2 \in HeapType /\ h2.pages = g /\ h2.mem[blk] = total
                   /\ blk \in Words /\ blk \notin U /\ Keeps(m, h2.mem, U)
                   /\ \E F2 : Sane(h2.mem, h2.pool, F2, U \cup {blk}, g)
<1> SUFFICES Done
  <2> HIDE DEF h2, blk
  <2> SUFFICES ASSUME Done PROVE Allocated(h, [heap |-> h2, blk |-> blk], U, total)
    BY Zenon DEF h2, blk
  <2>. QED BY AllocatedIs
<1>0. Sane(m, p, F, U, g) /\ F \cap U = {}
  BY DEF Sane
<1>1. list \in Seq(F) /\ Len(list) \in Nat /\ k \in 1 .. Len(list) + 1 /\ k <= Len(list) /\ k # Len(list) + 1
  <2>1. Begins(list, p, m, F)
    BY ListFacts
  <2> HIDE DEF list
  <2>2. list \in Seq(F) /\ k \in 1 .. Len(list)
    BY <2>1 DEF Begins, list
  <2>. QED BY <2>2
<1>2. q \in F \cup {NULL} /\ b \in F /\ n = b /\ Succ(F, q, n)
  <2>1. /\ q \in F \cup {NULL} /\ Succ(F, q, n)
        /\ k <= Len(list) => list[k] \in F /\ n = list[k]
    BY <1>1, PositionIs
  <2>. QED BY <1>1, <2>1
<1>3. Size(m, b) >= total
  OBVIOUS
<1>4. taken = IF Size(m, b) < total + MinBlockSize
              THEN [heap |-> Link(h, list, k, Next_(m, b)), blk |-> b]
              ELSE [heap |-> [h EXCEPT !.mem = SetSize(m, b, Size(m, b) - total)],
                    blk |-> b + Size(m, b) - total]
  BY DEF TakeFrom
<1>5. k # 1 => q = list[k - 1] /\ q # NULL
  <2> SUFFICES ASSUME k # 1 PROVE q = list[k - 1] /\ q # NULL
    OBVIOUS
  <2>1. k - 1 \in 1 .. Len(list) /\ q = list[k - 1]
    BY <1>1 DEF PrevOf
  <2>2. q \in F
    BY <1>1, <2>1
  <2>3. q \in Nat \ {0}
    BY <1>0, <2>2, BlockIs
  <2>. QED BY <2>1, <2>3 DEF NULL
<1> HIDE DEF list
<1>6. /\ m \in [Words -> Nat] /\ p \in Nat /\ g \in SUBSET HeapPages
      /\ \A c \in F \cup U : c \in Words /\ c + 1 \in Words /\ c + 2 \in Words
      /\ \A c \in F \cup U : c \in Nat \ {0} /\ m[c] \in Nat /\ m[c] >= 3
  BY BlockIs DEF HeapType
<1> HIDE DEF b, q
<1>7. /\ b \in F \cup U /\ b \in Words /\ b + 1 \in Words /\ b + 2 \in Words
      /\ b \in Nat \ {0} /\ m[b] \in Nat /\ m[b] >= 3 /\ m[b + 2] \in Nat
  BY <1>2, <1>6
<1>8. Size(m, b) = m[b] /\ Next_(m, b) = m[b + 2] /\ m[b] >= total
  BY <1>3, <1>7 DEF Size, Next_, Read
<1>9. q # b
  <2>1. q \in Nat
    BY <1>2, <1>6 DEF NULL
  <2>. QED BY <1>2, <1>7, <2>1 DEF Succ, NULL
<1>10. {b, b + 1, b + 2} \subseteq Ext(m, b)
  <2>1. \A a \in {b, b + 1, b + 2} : a \in b .. b + m[b] - 1
    BY <1>7
  <2>. QED BY <2>1 DEF Ext
<1>11. total >= 3 /\ MAGIC_USED \in Nat /\ NULL \in Nat
  BY DEF DescWords, MAGIC_USED, NULL
<1>12. CASE m[b] < total + MinBlockSize
  <2> DEFINE x == m[b + 2]
             h1 == Link(h, list, k, x)
             m1 == h1.mem
             p1 == h1.pool
             m2 == SetDesc(m1, b, total, MAGIC_USED, NULL)
  <2>1. taken = [heap |-> h1, blk |-> b]
    BY <1>4, <1>8, <1>12
  <2>2. h2 = [h1 EXCEPT !.mem = m2] /\ blk = b
    <3> HIDE DEF h1
    <3>. QED BY <2>1
  <2>3. /\ h1 \in HeapType /\ h1.pages = g
        /\ Linked(p, m1, p1, q, x) /\ Same(m, m1, LinkWords(q))
    <3>1. /\ PrevOf(list, k) # NULL => PrevOf(list, k) + 2 \in Words
          /\ k # 1 => PrevOf(list, k) # NULL
          /\ x \in Nat
      BY <1>2, <1>5, <1>6, <1>7 DEF q
    <3> HIDE DEF x
    <3>. QED BY <3>1, LinkIs DEF q
  <2> HIDE DEF h2, taken, h1
  <2>4. m1 \in [Words -> Nat] /\ p1 \in Nat
    BY <2>3 DEF HeapType
  <2>5. DescSet(m1, m2, b, total, MAGIC_USED, NULL)
    <3> HIDE DEF m1
    <3>. QED BY <1>7, <1>11, <2>4, SetDescIs
  <2>6. h2 \in HeapType /\ h2.mem = m2 /\ h2.pool = p1 /\ h2.pages = g
    <3>1. m2 \in [Words -> Nat]
      BY <2>5 DEF DescSet
    <3> HIDE DEF m2, m, p, g
    <3>. QED BY <2>2, <2>3, <3>1 DEF HeapType
  <2> HIDE DEF m, p, g, m1, p1, m2, x, n
  <2>7. Linked(p, m2, p1, q, x)
    <3>1. CASE q = NULL
      BY <2>3, <3>1 DEF Linked
    <3>2. CASE q # NULL
      <4>1. q \in F /\ q + 2 \in Words
        BY <1>2, <1>6, <3>2
      <4>2. q + 2 \notin Ext(m, b)
        BY <1>0, <1>7, <1>9, <4>1, Apart
      <4>3. m2[q + 2] = m1[q + 2]
        BY <1>10, <2>5, <4>1, <4>2 DEF DescSet, Same
      <4>. QED BY <2>3, <3>2, <4>3 DEF Linked
    <3>. QED BY <3>1, <3>2
  <2>8. Same(m, m2, Ext(m, b) \cup LinkWords(q)) /\ Same(m, m2, Ext(m, b) \cup Ext(m, b) \cup LinkWords(q))
    BY <1>10, <2>3, <2>5 DEF DescSet, Same
  <2>9. Sane(m2, p1, F \ {b}, U \cup {b}, g)
    <3>1. m2 \in [Words -> Nat] /\ m2[b] = total /\ m2[b + 1] = MAGIC_USED
      BY <2>5 DEF DescSet
    <3>2. b = NextOf(m, p, q)
      BY <1>2 DEF n
    <3>. QED BY <1>0, <1>2, <1>8, <2>7, <2>8, <3>1, <3>2, Unlinked DEF x
  <2>10. Keeps(m, m2, U) /\ b \notin U
    <3>1. U \in SUBSET U /\ b \notin U
      BY <1>0, <1>2
    <3>. QED BY <1>0, <1>2, <1>7, <2>8, <3>1, UsedKept
  <2>11. m2[b] = total
    BY <2>5 DEF DescSet
  <2> HIDE DEF blk
  <2>. QED BY <1>7, <2>2, <2>6, <2>9, <2>10, <2>11
<1>13. CASE ~(m[b] < total + MinBlockSize)
  <2> DEFINE s == m[b] - total
             c == b + s
             m1 == SetSize(m, b, s)
             h1 == [h EXCEPT !.mem = m1]
             m2 == SetDesc(m1, c, total, MAGIC_USED, NULL)
  <2>1. taken = [heap |-> h1, blk |-> b + m[b] - total]
    BY <1>4, <1>8, <1>13
  <2>2. s \in Nat /\ s >= 6 /\ b + m[b] - total = c /\ c \in Nat /\ c + total = b + m[b]
    <3> DEFINE z == m[b]
    <3>1. z \in Nat /\ b \in Nat /\ ~(z < total + 6)
      BY <1>7, <1>13 DEF MinBlockSize, DescWords
    <3> HIDE DEF z
    <3>2. z - total \in Nat /\ z - total >= 6
      BY <3>1
    <3>3. b + z - total = b + (z - total) /\ b + (z - total) \in Nat /\ b + (z - total) + total = b + z
      BY <3>1, <3>2
    <3>. QED BY <3>2, <3>3 DEF z
  <2>3. h2 = [h1 EXCEPT !.mem = SetDesc(h1.mem, c, total, MAGIC_USED, NULL)] /\ blk = c
    <3> HIDE DEF h1, c
    <3>. QED BY <2>1, <2>2
  <2> HIDE DEF h2, taken, blk, s
  <2>4. WordSet(m, m1, b, s)
    BY <1>6, <1>7, <2>2, SetSizeIs
  <2> HIDE DEF m1
  <2>5. h1 \in HeapType /\ h1.mem = m1 /\ h1.pool = p /\ h1.pages = g
    BY <2>4 DEF HeapType, WordSet
  <2> HIDE DEF h1
  <2>6. c \in Words /\ c + 1 \in Words /\ c + 2 \in Words /\ {c, c + 1, c + 2} \subseteq Ext(m, b)
        /\ c .. c + total - 1 \subseteq Ext(m, b)
    <3> DEFINE z == m[b]
    <3>1. z \in Nat /\ c + total = b + z /\ c = b + s /\ b \in Nat
      BY <1>7, <2>2
    <3>2. Ext(m, b) = b .. b + z - 1 /\ Ext(m, b) \subseteq Words
      BY <1>0, <1>7, ExtWords DEF Ext
    <3> HIDE DEF z, m, c
    <3>3. \A a \in {c, c + 1, c + 2} \cup (c .. c + total - 1) : a \in b .. b + z - 1
      BY <1>11, <2>2, <3>1
    <3>. QED BY <3>2, <3>3
  <2> HIDE DEF c
  <2>7. DescSet(m1, m2, c, total, MAGIC_USED, NULL)
    <3>1. m1 \in [Words -> Nat]
      BY <2>4 DEF WordSet
    <3>. QED BY <1>11, <2>6, <3>1, SetDescIs
  <2>8. h2 \in HeapType /\ h2.mem = m2 /\ h2.pool = p /\ h2.pages = g
    <3>1. m2 \in [Words -> Nat]
      BY <2>7 DEF DescSet
    <3> HIDE DEF m, p, g
    <3>. QED BY <2>3, <2>5, <3>1 DEF HeapType
  <2> HIDE DEF m, p, g, m2
  <2>9. Sane(m1, p, F, U, g)
    <3>1. s >= DescWords /\ s <= m[b]
      <4> DEFINE z == m[b]
      <4>1. z \in Nat /\ s = z - total /\ s >= 6
        BY <1>7, <2>2 DEF s
      <4> HIDE DEF z
      <4>2. s >= 3 /\ s <= z
        BY <4>1
      <4>. QED BY <4>2 DEF z, DescWords
    <3>. QED BY <1>0, <1>7, <2>2, <2>4, <3>1, Shrunk DEF WordSet
  <2>10. Clear(m1, F \cup U, c, total)
    <3> SUFFICES ASSUME NEW d \in F \cup U PROVE d + m1[d] <= c \/ c + total <= d
      BY DEF Clear
    <3>1. CASE d = b
      BY <1>7, <2>2, <2>4, <3>1 DEF WordSet, c
    <3>2. CASE d # b
      <4>1. m1[d] = m[d]
        BY <1>6, <2>4, <3>2 DEF WordSet, Same
      <4> DEFINE z == m[b]
                 y == m[d]
      <4>2. d + y <= b \/ b + z <= d
        BY <1>0, <1>7, <3>2, PairIs
      <4>3. c + total = b + z /\ c = b + s /\ y \in Nat /\ z \in Nat /\ d \in Nat
        BY <1>6, <1>7, <2>2 DEF c
      <4> HIDE DEF z, y
      <4>4. d + y <= c \/ c + total <= d
        BY <1>7, <2>2, <4>2, <4>3
      <4>. QED BY <4>1, <4>4 DEF y
    <3>. QED BY <3>1, <3>2
  <2>11. Sane(m2, p, F, U \cup {c}, g) /\ c \notin F \cup U
    <3>1. c .. c + total - 1 \subseteq WordsOf(g)
      BY <1>0, <1>7, <2>6, ExtWords
    <3>2. m2 \in [Words -> Nat] /\ m2[c] = total /\ m2[c + 1] = MAGIC_USED /\ Same(m1, m2, {c, c + 1, c + 2})
      BY <2>7 DEF DescSet
    <3>3. g \in SUBSET HeapPages /\ g \subseteq g /\ c \in Words
      BY <1>6, <2>6
    <3>. QED BY <2>9, <2>10, <3>1, <3>2, <3>3, Taken
  <2>12. Keeps(m, m2, U)
    <3>1. Same(m, m2, Ext(m, b) \cup Ext(m, b) \cup LinkWords(NULL))
      BY <1>10, <2>4, <2>6, <2>7 DEF WordSet, DescSet, Same
    <3>2. U \in SUBSET U /\ b \notin U
      BY <1>0, <1>2
    <3>. QED BY <1>0, <1>7, <3>1, <3>2, UsedKept
  <2>13. m2[c] = total
    BY <2>7 DEF DescSet
  <2>. QED BY <2>3, <2>6, <2>8, <2>11, <2>12, <2>13
<1>. QED BY <1>12, <1>13
-----------------------------------------------------------------------------
(* malloc, from new pages *)
LEMMA Rows ==
  ASSUME NEW d \in Nat \ {0}, NEW x \in Nat, NEW y \in Nat, x < y
  PROVE  x * d \in Nat /\ y * d \in Nat /\ x * d + d <= y * d
<1>1. PICK z \in Nat : y = x + 1 + z
  <2>1. y - x - 1 \in Nat /\ y = x + 1 + (y - x - 1)
    OBVIOUS
  <2>. QED BY <2>1
<1>2. x * d \in Nat /\ z * d \in Nat
  OBVIOUS
<1>3. (x + 1 + z) * d = x * d + d + z * d
  OBVIOUS
<1>. QED BY <1>1, <1>2, <1>3

LEMMA SpanIs ==
  ASSUME NEW pg \in Nat, NEW n \in Nat
  PROVE  /\ pg * PageWords \in Nat /\ n * PageWords \in Nat
         /\ pg * PageWords .. pg * PageWords + n * PageWords - 1 \subseteq WordsOf(pg .. pg + n - 1)
<1> DEFINE d == PageWords
<1>0. d \in Nat \ {0}
  BY HeapAssumption
<1> HIDE DEF d
<1> DEFINE s == pg * d
           t == n * d
<1>1. s \in Nat /\ t \in Nat /\ (pg + n) * d = s + t
  BY <1>0
<1>2. ASSUME NEW a \in s .. s + t - 1
      PROVE  a \in WordsOf(pg .. pg + n - 1)
  <2> DEFINE x == a \div d
             r == a % d
  <2>1. a \in Nat /\ s <= a /\ a < s + t
    BY <1>1
  <2> HIDE DEF s, t
  <2>2. x \in Nat /\ r \in 0 .. d - 1 /\ a = x * d + r /\ x * d \in Nat
    BY <1>0, <2>1
  <2> HIDE DEF x, r
  <2> DEFINE u == x * d
  <2>3. u \in Nat /\ a = u + r
    BY <2>2
  <2>4. ~(x < pg)
    <3> SUFFICES ASSUME x < pg PROVE FALSE
      OBVIOUS
    <3>1. u + d <= s
      BY <1>0, <2>2, Rows DEF s
    <3> HIDE DEF u
    <3>. QED BY <1>0, <1>1, <2>1, <2>2, <2>3, <3>1
  <2>5. ~(x >= pg + n)
    <3> SUFFICES ASSUME x >= pg + n PROVE FALSE
      OBVIOUS
    <3>1. (pg + n) * d <= u
      <4>1. CASE x = pg + n
        BY <1>0, <1>1, <2>2, <4>1
      <4>2. CASE x # pg + n
        <5>1. pg + n < x /\ pg + n \in Nat
          BY <2>2, <4>2
        <5>2. (pg + n) * d + d <= u
          BY <1>0, <2>2, <5>1, Rows
        <5>3. (pg + n) * d \in Nat
          BY <1>1
        <5> DEFINE v == (pg + n) * d
        <5> HIDE DEF u, v
        <5>. QED BY <1>0, <2>3, <5>2, <5>3 DEF v
      <4>. QED BY <4>1, <4>2
    <3>2. s + t <= u
      BY <1>1, <3>1
    <3> HIDE DEF u
    <3>. QED BY <1>0, <1>1, <2>1, <2>2, <2>3, <3>2
  <2>6. x \in pg .. pg + n - 1
    BY <2>2, <2>4, <2>5
  <2>7. a \in u .. u + d - 1
    <3> HIDE DEF u
    <3>. QED BY <1>0, <2>2, <2>3
  <2>. QED BY <2>6, <2>7 DEF WordsOf, d
<1>. QED BY <1>1, <1>2 DEF d

(* A block of the old pages is clear of the new ones *)
LEMMA NewPagesClear ==
  ASSUME NEW m, NEW p, NEW F, NEW U, NEW g, Sane(m, p, F, U, g),
         NEW pg \in Nat, NEW n \in Nat \ {0}, pg .. pg + n - 1 \cap g = {},
         NEW t \in Nat, t >= 1, t <= n * PageWords
  PROVE  Clear(m, F \cup U, pg * PageWords, t)
<1> DEFINE d == PageWords
           s == pg * d
           e == n * d
<1>0. d \in Nat \ {0}
  BY HeapAssumption
<1>1. s \in Nat /\ e \in Nat /\ (pg + n) * d = s + e /\ t <= e
  BY <1>0
<1>2. ASSUME NEW a \in WordsOf(g)
      PROVE  a < s \/ s + e <= a
  <2>1. PICK x \in g : a \in x * d .. x * d + d - 1
    BY DEF WordsOf
  <2>2. x \in Nat /\ ~(x \in pg .. pg + n - 1)
    BY HeapAssumption DEF Sane
  <2> HIDE DEF d
  <2> DEFINE u == x * d
  <2>3. u \in Nat
    BY <1>0, <2>2
  <2>4. CASE x < pg
    <3>1. u + d <= s
      BY <1>0, <2>2, <2>4, Rows
    <3> HIDE DEF s, e
    <3>2. a \in u .. u + d - 1
      BY <2>1
    <3> HIDE DEF u
    <3>. QED BY <1>0, <1>1, <2>3, <3>1, <3>2
  <2>5. CASE ~(x < pg)
    <3>1. x >= pg + n
      BY <2>2, <2>5
    <3>2. s + e <= u
      <4>1. CASE x = pg + n
        BY <1>0, <1>1, <4>1
      <4>2. CASE x # pg + n
        <5>1. pg + n < x /\ pg + n \in Nat
          BY <2>2, <3>1, <4>2
        <5> DEFINE v == (pg + n) * d
        <5>2. v + d <= u /\ v \in Nat
          BY <1>0, <2>2, <5>1, Rows
        <5>3. v = s + e
          BY <1>1
        <5> HIDE DEF u, v, s, e
        <5>. QED BY <1>0, <1>1, <2>3, <5>2, <5>3
      <4>. QED BY <4>1, <4>2
    <3> HIDE DEF s, e
    <3>3. a \in u .. u + d - 1
      BY <2>1
    <3> HIDE DEF u
    <3>. QED BY <1>0, <1>1, <2>3, <3>2, <3>3
  <2>. QED BY <2>4, <2>5
<1> HIDE DEF s, e
<1>3. ASSUME NEW c \in F \cup U
      PROVE  c + m[c] <= s \/ s + t <= c
  <2> DEFINE z == m[c]
  <2>1. c \in Nat /\ z \in Nat /\ z >= 3
    BY BlockIs
  <2>2. c .. c + z - 1 \subseteq WordsOf(g)
    BY ExtWords DEF Ext
  <2> HIDE DEF z
  <2>3. c < s \/ s + e <= c
    <3>1. c \in c .. c + z - 1
      BY <2>1
    <3>. QED BY <1>2, <2>2, <3>1
  <2>4. c < s => c + z <= s
    <3> SUFFICES ASSUME c < s, ~(c + z <= s) PROVE FALSE
      BY <2>1
    <3>1. s \in c .. c + z - 1
      BY <1>1, <2>1
    <3>2. s < s \/ s + e <= s
      BY <1>2, <2>2, <3>1
    <3>. QED BY <1>1, <3>2
  <2>. QED BY <1>1, <2>1, <2>3, <2>4 DEF z
<1>. QED BY <1>3 DEF Clear, s, d
LEMMA GrowKeeps ==
  ASSUME NEW h \in HeapType, NEW F, NEW U, Sane(h.mem, h.pool, F, U, h.pages),
         NEW total \in Nat, total >= DescWords, NEW pg \in RunsOf(h, PagesFor(total)),
         PagesFor(total) * PageWords - total \notin 1 .. DescWords - 1
  PROVE  LET h2 == Grow(h, pg, total)
             b == pg * PageWords
         IN  Allocated(h, [heap |-> h2, blk |-> b], U, total)
<1> DEFINE m == h.mem
           p == h.pool
           g == h.pages
           n == PagesFor(total)
           b == pg * PageWords
           rest == b + total
           restSize == n * PageWords - total
           run == pg .. pg + n - 1
           g1 == g \cup run
           m1 == SetDesc(m, b, total, MAGIC_USED, NULL)
           h1 == [h EXCEPT !.pages = @ \cup run, !.mem = m1]
           h2 == Grow(h, pg, total)
           Done == /\ h2 \in HeapType /\ h2.mem[b] = total
                   /\ b \in Words /\ b \notin U /\ Keeps(m, h2.mem, U)
                   /\ \E F2 : Sane(h2.mem, h2.pool, F2, U \cup {b}, h2.pages)
<1> SUFFICES Done
  <2> HIDE DEF h2, b
  <2> SUFFICES ASSUME Done PROVE Allocated(h, [heap |-> h2, blk |-> b], U, total)
    BY Zenon DEF h2, b
  <2>. QED BY AllocatedIs
<1>0. Sane(m, p, F, U, g) /\ F \cap U = {}
  BY DEF Sane
<1>1. m \in [Words -> Nat] /\ p \in Nat /\ g \in SUBSET HeapPages
  BY DEF HeapType
<1>2. /\ total >= 3 /\ total \in Nat \ {0}
      /\ restSize = 0 \/ restSize >= 3
      /\ restSize \in Nat /\ n \in Nat \ {0} /\ n * PageWords = total + restSize
  <2>1. total >= 3 /\ total \in Nat \ {0}
    BY DEF DescWords
  <2>2. n \in Nat \ {0} /\ n * PageWords \in Nat /\ n * PageWords >= total
    BY <2>1, PagesForIs
  <2>3. ~(restSize \in 1 .. 2)
    BY DEF DescWords
  <2> DEFINE e == n * PageWords
  <2>4. e \in Nat /\ e >= total /\ restSize = e - total
    BY <2>2
  <2> HIDE DEF e
  <2> HIDE DEF n
  <2>5. restSize \in Nat /\ e = total + restSize
    BY <2>4
  <2>. QED BY <2>1, <2>2, <2>3, <2>5 DEF e
<1>3. run \subseteq HeapPages /\ run \cap g = {} /\ pg \in HeapPages /\ pg \in Nat \ {0}
  <2>1. pg \in HeapPages /\ run \subseteq HeapPages \ g
    BY DEF RunsOf
  <2>. QED BY <2>1, HeapAssumption
<1>4. h2 = IF restSize = 0 THEN h1
           ELSE Unused([h1 EXCEPT !.mem = SetDesc(h1.mem, rest, restSize, MAGIC_USED, NULL)], rest)
  BY DEF Grow
<1> HIDE DEF n, m, p, g, h2
<1>5. g1 \in SUBSET HeapPages /\ g \subseteq g1 /\ run \subseteq g1 /\ b \in Nat /\ b # 0
  BY <1>1, <1>3, PageIs
<1>6. b .. b + n * PageWords - 1 \subseteq WordsOf(g1)
  <2>1. b .. b + n * PageWords - 1 \subseteq WordsOf(run)
    BY <1>2, <1>3, SpanIs
  <2>2. WordsOf(run) \subseteq WordsOf(g1)
    BY <1>3, <1>5, WordsMono
  <2>. QED BY <2>1, <2>2
<1>7. WordsOf(g1) \subseteq Words
  BY <1>5, WordsMono
<1>8. Clear(m, F \cup U, b, n * PageWords) /\ Clear(m, F \cup U, b, total)
  <2> HIDE DEF run
  <2>1. n * PageWords >= 1 /\ n * PageWords \in Nat /\ total <= n * PageWords /\ n * PageWords <= n * PageWords
    BY <1>2
  <2>2. pg \in Nat /\ pg .. pg + n - 1 \cap g = {}
    BY <1>3 DEF run
  <2> DEFINE e == n * PageWords
  <2>3. e \in Nat /\ e >= 1 /\ e <= n * PageWords /\ total >= 1
    BY <1>2, <2>1
  <2> HIDE DEF e
  <2>4. Clear(m, F \cup U, pg * PageWords, e) /\ Clear(m, F \cup U, pg * PageWords, total)
    BY <1>0, <1>2, <2>1, <2>2, <2>3, NewPagesClear
  <2>. QED BY <2>4 DEF e
<1> HIDE DEF b, run, restSize
<1>9. /\ b \in Words /\ b + 1 \in Words /\ b + 2 \in Words
      /\ b .. b + total - 1 \subseteq WordsOf(g1)
      /\ restSize # 0 => /\ rest \in Words /\ rest + 1 \in Words /\ rest + 2 \in Words
                         /\ rest .. rest + restSize - 1 \subseteq WordsOf(g1)
  <2> DEFINE e == n * PageWords
  <2>1. e = total + restSize /\ b .. b + e - 1 \subseteq WordsOf(g1)
    BY <1>2, <1>6
  <2> HIDE DEF e, g1
  <2>2. \A a \in {b, b + 1, b + 2} \cup (b .. b + total - 1) : a \in b .. b + e - 1
    BY <1>2, <1>5, <2>1
  <2>3. restSize # 0 => \A a \in {rest, rest + 1, rest + 2} \cup (rest .. rest + restSize - 1) : a \in b .. b + e - 1
    BY <1>2, <1>5, <2>1
  <2>. QED BY <1>7, <2>1, <2>2, <2>3
<1>10. MAGIC_USED \in Nat /\ NULL \in Nat
  BY DEF MAGIC_USED, NULL
<1>11. DescSet(m, m1, b, total, MAGIC_USED, NULL)
  BY <1>1, <1>2, <1>9, <1>10, SetDescIs
<1>12. h1 \in HeapType /\ h1.mem = m1 /\ h1.pool = p /\ h1.pages = g1
  <2>1. h1 = [[h EXCEPT !.pages = g1] EXCEPT !.mem = m1]
    <3> HIDE DEF m1, run
    <3>. QED BY DEF g
  <2>2. m1 \in [Words -> Nat]
    BY <1>11 DEF DescSet
  <2> HIDE DEF h1, m1, g1
  <2> DEFINE hg == [h EXCEPT !.pages = g1]
  <2>3. hg \in HeapType /\ hg.mem = m /\ hg.pool = p /\ hg.pages = g1
    BY <1>5 DEF HeapType, m, p
  <2> HIDE DEF hg
  <2>4. h1 = [hg EXCEPT !.mem = m1]
    BY <2>1 DEF hg
  <2>. QED BY <2>2, <2>3, <2>4 DEF HeapType
<1> HIDE DEF m1, h1, g1
<1>13. m1 \in [Words -> Nat] /\ m1[b] = total /\ m1[b + 1] = MAGIC_USED /\ Same(m, m1, {b, b + 1, b + 2})
  BY <1>11 DEF DescSet
<1>14. Sane(m1, p, F, U \cup {b}, g1) /\ b \notin F \cup U
  BY <1>0, <1>2, <1>5, <1>8, <1>9, <1>13, Taken
<1>15. ASSUME NEW c \in F \cup U
       PROVE  c \in Nat /\ m[c] \in Nat /\ m[c] >= 3 /\ m1[c] = m[c]
  <2>1. c \in Nat /\ c \in Words /\ m[c] \in Nat /\ m[c] >= 3
    BY <1>0, BlockIs
  <2> DEFINE s == m[c]
  <2>2. s \in Nat /\ s >= 3 /\ (c + s <= b \/ b + total <= c)
    BY <1>8, <2>1 DEF Clear
  <2> HIDE DEF s
  <2>3. c \notin {b, b + 1, b + 2}
    BY <1>2, <1>5, <2>1, <2>2
  <2>. QED BY <1>13, <2>1, <2>3 DEF Same
<1>16. Keeps(m, m1, U)
  <2> SUFFICES ASSUME NEW c \in U, NEW a \in Ext(m, c) PROVE m1[a] = m[a]
    BY DEF Keeps
  <2> DEFINE s == m[c]
  <2>1. c \in Nat /\ s \in Nat /\ s >= 3 /\ (c + s <= b \/ b + total <= c) /\ a \in c .. c + s - 1
    BY <1>8, <1>15 DEF Clear, Ext
  <2>2. a \in Words
    BY <1>0, ExtWords
  <2> HIDE DEF s
  <2>3. a \notin {b, b + 1, b + 2}
    BY <1>2, <1>5, <2>1
  <2>. QED BY <1>13, <2>2, <2>3 DEF Same
<1>17. CASE restSize = 0
  BY <1>4, <1>9, <1>12, <1>13, <1>14, <1>16, <1>17
<1>18. CASE restSize # 0
  <2> DEFINE U1 == U \cup {b}
             m3 == SetDesc(m1, rest, restSize, MAGIC_USED, NULL)
             h3 == [h1 EXCEPT !.mem = m3]
  <2>1. h2 = Unused(h3, rest)
    BY <1>4, <1>12, <1>18
  <2>2. DescSet(m1, m3, rest, restSize, MAGIC_USED, NULL)
    <3> HIDE DEF rest
    <3>. QED BY <1>2, <1>9, <1>10, <1>13, <1>18, SetDescIs
  <2>3. rest \in Nat /\ restSize >= DescWords /\ rest \in Words
    BY <1>2, <1>5, <1>9, <1>18 DEF DescWords
  <2> HIDE DEF m3
  <2>4. h3 \in HeapType /\ h3.mem = m3 /\ h3.pool = p /\ h3.pages = g1
    BY <1>12, <2>2 DEF HeapType, DescSet
  <2> HIDE DEF h3
  <2>5. Clear(m1, F \cup U1, rest, restSize)
    <3> SUFFICES ASSUME NEW c \in F \cup U1 PROVE c + m1[c] <= rest \/ rest + restSize <= c
      BY DEF Clear
    <3>1. CASE c = b
      BY <1>13, <1>2, <1>5, <3>1
    <3>2. CASE c # b
      <4> DEFINE s == m[c]
                 e == n * PageWords
      <4>1. c \in F \cup U
        BY <3>2
      <4>2. c \in Nat /\ s \in Nat /\ m1[c] = s /\ e = total + restSize
        BY <1>2, <1>15, <4>1
      <4>3. c + s <= b \/ b + e <= c
        BY <1>8, <4>1 DEF Clear
      <4> HIDE DEF s, e
      <4>4. c + s <= rest \/ rest + restSize <= c
        BY <1>2, <1>5, <4>2, <4>3
      <4>. QED BY <4>2, <4>4
    <3>. QED BY <3>1, <3>2
  <2> HIDE DEF rest
  <2>6. Sane(m3, p, F, U1 \cup {rest}, g1) /\ rest \notin F \cup U1
    <3>1. m3 \in [Words -> Nat] /\ m3[rest] = restSize /\ m3[rest + 1] = MAGIC_USED /\ Same(m1, m3, {rest, rest + 1, rest + 2})
      BY <2>2 DEF DescSet
    <3>2. Sane(m1, p, F, U1, g1) /\ g1 \subseteq g1
      BY <1>14
    <3> HIDE DEF U1
    <3>. QED BY <1>2, <1>5, <1>9, <1>18, <2>3, <2>5, <3>1, <3>2, Taken
  <2> DEFINE U3 == U1 \cup {rest}
  <2>7. U3 \ {rest} = U1 /\ rest \in U3
    BY <2>6
  <2>8. /\ h2 \in HeapType /\ h2.pages = g1
        /\ Keeps(m3, h2.mem, U1)
        /\ \E F2 : Sane(h2.mem, h2.pool, F2, U1, g1)
    <3>1. Sane(h3.mem, h3.pool, F, U3, h3.pages)
      BY <2>4, <2>6
    <3> HIDE DEF U1, U3
    <3>. QED BY <2>1, <2>4, <2>7, <3>1, UnusedKeeps
  <2>9. Keeps(m1, m3, U1)
    <3> SUFFICES ASSUME NEW c \in U1, NEW a \in Ext(m1, c) PROVE m3[a] = m1[a]
      BY DEF Keeps
    <3>0. Sane(m1, p, F, U1, g1)
      BY <1>14
    <3> DEFINE s == m1[c]
    <3> HIDE DEF U1
    <3>1. c \in Nat /\ s \in Nat /\ (c + s <= rest \/ rest + restSize <= c) /\ a \in c .. c + s - 1
      BY <2>5, <3>0, BlockIs DEF Clear, Ext
    <3>2. a \in Words
      BY <3>0, ExtWords
    <3> HIDE DEF s
    <3>3. a \notin {rest, rest + 1, rest + 2}
      BY <1>2, <1>18, <2>3, <3>1
    <3>. QED BY <2>2, <3>2, <3>3 DEF Same, DescSet
  <2>10. Keeps(m1, h2.mem, U1)
    <3>1. \A c \in U1 : c \in Nat /\ m1[c] \in Nat /\ m1[c] >= 3
      <4>0. Sane(m1, p, F, U1, g1)
        BY <1>14
      <4> HIDE DEF U1
      <4>. QED BY <4>0, BlockIs
    <3> HIDE DEF U1
    <3>. QED BY <2>8, <2>9, <3>1, KeepsTrans
  <2>11. Keeps(m, h2.mem, U)
    <3>1. Keeps(m1, h2.mem, U)
      BY <2>10 DEF Keeps
    <3>2. \A c \in U : c \in Nat /\ m[c] \in Nat /\ m[c] >= 3
      BY <1>15
    <3>. QED BY <1>16, <3>1, <3>2, KeepsTrans
  <2>12. h2.mem[b] = total
    <3>1. b \in Ext(m1, b)
      BY <1>2, <1>5, <1>13 DEF Ext
    <3>. QED BY <1>13, <2>10, <3>1 DEF Keeps
  <2>. QED BY <1>9, <1>14, <2>8, <2>11, <2>12
<1>. QED BY <1>17, <1>18

(* malloc: a free block is large enough, or what is left of the new pages is
   nothing or has room for a descriptor *)
Roomy(h, total) ==
  \/ \E j \in 1 .. Len(FreeList(h)) : Size(h.mem, FreeList(h)[j]) >= total
  \/ PagesFor(total) * PageWords - total \notin 1 .. DescWords - 1

LEMMA AllocKeeps ==
  ASSUME NEW h \in HeapType, NEW F, NEW U, Sane(h.mem, h.pool, F, U, h.pages),
         NEW sz \in Nat, Roomy(h, sz + DescWords)
  PROVE  Alloc(h, sz).blk = NULL \/ Allocated(h, Alloc(h, sz), U, sz + DescWords)
<1> DEFINE total == sz + DescWords
           list == FreeList(h)
           met == {j \in DOMAIN list : Size(h.mem, list[j]) >= total}
           k == Stop(list, met)
           taken == TakeFrom(h, list, k, total)
           h1 == [taken.heap EXCEPT !.mem = SetDesc(@, taken.blk, total, MAGIC_USED, NULL)]
           runs == RunsOf(h, PagesFor(total))
           pg == CHOOSE p \in runs : \A q \in runs : p <= q
           r == Alloc(h, sz)
<1>1. r = IF k <= Len(list) THEN [heap |-> h1, blk |-> taken.blk]
          ELSE IF runs # {} THEN [heap |-> Grow(h, pg, total), blk |-> pg * PageWords]
          ELSE [heap |-> h, blk |-> NULL]
  BY DEF Alloc
<1>2. total \in Nat /\ total >= DescWords
  BY DEF DescWords
<1>3. list \in Seq(F) /\ Len(list) \in Nat /\ DOMAIN list = 1 .. Len(list)
  <2>1. list \in Seq(F)
    BY ListFacts DEF Begins
  <2> HIDE DEF list
  <2>. QED BY <2>1
<1>4. /\ k \in 1 .. Len(list) + 1 /\ (met = {} => k = Len(list) + 1)
      /\ (met # {} => k \in met)
  <2>1. met \in SUBSET (1 .. Len(list))
    BY <1>3
  <2> HIDE DEF met, list
  <2>. QED BY <1>3, <2>1, StopIs
<1>5. CASE k <= Len(list)
  <2>1. k \in 1 .. Len(list) /\ met # {}
    <3> HIDE DEF met, list
    <3>. QED BY <1>3, <1>4, <1>5
  <2>2. k \in met
    BY <1>4, <2>1
  <2>3. Size(h.mem, list[k]) >= total
    BY <2>2
  <2> HIDE DEF k, met, total
  <2>4. Allocated(h, [heap |-> h1, blk |-> taken.blk], U, total)
    BY <1>2, <2>1, <2>3, TakeKeeps
  <2> HIDE DEF h1, taken, list, r
  <2>5. r = [heap |-> h1, blk |-> taken.blk]
    BY <1>1, <1>5
  <2>. QED BY <2>4, <2>5 DEF r, total
<1>6. CASE ~(k <= Len(list)) /\ runs # {}
  <2>1. met = {}
    <3> HIDE DEF k
    <3>. QED BY <1>3, <1>4, <1>6
  <2>2. ~ \E j \in 1 .. Len(list) : Size(h.mem, list[j]) >= total
    BY <1>3, <2>1
  <2>3. PagesFor(total) * PageWords - total \notin 1 .. DescWords - 1
    BY <2>2 DEF Roomy
  <2>4. runs \in SUBSET Nat
    BY HeapAssumption DEF RunsOf
  <2>5. \E p \in runs : \A q \in runs : p <= q
    <3> HIDE DEF runs
    <3>. QED BY <1>6, <2>4, Least
  <2>6. pg \in runs
    <3> HIDE DEF runs
    <3>. QED BY <2>5
  <2> HIDE DEF pg, k, met, list
  <2>7. pg \in RunsOf(h, PagesFor(total))
    BY <2>6
  <2> HIDE DEF total
  <2>8. Allocated(h, [heap |-> Grow(h, pg, total), blk |-> pg * PageWords], U, total)
    BY <1>2, <2>3, <2>7, GrowKeeps
  <2> HIDE DEF r, runs
  <2>9. r = [heap |-> Grow(h, pg, total), blk |-> pg * PageWords]
    BY <1>1, <1>6
  <2>. QED BY <2>8, <2>9 DEF r, total
<1>7. CASE ~(k <= Len(list)) /\ runs = {}
  <2> HIDE DEF k, list, runs, r
  <2>1. r.blk = NULL
    BY <1>1, <1>7
  <2>. QED BY <2>1 DEF r
<1>. QED BY <1>5, <1>6, <1>7
-----------------------------------------------------------------------------
(* The callers *)
LEMMA HeldFewer ==
  ASSUME NEW m, NEW L, Held(m, L), NEW b \in L
  PROVE  Held(m, L \ {b}) /\ Descs(L \ {b}) = Descs(L) \ {PTR_DESC(b.ptr)}
<1>1. Held(m, L \ {b})
  BY DEF Held
<1>2. \A c \in L : c.ptr \in Nat /\ (c.ptr = b.ptr => c = b)
  BY DEF Held, Holder
<1>3. \A c \in L : PTR_DESC(c.ptr) = PTR_DESC(b.ptr) => c = b
  BY <1>2 DEF PTR_DESC, DescWords
<1>4. Descs(L \ {b}) = Descs(L) \ {PTR_DESC(b.ptr)}
  BY <1>3 DEF Descs
<1>. QED BY <1>1, <1>4

LEMMA HeldKeeps ==
  ASSUME NEW m, NEW m2, NEW L, Held(m, L),
         \A c \in Descs(L) : m[c] \in Nat,
         Keeps(m, m2, Descs(L))
  PROVE  Held(m2, L)
<1> SUFFICES ASSUME NEW b \in L PROVE HolderOK(m2, b)
  BY DEF Held
<1> DEFINE d == PTR_DESC(b.ptr)
           s == m[d]
           x == b.ptr
           n == b.asked
<1>1. d \in Descs(L) /\ s \in Nat
  BY DEF Descs
<1>2. x \in Nat /\ n \in Nat /\ d = x - 3
  BY DEF Held, Holder, PTR_DESC, DescWords
<1>3. x >= 3 /\ n + 3 <= s /\ \A a \in x .. x + n - 1 : m[a] = DATA
  BY DEF Held, HolderOK, DescWords
<1>4. \A a \in d .. d + s - 1 : m2[a] = m[a]
  BY <1>1 DEF Keeps, Ext
<1> HIDE DEF s, x, n, d
<1>5. m2[d] = s
  <2>1. d \in d .. d + s - 1
    BY <1>1, <1>2, <1>3
  <2>. QED BY <1>4, <2>1 DEF s
<1>6. \A a \in x .. x + n - 1 : m2[a] = DATA
  <2>1. \A a \in x .. x + n - 1 : a \in d .. d + s - 1
    BY <1>1, <1>2, <1>3
  <2>. QED BY <1>3, <1>4, <2>1
<1>7. x >= DescWords /\ n + DescWords <= m2[d]
  BY <1>3, <1>5 DEF DescWords
<1>. QED BY <1>6, <1>7 DEF HolderOK, x, n, d

(* What a caller does with a block of its own: it fills the words it asked for *)
LEMMA Filled ==
  ASSUME NEW m, NEW p, NEW F, NEW U, NEW g, Sane(m, p, F, U, g),
         NEW blk \in U, NEW sz \in Nat, sz + DescWords <= m[blk],
         NEW L, Held(m, L), Descs(L) = U \ {blk}
  PROVE  Fine(Fill(m, DESC_PTR(blk), sz, DATA), p, g,
              L \cup {[ptr |-> DESC_PTR(blk), asked |-> sz]})
<1> DEFINE x == DESC_PTR(blk)
           m2 == Fill(m, x, sz, DATA)
           new == [ptr |-> x, asked |-> sz]
           L2 == L \cup {new}
           s == m[blk]
<1>1. blk \in Nat /\ s \in Nat /\ s >= 3 /\ blk \in Words
  BY BlockIs
<1>2. x = blk + 3 /\ x \in Nat /\ sz + 3 <= s
  BY <1>1 DEF DESC_PTR, DescWords
<1>3. m \in [Words -> Nat] /\ DATA \in Nat
  BY DEF Sane, DATA
<1>4. /\ m2 \in [Words -> Nat] /\ Same(m, m2, x .. x + sz - 1)
      /\ \A w \in Words : x <= w /\ w < x + sz => m2[w] = DATA
  <2> HIDE DEF x
  <2>. QED BY <1>2, <1>3, FillIs
<1> HIDE DEF x, m2, s
<1>5. x .. x + sz - 1 \subseteq blk + 3 .. blk + s - 1
  BY <1>1, <1>2
<1>6. Same(m, m2, blk + 3 .. blk + s - 1)
  BY <1>4, <1>5 DEF Same
<1>7. Sane(m2, p, F, U, g) /\ m2[blk] = s /\ Keeps(m, m2, U \ {blk})
  BY <1>4, <1>6, Inside DEF s
<1>8. Held(m2, L)
  <2>1. \A c \in Descs(L) : m[c] \in Nat
    BY BlockIs
  <2>. QED BY <1>7, <2>1, HeldKeeps
<1>9. PTR_DESC(x) = blk
  BY <1>1, <1>2 DEF PTR_DESC, DescWords
<1>10. new.ptr = x /\ new.asked = sz /\ new \in Holder
  BY <1>2 DEF Holder
<1> HIDE DEF new
<1>11. Descs(L2) = U
  BY <1>9, <1>10 DEF Descs
<1>12. HolderOK(m2, new)
  <2>1. x >= DescWords /\ sz + DescWords <= m2[blk]
    BY <1>1, <1>2, <1>7 DEF DescWords
  <2>2. ASSUME NEW a \in x .. x + sz - 1
        PROVE  m2[a] = DATA
    <3>1. a \in Int /\ blk <= a /\ a < blk + s /\ x <= a /\ a < x + sz
      BY <1>1, <1>2
    <3>2. a \in Words
      BY <3>1, BlockIs DEF s
    <3>. QED BY <1>4, <3>1, <3>2
  <2>. QED BY <1>9, <1>10, <2>1, <2>2 DEF HolderOK
<1>13. \A b \in L : b.ptr # x
  <2>1. \A b \in L : PTR_DESC(b.ptr) \in U \ {blk}
    BY DEF Descs
  <2>. QED BY <1>9, <2>1
<1>14. Held(m2, L2)
  BY <1>8, <1>10, <1>12, <1>13 DEF Held
<1>. QED BY <1>7, <1>11, <1>14 DEF Fine, x, m2, new
-----------------------------------------------------------------------------
(* One call, from a heap and its holders to the next *)
LEMMA HolderIs ==
  ASSUME NEW m, NEW p, NEW g, NEW F, NEW L, Sane(m, p, F, Descs(L), g), Held(m, L), NEW b \in L
  PROVE  /\ PTR_DESC(b.ptr) \in Descs(L) /\ PTR_DESC(b.ptr) \in Nat \ {0}
         /\ b.ptr = PTR_DESC(b.ptr) + 3 /\ b.ptr \in Nat /\ b.asked \in Nat
         /\ b.asked + 3 <= m[PTR_DESC(b.ptr)]
         /\ Magic(m, PTR_DESC(b.ptr)) = MAGIC_USED
         /\ Size(m, PTR_DESC(b.ptr)) = m[PTR_DESC(b.ptr)]
<1> DEFINE d == PTR_DESC(b.ptr)
<1>1. d \in Descs(L)
  BY DEF Descs
<1>2. d \in Nat \ {0} /\ d \in Words /\ d + 1 \in Words
  BY <1>1, BlockIs
<1>3. b.ptr \in Nat /\ b.asked \in Nat
  BY DEF Held, Holder
<1>4. b.ptr = d + 3
  BY <1>3 DEF PTR_DESC, DescWords
<1>5. b.asked + 3 <= m[d]
  BY DEF Held, HolderOK, DescWords
<1> HIDE DEF d
<1>6. Magic(m, d) = MAGIC_USED /\ Size(m, d) = m[d]
  BY <1>1, <1>2 DEF Magic, Size, Read, Sane
<1>. QED BY <1>1, <1>2, <1>3, <1>4, <1>5, <1>6 DEF d

LEMMA MallocKeeps ==
  ASSUME NEW h \in HeapType, NEW L, Fine(h.mem, h.pool, h.pages, L),
         NEW sz \in Nat, Roomy(h, sz + DescWords), Alloc(h, sz).blk # NULL
  PROVE  LET r == Alloc(h, sz)
         IN  Fine(Fill(r.heap.mem, DESC_PTR(r.blk), sz, DATA), r.heap.pool, r.heap.pages,
                  L \cup {[ptr |-> DESC_PTR(r.blk), asked |-> sz]})
<1> DEFINE r == Alloc(h, sz)
           m == h.mem
           m1 == r.heap.mem
           blk == r.blk
           U == Descs(L)
           total == sz + DescWords
<1>1. PICK F : Sane(m, h.pool, F, U, h.pages) /\ Held(m, L)
  BY DEF Fine
<1>2. Allocated(h, r, U, total)
  BY <1>1, AllocKeeps
<1> HIDE DEF r, total, U
<1>3. m1[blk] = total /\ blk \notin U /\ Keeps(m, m1, U)
  BY <1>2 DEF Allocated
<1>4. PICK F2 : Sane(m1, r.heap.pool, F2, U \cup {blk}, r.heap.pages)
  BY <1>2 DEF Allocated
<1>5. \A c \in U : m[c] \in Nat
  BY <1>1, BlockIs
<1> HIDE DEF m, m1, blk
<1>6. Held(m1, L)
  BY <1>1, <1>3, <1>5, HeldKeeps DEF U
<1>7. blk \in U \cup {blk} /\ sz + DescWords <= m1[blk] /\ Descs(L) = (U \cup {blk}) \ {blk}
  BY <1>3 DEF total, U, DescWords
<1>9. Fine(Fill(m1, DESC_PTR(blk), sz, DATA), r.heap.pool, r.heap.pages,
           L \cup {[ptr |-> DESC_PTR(blk), asked |-> sz]})
  BY <1>4, <1>6, <1>7, Filled
<1>. QED BY <1>9 DEF m1, blk, r

LEMMA FreeKeeps ==
  ASSUME NEW h \in HeapType, NEW L, Fine(h.mem, h.pool, h.pages, L), NEW b \in L
  PROVE  LET h2 == Unused(h, PTR_DESC(b.ptr))
         IN  Fine(h2.mem, h2.pool, h2.pages, L \ {b})
<1> DEFINE d == PTR_DESC(b.ptr)
           m == h.mem
           U == Descs(L)
           h2 == Unused(h, d)
<1>1. PICK F : Sane(m, h.pool, F, U, h.pages) /\ Held(m, L)
  BY DEF Fine
<1>2. d \in U
  BY <1>1, HolderIs
<1> HIDE DEF d
<1>3. Keeps(m, h2.mem, U \ {d}) /\ \E F2 : Sane(h2.mem, h2.pool, F2, U \ {d}, h2.pages)
  BY <1>1, <1>2, UnusedKeeps
<1>4. Held(m, L \ {b}) /\ Descs(L \ {b}) = U \ {d}
  BY <1>1, HeldFewer DEF d
<1>5. \A c \in U \ {d} : m[c] \in Nat
  <2> HIDE DEF U, m
  <2>. QED BY <1>1, BlockIs
<1> HIDE DEF h2, m, U
<1>6. Held(h2.mem, L \ {b})
  BY <1>3, <1>4, <1>5, HeldKeeps
<1>7. Fine(h2.mem, h2.pool, h2.pages, L \ {b})
  BY <1>3, <1>4, <1>6 DEF Fine
<1>. QED BY <1>7 DEF h2, d

(* realloc, where the block stays *)
LEMMA StayKeeps ==
  ASSUME NEW h \in HeapType, NEW L, Fine(h.mem, h.pool, h.pages, L), NEW b \in L,
         NEW sz \in Nat, sz + DescWords <= Size(h.mem, PTR_DESC(b.ptr))
  PROVE  Fine(Fill(h.mem, b.ptr, sz, DATA), h.pool, h.pages,
              (L \ {b}) \cup {[ptr |-> b.ptr, asked |-> sz]})
<1> DEFINE d == PTR_DESC(b.ptr)
           m == h.mem
           U == Descs(L)
<1>1. PICK F : Sane(m, h.pool, F, U, h.pages) /\ Held(m, L)
  BY DEF Fine
<1>2. d \in U /\ b.ptr = DESC_PTR(d) /\ sz + DescWords <= m[d]
  BY <1>1, HolderIs DEF DESC_PTR, DescWords
<1>3. Held(m, L \ {b}) /\ Descs(L \ {b}) = U \ {d}
  BY <1>1, HeldFewer
<1> HIDE DEF d, m, U
<1>5. Fine(Fill(m, DESC_PTR(d), sz, DATA), h.pool, h.pages,
           (L \ {b}) \cup {[ptr |-> DESC_PTR(d), asked |-> sz]})
  BY <1>1, <1>2, <1>3, Filled
<1>. QED BY <1>2, <1>5 DEF m

(* realloc, where the contents move: the copy is of more words than the old *)
(* block's contents, but of fewer than the new one's                        *)
Moved(m, m1, new, size, ptr) ==
  [a \in DOMAIN m |-> IF a \in new .. new + size - 1 THEN Read(m1, ptr + a - new) ELSE m1[a]]

LEMMA MoveKeeps ==
  ASSUME NEW h \in HeapType, NEW L, Fine(h.mem, h.pool, h.pages, L), NEW b \in L,
         NEW sz \in Nat, Roomy(h, sz + DescWords), Alloc(h, sz).blk # NULL,
         Size(h.mem, PTR_DESC(b.ptr)) < sz
  PROVE  LET old == PTR_DESC(b.ptr)
             r == Alloc(h, sz)
             new == DESC_PTR(r.blk)
             copied == Moved(h.mem, r.heap.mem, new, Size(h.mem, old), b.ptr)
             h2 == Unused([r.heap EXCEPT !.mem = copied], old)
         IN  /\ Magic(copied, old) = MAGIC_USED /\ h2 \in HeapType
             /\ Fine(Fill(h2.mem, new, sz, DATA), h2.pool, h2.pages,
                     (L \ {b}) \cup {[ptr |-> new, asked |-> sz]})
<1> DEFINE old == PTR_DESC(b.ptr)
           m == h.mem
           size == Size(m, old)
           r == Alloc(h, sz)
           m1 == r.heap.mem
           blk == r.blk
           new == DESC_PTR(blk)
           copied == Moved(m, m1, new, size, b.ptr)
           h1 == [r.heap EXCEPT !.mem = copied]
           h2 == Unused(h1, old)
           p1 == r.heap.pool
           g1 == r.heap.pages
           U == Descs(L)
           U1 == U \cup {blk}
           total == sz + DescWords
<1>1. PICK F : Sane(m, h.pool, F, U, h.pages) /\ Held(m, L)
  BY DEF Fine
<1>2. Allocated(h, r, U, total)
  BY <1>1, AllocKeeps
<1>3. old \in U /\ b.ptr = old + 3 /\ b.ptr \in Nat /\ size = m[old] /\ size < sz
  BY <1>1, HolderIs
<1>4. \A c \in U : c \in Nat \ {0} /\ m[c] \in Nat /\ m[c] >= 3 /\ c \in Words /\ c + 1 \in Words
  <2> HIDE DEF U, m
  <2>. QED BY <1>1, BlockIs
<1>5. m \in [Words -> Nat]
  BY <1>1 DEF Sane
<1>6. Held(m, L \ {b}) /\ Descs(L \ {b}) = U \ {old}
  BY <1>1, HeldFewer
<1> HIDE DEF r, total, U, m, old
<1>7. m1[blk] = total /\ blk \notin U /\ Keeps(m, m1, U) /\ r.heap \in HeapType
  BY <1>2 DEF Allocated, m
<1>8. PICK F2 : Sane(m1, p1, F2, U1, g1)
  BY <1>2 DEF Allocated
<1>9. m1 \in [Words -> Nat] /\ blk \in Nat /\ size \in Nat /\ total = sz + 3
  <2>1. m1 \in [Words -> Nat] /\ blk \in U1
    BY <1>8 DEF Sane
  <2> HIDE DEF m1, U1, size
  <2>2. blk \in Nat
    BY <1>8, <2>1, BlockIs
  <2>. QED BY <1>3, <1>4, <2>1, <2>2 DEF total, DescWords
<1> HIDE DEF m1, blk, size, p1, g1
<1>10. new = blk + 3 /\ new \in Nat
  BY <1>9 DEF DESC_PTR, DescWords
<1>11. copied \in [Words -> Nat] /\ Same(m1, copied, new .. new + size - 1)
  <2> HIDE DEF new
  <2>1. \A x : Read(m1, x) \in Nat
    BY <1>9 DEF Read, NULL
  <2>. QED BY <1>5, <1>9, <2>1 DEF Moved, Same
<1>12. Same(m1, copied, blk + 3 .. blk + m1[blk] - 1)
  <2>1. new .. new + size - 1 \subseteq blk + 3 .. blk + (sz + 3) - 1
    BY <1>3, <1>9, <1>10
  <2> HIDE DEF new, copied
  <2>. QED BY <1>7, <1>9, <1>11, <2>1 DEF Same
<1> HIDE DEF new, copied
<1>13. Sane(copied, p1, F2, U1, g1) /\ copied[blk] = m1[blk] /\ Keeps(m1, copied, U1 \ {blk})
  BY <1>8, <1>11, <1>12, Inside
<1>14. U1 \ {blk} = U /\ old \in U1 /\ blk \in U1 \ {old} /\ old # blk
  BY <1>3, <1>7
<1>15. h1 \in HeapType /\ h1.mem = copied /\ h1.pool = p1 /\ h1.pages = g1
  BY <1>7, <1>11 DEF HeapType, p1, g1
<1>16. Magic(copied, old) = MAGIC_USED
  BY <1>3, <1>4, <1>13, <1>14 DEF Magic, Size, Read, Sane
<1> HIDE DEF h1, U1
<1>17. /\ h2 \in HeapType /\ Keeps(copied, h2.mem, U1 \ {old})
       /\ \E F3 : Sane(h2.mem, h2.pool, F3, U1 \ {old}, h2.pages)
  BY <1>13, <1>14, <1>15, UnusedKeeps
<1>18. PICK F3 : Sane(h2.mem, h2.pool, F3, U1 \ {old}, h2.pages)
  BY <1>17
<1> HIDE DEF h2
<1>19. h2.mem[blk] = total
  <2>1. blk \in Ext(copied, blk)
    <3>1. copied[blk] = total /\ total \in Nat /\ total >= 3
      BY <1>7, <1>9, <1>13
    <3>. QED BY <1>9, <3>1 DEF Ext
  <2>. QED BY <1>7, <1>13, <1>14, <1>17, <2>1 DEF Keeps
<1>20. Held(h2.mem, L \ {b})
  <2>1. Keeps(m, copied, U)
    <3>1. U \subseteq U /\ Keeps(m1, copied, U)
      BY <1>13, <1>14
    <3>. QED BY <1>4, <1>7, <3>1, KeepsTrans
  <2>2. Keeps(copied, h2.mem, U \ {old})
    BY <1>14, <1>17 DEF Keeps, U1
  <2>3. Keeps(m, h2.mem, U \ {old})
    <3>1. U \ {old} \subseteq U
      OBVIOUS
    <3> DEFINE V == U \ {old}
    <3>2. \A c \in V : c \in Nat /\ m[c] \in Nat /\ m[c] >= 3
      BY <1>4
    <3> HIDE DEF V
    <3>3. Keeps(m, h2.mem, V)
      BY <2>1, <2>2, <3>1, <3>2, KeepsTrans DEF V
    <3>. QED BY <3>3 DEF V
  <2>. QED BY <1>4, <1>6, <2>3, HeldKeeps
<1>21. Descs(L \ {b}) = (U1 \ {old}) \ {blk}
  BY <1>6, <1>14
<1>22. sz + DescWords <= h2.mem[blk]
  BY <1>9, <1>19 DEF DescWords
<1>23. Fine(Fill(h2.mem, DESC_PTR(blk), sz, DATA), h2.pool, h2.pages,
            (L \ {b}) \cup {[ptr |-> DESC_PTR(blk), asked |-> sz]})
  BY <1>14, <1>18, <1>20, <1>21, <1>22, Filled
<1>24. Fine(Fill(h2.mem, new, sz, DATA), h2.pool, h2.pages,
            (L \ {b}) \cup {[ptr |-> new, asked |-> sz]})
  BY <1>23 DEF new
<1>. QED BY <1>16, <1>17, <1>24 DEF h2, h1, copied, new, blk, m1, size, r, m, old
-----------------------------------------------------------------------------
(* What the walk of the free list says of the blocks *)
BlocksOf(h) == { FreeList(h)[k] : k \in DOMAIN FreeList(h) }

LEMMA BlocksAre ==
  ASSUME NEW h, NEW F, NEW U, Sane(h.mem, h.pool, F, U, h.pages)
  PROVE  BlocksOf(h) = F
<1> DEFINE list == FreeList(h)
<1>1. list \in Seq(F) /\ Whole(list, F)
  BY ListFacts DEF Begins
<1> HIDE DEF list
<1>2. DOMAIN list = 1 .. Len(list) /\ \A k \in 1 .. Len(list) : list[k] \in F
  BY <1>1
<1>3. { list[k] : k \in DOMAIN list } = F
  BY <1>1, <1>2 DEF Whole
<1>. QED BY <1>3 DEF BlocksOf, list

HeapIs(m, p, g) == [mem |-> m, pool |-> p, pages |-> g]

LEMMA FineIs ==
  ASSUME NEW m, NEW p, NEW g, NEW L, Fine(m, p, g, L)
  PROVE  Sane(m, p, BlocksOf(HeapIs(m, p, g)), Descs(L), g) /\ Held(m, L)
<1> DEFINE h == HeapIs(m, p, g)
<1>1. PICK F : Sane(m, p, F, Descs(L), g) /\ Held(m, L)
  BY DEF Fine
<1>2. h.mem = m /\ h.pool = p /\ h.pages = g
  BY DEF HeapIs
<1> HIDE DEF h
<1>3. BlocksOf(h) = F
  BY <1>1, <1>2, BlocksAre
<1>. QED BY <1>1, <1>3 DEF h

LEMMA HeapIsIs == Heap = HeapIs(mem, pool, pages) /\ PoolBlocks = BlocksOf(Heap)
BY DEF Heap, HeapIs, PoolBlocks, BlocksOf, List

(* What IInv says, for the lemmas above *)
LEMMA IInvIs ==
  ASSUME HeapInv
  PROVE  /\ Fine(mem, pool, pages, live) /\ Heap \in HeapType
         /\ Heap.mem = mem /\ Heap.pool = pool /\ Heap.pages = pages
         /\ Fine(Heap.mem, Heap.pool, Heap.pages, live)
<1>1. Heap.mem = mem /\ Heap.pool = pool /\ Heap.pages = pages
  BY DEF Heap
<1>2. Fine(mem, pool, pages, live)
  BY DEF HeapInv, Fine
<1>3. mem \in [Words -> Nat] /\ pages \in SUBSET HeapPages /\ Succ(PoolBlocks, NULL, pool)
      /\ PoolBlocks \subseteq Words
  BY DEF HeapInv, Sane
<1>4. pool \in Nat
  <2>1. pool = NULL \/ pool \in PoolBlocks
    BY <1>3 DEF Succ
  <2>2. pool = NULL \/ pool \in Words
    BY <1>3, <2>1
  <2>3. CASE pool = NULL
    BY <2>3 DEF NULL
  <2>4. CASE pool \in Words
    BY <2>4, WordsNat
  <2>. QED BY <2>2, <2>3, <2>4
<1>5. Heap \in HeapType
  BY <1>3, <1>4 DEF Heap, HeapType
<1>. QED BY <1>1, <1>2, <1>5

LEMMA RoomIs ==
  ASSUME HeapInv, NEW sz, RoomForRest(sz)
  PROVE  Roomy(Heap, sz + DescWords)
<1> DEFINE total == sz + DescWords
           list == List
<1>1. Heap.mem = mem /\ list = FreeList(Heap)
  BY DEF Heap, List
<1>2. CASE \E b \in PoolBlocks : Size(mem, b) >= total
  <2>1. PICK k \in DOMAIN list : Size(mem, list[k]) >= total
    BY <1>2 DEF PoolBlocks
  <2>2. k \in 1 .. Len(list)
    <3>0. Sane(Heap.mem, Heap.pool, PoolBlocks, Descs(live), Heap.pages)
      BY DEF HeapInv, Heap
    <3>1. list \in Seq(PoolBlocks)
      BY <1>1, <3>0, ListFacts DEF Begins
    <3> HIDE DEF list
    <3>. QED BY <2>1, <3>1
  <2> HIDE DEF list
  <2>. QED BY <1>1, <2>1, <2>2 DEF Roomy
<1>3. CASE PagesFor(total) * PageWords - total \notin 1 .. DescWords - 1
  BY <1>3 DEF Roomy
<1>. QED BY <1>2, <1>3 DEF RoomForRest
-----------------------------------------------------------------------------
(* The inductive invariant *)
LEMMA Start == HeapInit => HeapInv
<1> SUFFICES ASSUME HeapInit PROVE HeapInv
  OBVIOUS
<1>1. mem \in [Words -> Nat] /\ pool = NULL /\ pages = {} /\ live = {} /\ free_panicked = FALSE
  BY DEF HeapInit
<1>2. Succ({}, NULL, NULL)
  BY DEF Succ
<1>3. Descs({}) = {} /\ Held(mem, {})
  BY DEF Descs, Held
<1>4. Sane(mem, pool, {}, Descs(live), pages)
  BY <1>1, <1>2, <1>3 DEF Sane
<1>5. Fine(mem, pool, pages, live)
  BY <1>1, <1>3, <1>4 DEF Fine
<1>6. Sane(mem, pool, BlocksOf(HeapIs(mem, pool, pages)), Descs(live), pages)
  BY <1>5, FineIs
<1>. QED BY <1>1, <1>3, <1>6, HeapIsIs DEF HeapInv

(* a call leaves the invariant, if it leaves the heap and its holders fine *)
LEMMA Becomes ==
  ASSUME Fine(mem', pool', pages', live'), free_panicked' = FALSE
  PROVE  HeapInv'
<1>1. Sane(mem', pool', BlocksOf(HeapIs(mem', pool', pages')), Descs(live'), pages') /\ Held(mem', live')
  BY FineIs
<1>2. PoolBlocks' = BlocksOf(HeapIs(mem', pool', pages'))
  BY DEF Heap, HeapIs, PoolBlocks, BlocksOf, List
<1>. QED BY <1>1, <1>2 DEF HeapInv

LEMMA MallocStep ==
  ASSUME HeapInv, NEW sz \in Requests, RoomForRest(sz), malloc(sz)
  PROVE  HeapInv'
<1> DEFINE r == Alloc(Heap, sz)
<1>1. sz \in Nat /\ Roomy(Heap, sz + DescWords) /\ free_panicked' = FALSE
  BY HeapAssumption, RoomIs DEF HeapInv, malloc
<1>2. CASE r.blk = NULL
  <2>1. UNCHANGED << mem, pool, pages, live >>
    BY <1>2 DEF malloc
  <2>. QED BY <1>1, <2>1, IInvIs, Becomes
<1>3. CASE r.blk # NULL
  <2>1. /\ Commit([r.heap EXCEPT !.mem = Fill(@, DESC_PTR(r.blk), sz, DATA)])
        /\ live' = live \union {[ptr |-> DESC_PTR(r.blk), asked |-> sz]}
    BY <1>3 DEF malloc
  <2>2. r.heap \in HeapType
    <3>1. PICK F : Sane(Heap.mem, Heap.pool, F, Descs(live), Heap.pages)
      BY IInvIs DEF Fine
    <3>2. Allocated(Heap, r, Descs(live), sz + DescWords)
      BY <1>1, <1>3, <3>1, IInvIs, AllocKeeps
    <3>. QED BY <3>2 DEF Allocated
  <2>3. Fine(Fill(r.heap.mem, DESC_PTR(r.blk), sz, DATA), r.heap.pool, r.heap.pages,
             live \cup {[ptr |-> DESC_PTR(r.blk), asked |-> sz]})
    BY <1>1, <1>3, IInvIs, MallocKeeps
  <2> HIDE DEF r
  <2>4. /\ mem' = Fill(r.heap.mem, DESC_PTR(r.blk), sz, DATA)
        /\ pool' = r.heap.pool /\ pages' = r.heap.pages
    BY <2>1, <2>2 DEF Commit, HeapType
  <2>. QED BY <1>1, <2>1, <2>3, <2>4, Becomes
<1>. QED BY <1>2, <1>3

LEMMA FreeStep ==
  ASSUME HeapInv, NEW b \in live, free(b)
  PROVE  HeapInv'
<1>1. PICK F : Sane(mem, pool, F, Descs(live), pages) /\ Held(mem, live)
  BY IInvIs DEF Fine
<1>2. Magic(mem, PTR_DESC(b.ptr)) = MAGIC_USED
  BY <1>1, HolderIs
<1>3. /\ Commit(Unused(Heap, PTR_DESC(b.ptr)))
      /\ live' = live \ {b} /\ free_panicked' = FALSE
  BY <1>2 DEF free, HeapInv
<1> DEFINE h2 == Unused(Heap, PTR_DESC(b.ptr))
<1>4. Fine(h2.mem, h2.pool, h2.pages, live \ {b})
  BY IInvIs, FreeKeeps
<1> HIDE DEF h2
<1>5. mem' = h2.mem /\ pool' = h2.pool /\ pages' = h2.pages
  BY <1>3 DEF Commit, h2
<1>. QED BY <1>3, <1>4, <1>5, Becomes

LEMMA ReallocStep ==
  ASSUME HeapInv, NEW b \in live, NEW sz \in Requests, RoomForRest(sz), StaysInside(b, sz),
         realloc(b, sz)
  PROVE  HeapInv'
<1> DEFINE old == PTR_DESC(b.ptr)
           size == Size(mem, old)
           r == Alloc(Heap, sz)
           new == DESC_PTR(r.blk)
           copied == Moved(mem, r.heap.mem, new, size, b.ptr)
           h1 == [r.heap EXCEPT !.mem = copied]
           h2 == Unused(h1, old)
<1>1. sz \in Nat /\ Roomy(Heap, sz + DescWords)
  BY HeapAssumption, RoomIs
<1>2. PICK F : Sane(mem, pool, F, Descs(live), pages) /\ Held(mem, live)
  BY IInvIs DEF Fine
<1>3. size \in Nat /\ size = mem[old]
  <2>1. old \in Descs(live) /\ size = mem[old]
    BY <1>2, HolderIs
  <2> HIDE DEF old, size
  <2>. QED BY <1>2, <2>1, BlockIs
<1>4. \/ /\ size >= sz
         /\ mem' = Fill(mem, b.ptr, sz, DATA)
         /\ live' = (live \ {b}) \union {[ptr |-> b.ptr, asked |-> sz]}
         /\ UNCHANGED << pool, pages, free_panicked >>
      \/ UNCHANGED << mem, pool, pages, live, free_panicked >>
      \/ /\ size < sz /\ r.blk # NULL
         /\ Commit([h2 EXCEPT !.mem = Fill(@, new, sz, DATA)])
         /\ live' = (live \ {b}) \union {[ptr |-> new, asked |-> sz]}
         /\ UNCHANGED free_panicked
      \/ size < sz /\ r.blk # NULL /\ Magic(copied, old) # MAGIC_USED
  BY DEF realloc, Moved
<1>5. free_panicked = FALSE
  BY DEF HeapInv
<1>6. CASE /\ size >= sz
           /\ mem' = Fill(mem, b.ptr, sz, DATA)
           /\ live' = (live \ {b}) \union {[ptr |-> b.ptr, asked |-> sz]}
           /\ UNCHANGED << pool, pages, free_panicked >>
  <2>1. sz + DescWords <= Size(Heap.mem, old)
    <3>1. size >= sz + DescWords /\ Heap.mem = mem
      BY <1>6, IInvIs DEF StaysInside
    <3>. QED BY <1>1, <1>3, <3>1 DEF DescWords
  <2>2. Fine(Fill(Heap.mem, b.ptr, sz, DATA), Heap.pool, Heap.pages,
             (live \ {b}) \cup {[ptr |-> b.ptr, asked |-> sz]})
    BY <1>1, <2>1, IInvIs, StayKeeps
  <2>3. Heap.mem = mem /\ Heap.pool = pool /\ Heap.pages = pages
    BY IInvIs
  <2>. QED BY <1>5, <1>6, <2>2, <2>3, Becomes
<1>7. CASE UNCHANGED << mem, pool, pages, live, free_panicked >>
  BY <1>5, <1>7, IInvIs, Becomes
<1>8. ASSUME size < sz, r.blk # NULL
      PROVE  /\ Magic(copied, old) = MAGIC_USED /\ h2 \in HeapType
             /\ Fine(Fill(h2.mem, new, sz, DATA), h2.pool, h2.pages,
                     (live \ {b}) \cup {[ptr |-> new, asked |-> sz]})
  <2>1. Size(Heap.mem, old) < sz /\ Heap.mem = mem
    BY <1>8, IInvIs
  <2>. QED BY <1>1, <1>8, <2>1, IInvIs, MoveKeeps
<1>9. CASE /\ size < sz /\ r.blk # NULL
           /\ Commit([h2 EXCEPT !.mem = Fill(@, new, sz, DATA)])
           /\ live' = (live \ {b}) \union {[ptr |-> new, asked |-> sz]}
           /\ UNCHANGED free_panicked
  <2> HIDE DEF h2, new
  <2>1. /\ mem' = Fill(h2.mem, new, sz, DATA)
        /\ pool' = h2.pool /\ pages' = h2.pages
    BY <1>8, <1>9 DEF Commit, HeapType
  <2>. QED BY <1>5, <1>8, <1>9, <2>1, Becomes
<1>. QED BY <1>4, <1>6, <1>7, <1>8, <1>9
LEMMA Step == HeapInv /\ [Careful]_heapVars => HeapInv'
<1> SUFFICES ASSUME HeapInv, [Careful]_heapVars PROVE HeapInv'
  OBVIOUS
<1>1. CASE \E sz \in Requests : RoomForRest(sz) /\ malloc(sz)
  BY <1>1, MallocStep
<1>2. CASE \E b \in live : free(b)
  BY <1>2, FreeStep
<1>3. CASE \E b \in live, sz \in Requests : RoomForRest(sz) /\ StaysInside(b, sz) /\ realloc(b, sz)
  BY <1>3, ReallocStep
<1>4. CASE UNCHANGED heapVars
  <2>1. UNCHANGED << mem, pool, pages, live, free_panicked >>
    BY <1>4 DEF heapVars
  <2>2. free_panicked' = FALSE
    BY <2>1 DEF HeapInv
  <2>. QED BY <2>1, <2>2, IInvIs, Becomes
<1>. QED BY <1>1, <1>2, <1>3, <1>4 DEF Careful

-----------------------------------------------------------------------------
(* The invariants of the runs *)
LEMMA IInvType == HeapInv => HeapTypeOK
<1> SUFFICES ASSUME HeapInv PROVE HeapTypeOK
  OBVIOUS
<1>1. /\ mem \in [Words -> Nat] /\ pages \subseteq HeapPages /\ free_panicked = FALSE
      /\ Succ(PoolBlocks, NULL, pool) /\ PoolBlocks \subseteq Words
  BY DEF HeapInv, Sane
<1>2. pool \in Words \union {NULL}
  BY <1>1 DEF Succ
<1>3. free_panicked \in BOOLEAN
  BY DEF HeapInv
<1>. QED BY <1>1, <1>2, <1>3 DEF HeapTypeOK

LEMMA IInvList == HeapInv => ListOK
<1> SUFFICES ASSUME HeapInv PROVE ListOK
  OBVIOUS
<1> DEFINE F == PoolBlocks
           list == List
<1>1. Sane(mem, pool, F, Descs(live), pages)
  BY DEF HeapInv
<1>2. list = FreeList(Heap) /\ Heap.mem = mem /\ Heap.pool = pool /\ Heap.pages = pages
  BY IInvIs DEF List
<1>3. Begins(list, pool, mem, F) /\ Len(list) < Fuel
  BY <1>1, <1>2, ListFacts
<1> HIDE DEF F, list
<1>4. \A b \in F : b \in Words /\ b + 1 \in Words /\ mem[b] \in Nat /\ b \in Nat
  BY <1>1, BlockIs
<1>5. \A b \in F : b \in Words /\ Magic(mem, b) = MAGIC_FREE
  BY <1>1, <1>4 DEF Magic, Size, Read, Sane
<1>6. list \in Seq(F) /\ Len(list) \in Nat
  BY <1>3 DEF Begins
<1>7. ASSUME NEW k \in 2 .. Len(list)
      PROVE  list[k - 1] + Size(mem, list[k - 1]) <= list[k]
  <2> DEFINE b == list[k - 1]
             c == list[k]
  <2>1. k \in 1 .. Len(list) /\ k - 1 \in 1 .. Len(list) /\ k - 1 < k
    BY <1>6
  <2>2. b \in F /\ c \in F /\ b < c
    BY <1>3, <1>6, <2>1 DEF Begins
  <2> HIDE DEF b, c
  <2>3. Size(mem, b) = mem[b]
    BY <1>4, <2>2 DEF Size, Read
  <2>. QED BY <1>1, <2>2, <2>3 DEF Sane, Ordered, b, c
<1>. QED BY <1>3, <1>5, <1>7 DEF ListOK, F, list

LEMMA IInvDisjoint == HeapInv => BlocksDisjoint
<1> SUFFICES ASSUME HeapInv PROVE BlocksDisjoint
  OBVIOUS
<1> DEFINE F == PoolBlocks
           U == Descs(live)
<1>1. Sane(mem, pool, F, U, pages) /\ Held(mem, live)
  BY DEF HeapInv
<1>2. LiveBlocks = U
  BY DEF LiveBlocks, Descs
<1>3. ASSUME NEW b \in live
      PROVE  b.asked + DescWords <= Size(mem, PTR_DESC(b.ptr))
  BY <1>1, HolderIs DEF DescWords
<1> HIDE DEF F, U
<1>4. ASSUME NEW b \in F \cup U
      PROVE  Extent(b) = Ext(mem, b)
  <2>1. b \in Words
    BY <1>1, BlockIs
  <2>. QED BY <2>1 DEF Extent, Ext, Size, Read
<1>5. \A b, c \in F \cup U : b # c => Extent(b) \intersect Extent(c) = {}
  BY <1>1, <1>4, ExtApart
<1>6. F \intersect U = {}
  BY <1>1 DEF Sane
<1>. QED BY <1>2, <1>3, <1>5, <1>6 DEF BlocksDisjoint, F

LEMMA IInvContents == HeapInv => ContentsStay
<1> SUFFICES ASSUME HeapInv, NEW b \in live, NEW a \in b.ptr .. b.ptr + b.asked - 1
             PROVE  Read(mem, a) = DATA
  BY DEF ContentsStay
<1> DEFINE U == Descs(live)
           d == PTR_DESC(b.ptr)
           s == mem[d]
           x == b.ptr
           n == b.asked
<1>1. Sane(mem, pool, PoolBlocks, U, pages) /\ Held(mem, live)
  BY DEF HeapInv
<1>2. d \in U /\ d \in Nat /\ x = d + 3 /\ n \in Nat /\ n + 3 <= s
  BY <1>1, HolderIs
<1>3. mem[a] = DATA
  BY <1>1 DEF Held, HolderOK
<1> HIDE DEF U, d, n
<1>4. s \in Nat /\ \A i \in Int : d <= i /\ i < d + s => i \in Words
  BY <1>1, <1>2, BlockIs
<1> HIDE DEF s
<1>5. a \in Int /\ d <= a /\ a < d + s
  BY <1>2, <1>4 DEF n
<1>. QED BY <1>3, <1>4, <1>5 DEF Read

(* For every size of a page, every set of pages and every set of requests:  *)
(* whatever malloc, free and realloc are called with, in any order, every   *)
(* word of the pages taken is in one block at most, the descriptors of all  *)
(* blocks are whole, the free list leads through all the free ones in the   *)
(* order of their addresses, and callers' blocks hold what they wrote -- as *)
(* long as the rest of new pages has room for a descriptor, and a block     *)
(* that is to grow by less than one is not left in place (Careful).         *)
THEOREM HeapInductive == CarefulSpec => []HeapInv
<1>. QED BY Start, Step, PTL DEF CarefulSpec

(* The walk of the free list that malloc, free and check_cycles make ends   *)
(* and stays in the heap, every block on it carries the free magic and ends *)
(* before the next one begins; no two blocks, free or held, overlap, and a  *)
(* held one is as large as its caller asked for.                            *)
THEOREM FreeListIsSane == CarefulSpec => []PoolIsSane
<1>1. HeapInv => PoolIsSane
  BY IInvType, IInvList, IInvDisjoint DEF PoolIsSane
<1>. QED BY HeapInductive, <1>1, PTL

(* Nothing malloc, free or realloc writes, for this block or for another,   *)
(* falls on the words a caller holds and has written; realloc brings them   *)
(* along.                                                                   *)
THEOREM CallersKeepTheirData == CarefulSpec => []ContentsStay
<1>. QED BY HeapInductive, IInvContents, PTL

(* free's panic on a corrupted magic is out of reach of careful callers:    *)
(* the run heap_irq shows that without their care it is not.                *)
THEOREM CarefulCallersDoNotPanic == CarefulSpec => []NoPanic
<1>1. HeapInv => NoPanic
  BY DEF HeapInv, NoPanic
<1>. QED BY HeapInductive, <1>1, PTL
=============================================================================
