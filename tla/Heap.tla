-------------------------------- MODULE Heap --------------------------------
(***************************************************************************)
(* malloc, free, calloc and realloc of src/libc/malloc.c (SINGLE_POOL).     *)
(*                                                                          *)
(* Memory is a function from word addresses to words, because that is where *)
(* the allocator keeps its own state: a block starts with the descriptor    *)
(* (size, magic, next), and `pool' points to the first descriptor of the    *)
(* free list.  A word stands for 4 bytes, the alignment of every block, so  *)
(* that rounding the request up to a multiple of 4 is the unit itself.      *)
(* Each call is followed by its caller's use of the block: it fills the     *)
(* words it asked for.                                                      *)
(***************************************************************************)
EXTENDS Integers, Sequences, FiniteSets

CONSTANTS
  PageWords,   (* words of a page (1024)                                    *)
  HeapPages,   (* the pages alloc_ppages can hand out, never page 0         *)
  Requests,    (* the sizes callers ask for, in words                       *)
  MaxLive      (* bound: blocks callers hold at a time                      *)

ASSUME HeapAssumption ==
  /\ PageWords \in Nat \ {0}
  /\ HeapPages \subseteq Nat \ {0} /\ HeapPages # {} /\ IsFiniteSet(HeapPages)
  /\ Requests \subseteq Nat /\ MaxLive \in Nat

NULL == 0
DescWords == 3                     \* sizeof(struct mem_desc)
MinBlockSize == 2 * DescWords      \* MIN_BLOCK_SIZE
MAGIC_USED == 57005
MAGIC_FREE == 7917
DATA == 4242                       \* a word written by a caller

WordsOf(pgs) == UNION {pg * PageWords .. pg * PageWords + PageWords - 1 : pg \in pgs}
Words == WordsOf(HeapPages)

VARIABLES
  mem,       (* the words of the heap's pages                               *)
  pool,      (* the first free block                                        *)
  pages,     (* the pages taken from the page allocator                     *)
  live,      (* [ptr, asked] of the blocks callers hold (history)           *)
  free_panicked  (* free ran into a descriptor that is not MAGIC_USED *)

heapVars == << mem, pool, pages, live, free_panicked >>

-----------------------------------------------------------------------------
(* Words and descriptors.  A pointer that leads out of the heap reads as    *)
(* NULL and writes nothing; PoolIsSane says that the list has none.         *)
Read(m, a) == IF a \in Words THEN m[a] ELSE NULL
Size(m, b) == Read(m, b)
Magic(m, b) == Read(m, b + 1)
Next_(m, b) == Read(m, b + 2)

SetSize(m, b, v) == IF b \in Words THEN [m EXCEPT ![b] = v] ELSE m
SetMagic(m, b, v) == SetSize(m, b + 1, v)
SetNext(m, b, v) == SetSize(m, b + 2, v)
SetDesc(m, b, size, magic, next) ==
  SetNext(SetMagic(SetSize(m, b, size), b, magic), b, next)
Fill(m, p, n, v) == [a \in DOMAIN m |-> IF p <= a /\ a < p + n THEN v ELSE m[a]]
DESC_PTR(b) == b + DescWords
PTR_DESC(p) == p - DescWords

(* The free list, followed from the pool for at most Fuel blocks, which is  *)
(* more than there are.                                                     *)
Fuel == Cardinality(Words) + 1
FreeList(h) ==
  LET first[k \in 0 .. Fuel] ==   \* the first k blocks
        IF k = 0 THEN << >>
        ELSE LET s == first[k - 1]
                 b == IF s = << >> THEN h.pool ELSE Next_(h.mem, s[Len(s)])
             IN  IF b = NULL THEN s ELSE Append(s, b)
  IN  first[Fuel]

(* the first of some positions of the list, or the one after its end        *)
Stop(list, met) ==
  IF met = {} THEN Len(list) + 1 ELSE CHOOSE k \in met : \A j \in met : k <= j

(* prev->next = b, where prev is the block before position k of the list    *)
(* or the dummy head, whose next becomes the pool                           *)
Link(h, list, k, b) ==
  IF k = 1 THEN [h EXCEPT !.pool = b]
  ELSE [h EXCEPT !.mem = SetNext(h.mem, list[k - 1], b)]

(* Words of free memory outside descriptors are dead; they are kept at 0.   *)
Erase(m, b) == SetDesc(m, b, 0, 0, 0)

Heap == [mem |-> mem, pool |-> pool, pages |-> pages]

-----------------------------------------------------------------------------
(* free(), on a block whose magic has been checked *)
BugNoAdjacency(h, b) ==
  LET m == SetNext(SetMagic(h.mem, b, MAGIC_FREE), b, h.pool)
  IN  [h EXCEPT !.mem = m, !.pool = b]
Unused(h, b) ==
  LET size == Size(h.mem, b)
      end == b + size
      list == FreeList(h)
      k == Stop(list, {j \in DOMAIN list : list[j] >= end})
      cur == list[k]
      last == list[Len(list)]
      m == Fill(SetDesc(h.mem, b, size, MAGIC_FREE, NULL), DESC_PTR(b), size - DescWords, 0)
  IN  IF h.pool = NULL
      THEN [h EXCEPT !.mem = m, !.pool = b]
      ELSE IF k <= Len(list) /\ cur = end  \* coalesce with the block after it
      THEN LET joined == SetDesc(m, b, size + Size(m, cur), MAGIC_FREE, Next_(m, cur))
           IN  Link([h EXCEPT !.mem = Erase(joined, cur)], list, k, b)
      ELSE IF k <= Len(list)                \* add in front
      THEN Link([h EXCEPT !.mem = SetNext(m, b, cur)], list, k, b)
      ELSE IF last + Size(m, last) = b      \* coalesce with the last block
      THEN [h EXCEPT !.mem = SetSize(Erase(m, b), last, Size(m, last) + size)]
      ELSE Link([h EXCEPT !.mem = m], list, k, b)

(* malloc(), when a block of the free list is large enough: the first such  *)
(* block is unlinked, or its upper part is split off                        *)
BugKeepSize(h, list, k, total) ==
  LET b == list[k]
  IN  IF Size(h.mem, b) < total + MinBlockSize
      THEN [heap |-> Link(h, list, k, Next_(h.mem, b)), blk |-> b]
      ELSE [heap |-> h, blk |-> b + Size(h.mem, b) - total]
TakeFrom(h, list, k, total) ==
  LET b == list[k]
      blk == b + Size(h.mem, b) - total
  IN  IF Size(h.mem, b) < total + MinBlockSize
      THEN [heap |-> Link(h, list, k, Next_(h.mem, b)), blk |-> b]
      ELSE [heap |-> [h EXCEPT !.mem = SetSize(h.mem, b, Size(h.mem, b) - total)], blk |-> blk]

(* alloc_ppages: the lowest run of n pages that are free *)
RunsOf(h, n) == {pg \in HeapPages : pg .. pg + n - 1 \subseteq HeapPages \ h.pages}
PagesFor(total) == (total + PageWords - 1) \div PageWords

(* malloc(), when new pages have to be taken *)
Grow(h, pg, total) ==
  LET n == PagesFor(total)
      b == pg * PageWords
      rest == b + total
      restSize == n * PageWords - total
      h1 == [h EXCEPT !.pages = @ \union (pg .. pg + n - 1),
                      !.mem = SetDesc(h.mem, b, total, MAGIC_USED, NULL)]
  IN  IF restSize = 0 THEN h1
      ELSE Unused([h1 EXCEPT !.mem = SetDesc(h1.mem, rest, restSize, MAGIC_USED, NULL)], rest)

(* malloc(): the heap afterwards and the block's descriptor, or NULL *)
Alloc(h, sz) ==
  LET total == sz + DescWords
      list == FreeList(h)
      k == Stop(list, {j \in DOMAIN list : Size(h.mem, list[j]) >= total})
      taken == TakeFrom(h, list, k, total)
      runs == RunsOf(h, PagesFor(total))
      pg == CHOOSE p \in runs : \A q \in runs : p <= q
  IN  IF k <= Len(list)
      THEN [heap |-> [taken.heap EXCEPT !.mem = SetDesc(@, taken.blk, total, MAGIC_USED, NULL)],
            blk |-> taken.blk]
      ELSE IF runs # {}
      THEN [heap |-> Grow(h, pg, total), blk |-> pg * PageWords]
      ELSE [heap |-> h, blk |-> NULL]

-----------------------------------------------------------------------------
(* The callers *)
Commit(h) == mem' = h.mem /\ pool' = h.pool /\ pages' = h.pages

HeapInit ==
  /\ mem = [a \in Words |-> 0]
  /\ pool = NULL
  /\ pages = {}
  /\ live = {}
  /\ free_panicked = FALSE

(* malloc, and calloc, whose memset is the caller's own fill *)
malloc(sz) ==
  /\ ~free_panicked
  /\ Cardinality(live) < MaxLive
  /\ LET r == Alloc(Heap, sz) IN
       IF r.blk = NULL THEN UNCHANGED << mem, pool, pages, live >>
       ELSE /\ Commit([r.heap EXCEPT !.mem = Fill(@, DESC_PTR(r.blk), sz, DATA)])
            /\ live' = live \union {[ptr |-> DESC_PTR(r.blk), asked |-> sz]}
  /\ UNCHANGED free_panicked

free(b) ==
  /\ ~free_panicked
  /\ b \in live
  /\ IF Magic(mem, PTR_DESC(b.ptr)) # MAGIC_USED
     THEN /\ free_panicked' = TRUE
          /\ UNCHANGED << mem, pool, pages, live >>
     ELSE /\ Commit(Unused(Heap, PTR_DESC(b.ptr)))
          /\ live' = live \ {b}
          /\ UNCHANGED free_panicked

(* realloc: the block stays when its size, descriptor included, is at least *)
(* the requested one; else its contents move, descriptor-size words more    *)
(* than it can hold, and the old block is freed                             *)
realloc(b, sz) ==
  /\ ~free_panicked
  /\ b \in live
  /\ LET old == PTR_DESC(b.ptr)
         size == Size(mem, old)
         r == Alloc(Heap, sz)
         new == DESC_PTR(r.blk)
         copied == [a \in DOMAIN mem |-> IF a \in new .. new + size - 1
                                         THEN Read(r.heap.mem, b.ptr + a - new)
                                         ELSE r.heap.mem[a]]
     IN  \/ /\ size >= sz
            /\ mem' = Fill(mem, b.ptr, sz, DATA)
            /\ live' = (live \ {b}) \union {[ptr |-> b.ptr, asked |-> sz]}
            /\ UNCHANGED << pool, pages, free_panicked >>
         \/ /\ size < sz /\ r.blk = NULL
            /\ UNCHANGED << mem, pool, pages, live, free_panicked >>
         \/ /\ size < sz /\ r.blk # NULL
            /\ Magic(copied, old) = MAGIC_USED
            /\ LET h == Unused([r.heap EXCEPT !.mem = copied], old)
               IN  Commit([h EXCEPT !.mem = Fill(@, new, sz, DATA)])
            /\ live' = (live \ {b}) \union {[ptr |-> new, asked |-> sz]}
            /\ UNCHANGED free_panicked
         \/ /\ size < sz /\ r.blk # NULL
            /\ Magic(copied, old) # MAGIC_USED
            /\ free_panicked' = TRUE
            /\ UNCHANGED << mem, pool, pages, live >>

HeapNext ==
  \/ \E sz \in Requests : malloc(sz)
  \/ \E b \in live : free(b)
  \/ \E b \in live, sz \in Requests : realloc(b, sz)

HeapSpec == HeapInit /\ [][HeapNext]_heapVars

(* What malloc and realloc do not allow for: new pages are taken and leave  *)
(* a rest without room for a descriptor; a block that is to grow by less    *)
(* than the size of one stays where it is.                                  *)
List == FreeList(Heap)
PoolBlocks == {List[k] : k \in DOMAIN List}

RoomForRest(sz) ==
  LET total == sz + DescWords
  IN  \/ \E b \in PoolBlocks : Size(mem, b) >= total
      \/ PagesFor(total) * PageWords - total \notin 1 .. DescWords - 1
StaysInside(b, sz) ==
  LET size == Size(mem, PTR_DESC(b.ptr)) IN size >= sz => size >= sz + DescWords

Careful ==
  \/ \E sz \in Requests : RoomForRest(sz) /\ malloc(sz)
  \/ \E b \in live : free(b)
  \/ \E b \in live, sz \in Requests : RoomForRest(sz) /\ StaysInside(b, sz) /\ realloc(b, sz)

CarefulSpec == HeapInit /\ [][Careful]_heapVars

-----------------------------------------------------------------------------
HeapTypeOK ==
  /\ mem \in [Words -> Nat]
  /\ pool \in Words \union {NULL}
  /\ pages \subseteq HeapPages
  /\ free_panicked \in BOOLEAN

(* The walk of the free list never leads out of the heap or in a circle:    *)
(* every block on it carries MAGIC_FREE and they come in address order,     *)
(* what check_cycles and the loops of malloc and free count on.             *)
ListOK ==
  /\ Len(List) < Fuel
  /\ \A b \in PoolBlocks : b \in Words /\ Magic(mem, b) = MAGIC_FREE
  /\ \A k \in 2 .. Len(List) : List[k - 1] + Size(mem, List[k - 1]) <= List[k]

Extent(b) == b .. b + Size(mem, b) - 1
LiveBlocks == {PTR_DESC(b.ptr) : b \in live}

(* No word belongs to two blocks, free or held, and what a caller holds is  *)
(* as large as it asked for.                                                *)
BlocksDisjoint ==
  /\ \A b, c \in PoolBlocks \union LiveBlocks :
       b # c => Extent(b) \intersect Extent(c) = {}
  /\ PoolBlocks \intersect LiveBlocks = {}
  /\ \A b \in live : b.asked + DescWords <= Size(mem, PTR_DESC(b.ptr))

(* After any calls in any order the free list is in order and every word of *)
(* the heap is in one block at most: the merging of neighbours in free, the *)
(* splitting in malloc and the pages the heap grows by agree with each      *)
(* other.                                                                   *)
PoolIsSane == HeapTypeOK /\ ListOK /\ BlocksDisjoint

(* what a caller wrote stays as it was written while it holds the block *)
ContentsStay ==
  \A b \in live : \A a \in b.ptr .. b.ptr + b.asked - 1 : Read(mem, a) = DATA

-----------------------------------------------------------------------------
(* Claims of the code that do not hold for every sequence of calls *)

(* print_pool: "assert((uint32_t)mem != MAGIC_USED)", for every next        *)
(* pointer of the free list.                                                *)
NoMagicPointer == \A b \in PoolBlocks : b # MAGIC_USED

(* free panics on a "double-free" or a "corrupted magic": neither happens   *)
(* to callers that free what they hold and write what they asked for.       *)
NoPanic == ~free_panicked

(* malloc means to "give the whole block to the allocation" when what would *)
(* remain is too small for a block: every word of the pages taken belongs   *)
(* to a block, held or free.                                                *)
NothingLost ==
  \A pg \in pages : \A a \in pg * PageWords .. pg * PageWords + PageWords - 1 :
    \E b \in PoolBlocks \union LiveBlocks : a \in Extent(b)
=============================================================================
