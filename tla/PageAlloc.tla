----------------------------- MODULE PageAlloc ------------------------------
(***************************************************************************)
(* The physical page allocator, src/mem.c.                                  *)
(*                                                                          *)
(* The bitmap is the set `used' of the pages whose bit is 1.  Every public  *)
(* function runs with interrupts disabled from its first access of the      *)
(* bitmap to its last, so each is one action, which ends with the interrupt *)
(* flag as it found it: but for one.  Callers are abstracted to the set of  *)
(* pages they hold; they give back only what they hold.                     *)
(***************************************************************************)
EXTENDS Integers, Sequences

CONSTANTS
  PageSize,    (* bytes of a page (4096)                                    *)
  WordBits,    (* pages of one element of the bitmap array (32)             *)
  TotalPages,  (* pages the bitmap has bits for (2^20)                      *)
  MemStart,    (* _mem_start, the address right after the kernel image      *)
  MemMap,      (* boot_mem_map: a sequence of [start, size], in bytes       *)
  StackPages,  (* STACK_PAGES, the size of the stack init_mem allocates     *)
  MaxCount     (* the largest number of pages requested in one call         *)

MEM_HEAP == 0
MEM_STACK == 1

Pages == 0 .. TotalPages - 1
AddrMod == TotalPages * PageSize            \* addresses wrap around here
AddrToPage(addr) == addr \div PageSize
Word(pg) == pg \div WordBits                \* BM_IDX
Run(pg, n) == pg .. pg + n - 1

(* the name of a call, its arguments and its result *)
NoCall == << "init_mem" >>

-----------------------------------------------------------------------------
(* init_mem: what is made of the memory map *)

(* the end of a range, and its size after the wrap-around has been cut off *)
WholeSize(r) == r.size - (r.size % 4)
Wraps(r) == (r.start + WholeSize(r)) % AddrMod < WholeSize(r)
RangeEnd(r) == IF Wraps(r) THEN AddrMod - 4 ELSE (r.start + WholeSize(r)) % AddrMod
RangeSize(r) == IF Wraps(r) THEN RangeEnd(r) - r.start ELSE WholeSize(r)

Ranges == {MemMap[i] : i \in DOMAIN MemMap}
Accepted == {r \in Ranges : RangeEnd(r) >= MemStart}

(* add_memory: the first page is rounded down, the number of pages up *)
AddMemory(start, sz) ==
  Run(AddrToPage(start), AddrToPage(sz + PageSize - 1)) \intersect Pages

(* a range that starts below MEM_START is cut there, its size stays *)
ClippedStart(r) == IF r.start < MemStart THEN MemStart ELSE r.start
AddedPages(r) == AddMemory(ClippedStart(r), RangeSize(r))

EndPages == {AddrToPage(RangeEnd(r)) : r \in Accepted} \union {0}
EndPage == CHOOSE e \in EndPages : \A f \in EndPages : f <= e

BmWords == EndPage \div WordBits            \* bmsize / 4
BmSize == 4 * BmWords
MaxUsedPage == AddrToPage(MemStart + BmSize - 1)

(* the bitmap init_mem leaves behind, before it allocates the stack *)
BootUsed == (Pages \ UNION {AddedPages(r) : r \in Accepted})
              \union ((0 .. MaxUsedPage) \intersect Pages)

(* Every array the allocator walks is in bounds, and the words just above   *)
(* the searched ones share a page with them, which is marked used.          *)
ASSUME SizesAssumption ==
  /\ PageSize \in Nat \ {0} /\ WordBits \in Nat \ {0} /\ TotalPages \in Nat
  /\ MaxCount \in Nat /\ StackPages \in Nat

(* the machine has at least one bitmap word's worth of memory *)
ASSUME MemMapAssumption ==
  /\ BmWords \in Nat \ {0}
  /\ BmWords * WordBits <= TotalPages
  /\ \A n \in {StackPages, MaxCount} :
       AddrToPage(MemStart + 4 * ((EndPage + n - 1) \div WordBits)) <= MaxUsedPage

-----------------------------------------------------------------------------
VARIABLES
  used,            (* the pages whose bitmap bit is 1                       *)
  last_alloc_idx,  (* the element of the bitmap the search starts from      *)
  held,            (* the pages callers hold (history)                      *)
  intr,            (* the processor's interrupt flag                        *)
  call,            (* the last call and what it returned (history)          *)
  panicked         (* free_ppage found the page already free                *)

vars == << used, last_alloc_idx, held, intr, call, panicked >>

IsFree(u, pg) == pg \in Pages /\ pg \notin u
RangeFree(u, pg, n) == \A q \in Run(pg, n) : IsFree(u, q)

(* the pages visited by the loop of alloc_ppages: all of them for a stack,  *)
(* those from the last_alloc_idx-th word on for the heap                    *)
BugSearchAbove(area, last) ==
  {pg \in Pages : /\ Word(pg) < BmWords
                  /\ area = MEM_HEAP => Word(pg) > last}
SearchPages(area, last) ==
  {pg \in Pages : /\ Word(pg) < BmWords
                  /\ area = MEM_HEAP => Word(pg) >= last}

Before(area, p, q) == IF area = MEM_STACK THEN p >= q ELSE p <= q

BugFitFirstPage(u, area, last, n) ==
  {pg \in SearchPages(area, last) : RangeFree(u, pg, 1)}
(* the pages where alloc_ppage_range succeeds *)
Fits(u, area, last, n) ==
  {pg \in SearchPages(area, last) : RangeFree(u, pg, n)}

FirstOf(S, area, pg) == pg \in S /\ \A q \in S : Before(area, pg, q)

FreeSeen(u, last) == {pg \in SearchPages(MEM_HEAP, last) : IsFree(u, pg)}

BugIdxOfRange(u, area, last, n) ==
  IF area = MEM_HEAP /\ Fits(u, area, last, n) # {}
  THEN {Word(pg) : pg \in {p \in Pages : FirstOf(Fits(u, area, last, n), area, p)}}
  ELSE {last}
(* the upward search moves last_alloc_idx to the word of the first free     *)
(* page it meets, whether a range starts there or not                       *)
IdxAfterSearch(u, area, last, n) ==
  IF area = MEM_HEAP /\ FreeSeen(u, last) # {}
  THEN {Word(pg) : pg \in {p \in Pages : FirstOf(FreeSeen(u, last), area, p)}}
  ELSE {last}

-----------------------------------------------------------------------------
(* The stack is taken from a bitmap no caller has touched yet. *)
Init ==
  /\ panicked = FALSE
  /\ intr = FALSE
  /\ call = NoCall
  /\ last_alloc_idx = 0
  /\ \/ \E pg \in Pages :
          /\ FirstOf(Fits(BootUsed, MEM_STACK, 0, StackPages), MEM_STACK, pg)
          /\ used = BootUsed \union Run(pg, StackPages)
          /\ held = Run(pg, StackPages)
     \/ /\ Fits(BootUsed, MEM_STACK, 0, StackPages) = {}
        /\ used = BootUsed
        /\ held = {}

alloc_ppages(n, area) ==
  /\ ~panicked
  /\ last_alloc_idx' \in IdxAfterSearch(used, area, last_alloc_idx, n)
  /\ \/ \E pg \in Pages :
          /\ FirstOf(Fits(used, area, last_alloc_idx, n), area, pg)
          /\ used' = used \union Run(pg, n)
          /\ held' = held \union Run(pg, n)
          /\ call' = << "alloc", n, pg >>
     \/ /\ Fits(used, area, last_alloc_idx, n) = {}
        /\ call' = << "alloc", n, -1 >>
        /\ UNCHANGED << used, held >>
  /\ UNCHANGED << intr, panicked >>

(* The way out on which the range is not free leaves interrupts disabled.   *)
(* alloc_ppages, which calls it too, restores the flag it found itself.     *)
alloc_ppage_range(pg, n) ==
  /\ ~panicked
  /\ \/ /\ RangeFree(used, pg, n)
        /\ used' = used \union Run(pg, n)
        /\ held' = held \union Run(pg, n)
        /\ call' = << "range", pg, n, 0 >>
        /\ UNCHANGED intr
     \/ /\ ~RangeFree(used, pg, n)
        /\ call' = << "range", pg, n, -1 >>
        /\ intr' = FALSE
        /\ UNCHANGED << used, held >>
  /\ UNCHANGED << last_alloc_idx, panicked >>

(* free_ppage lets the next search start no later than the freed page *)
IdxAfterFree(last, pg) == IF Word(pg) < last THEN Word(pg) ELSE last

(* free_ppages and free_ppage_range free the pages one by one in ascending  *)
(* order, so the lowest one settles last_alloc_idx.                         *)
free_ppages(pg, n) ==
  /\ ~panicked
  /\ Run(pg, n) \subseteq held
  /\ IF Run(pg, n) \subseteq used
     THEN /\ used' = used \ Run(pg, n)
          /\ last_alloc_idx' = IdxAfterFree(last_alloc_idx, pg)
          /\ held' = held \ Run(pg, n)
          /\ call' = << "free", pg, n >>
          /\ UNCHANGED panicked
     ELSE /\ panicked' = TRUE
          /\ UNCHANGED << used, last_alloc_idx, held, call >>
  /\ UNCHANGED intr

(* the rest of the kernel enables and disables interrupts between its calls *)
set_intr_flag(f) ==
  /\ intr' = f
  /\ UNCHANGED << used, last_alloc_idx, held, call, panicked >>

Next == \/ \E n \in 1 .. MaxCount :
             \/ \E area \in {MEM_HEAP, MEM_STACK} : alloc_ppages(n, area)
             \/ \E pg \in Pages : alloc_ppage_range(pg, n) \/ free_ppages(pg, n)
        \/ \E f \in BOOLEAN : set_intr_flag(f)

Spec == Init /\ [][Next]_vars

-----------------------------------------------------------------------------
TypeOK ==
  /\ used \subseteq Pages
  /\ last_alloc_idx \in Nat
  /\ held \subseteq Pages
  /\ intr \in BOOLEAN
  /\ panicked \in BOOLEAN

(* The guarantee the comment at the top of mem.c gives for last_alloc_idx:  *)
(* no element of the bitmap before it has a free page.                      *)
NoFreeBelowLastAlloc ==
  \A pg \in Pages : Word(pg) < last_alloc_idx => pg \in used

(* The bitmap marks exactly the pages reserved at boot and the pages in the *)
(* hands of callers: none is lost, none is held without being marked, and   *)
(* no caller holds the kernel, the bitmap or a memory hole.  So free_ppage  *)
(* never panics on a page its caller holds.                                 *)
BitmapAccounts ==
  /\ used = BootUsed \union held
  /\ BootUsed \intersect held = {}
  /\ ~panicked

(* The allocator keeps the promise of PagePool: the pages handed out are    *)
(* free ones, and -1 is returned only when no run of that length is left,   *)
(* although the search does not look below last_alloc_idx.                  *)
Promise == INSTANCE PagePool WITH
  All <- Pages,
  Pool <- Pages \ BootUsed,
  Starts <- {pg \in Pages : Word(pg) < BmWords}
PromiseSpec == Promise!Spec

-----------------------------------------------------------------------------
(* the pages that lie wholly in memory the boot loader reported *)
RamPages == {pg \in Pages : \E r \in Ranges :
               /\ r.start <= pg * PageSize
               /\ (pg + 1) * PageSize <= r.start + r.size}

(* add_memory "adds a range of physical memory to the available pool": what  *)
(* callers are given, the stack of init_mem first, is memory the machine has *)
HeldIsRam == held \subseteq RamPages

(* Every function saves the interrupt flag first and sets it again: a call   *)
(* leaves it as it was.                                                      *)
FlagKept == [][call' # call => intr' = intr]_vars
=============================================================================
