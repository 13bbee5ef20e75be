------------------------------- MODULE HeapIrq ------------------------------
(***************************************************************************)
(* malloc interrupted by the timer.  timer_handler frees the timer_event of *)
(* each alarm that went off, in the interrupt, while malloc and free run    *)
(* with interrupts enabled.  Here malloc takes one step per statement that  *)
(* reads or writes the free list, and the interrupt may come between any    *)
(* two; the handler itself, which runs to its end, is one step.  The search *)
(* is split up; a malloc that needs new pages and the main thread's own     *)
(* free are single steps.                                                   *)
(***************************************************************************)
EXTENDS Heap

VARIABLES
  pc,      (* the next statement of malloc, or "idle" outside of it         *)
  sz,      (* its argument                                                  *)
  dummy,   (* dummy.next                                                    *)
  prev,    (* prev, NULL standing for &dummy                                *)
  blk,     (* the local variable mem                                        *)
  ptr,     (* the upper part of mem, where it is split                      *)
  alarms   (* the blocks that are timer events                              *)

locals == << pc, sz, dummy, prev, blk, ptr >>
irqVars == << heapVars, locals, alarms >>

total == sz + DescWords
PrevNext == IF prev = NULL THEN dummy ELSE Next_(mem, prev)

(* total_sz = ...; dummy.next = pool; prev = &dummy *)
Enter(n) ==
  /\ pc = "idle" /\ ~free_panicked /\ Cardinality(live) < MaxLive
  /\ pc' = "search" /\ sz' = n
  /\ dummy' = pool /\ prev' = NULL /\ blk' = NULL /\ ptr' = NULL
  /\ UNCHANGED << heapVars, alarms >>

(* one iteration of the loop: take prev->next whole, split it, or pass on *)
Search ==
  /\ pc = "search" /\ ~free_panicked /\ PrevNext # NULL
  /\ LET b == PrevNext IN
       \/ /\ Size(mem, b) >= total /\ Size(mem, b) < total + MinBlockSize
          /\ pc' = "unlink" /\ blk' = b /\ UNCHANGED << prev, ptr >>
       \/ /\ Size(mem, b) >= total + MinBlockSize
          /\ pc' = "shrink" /\ blk' = b /\ ptr' = b + Size(mem, b) - total
          /\ UNCHANGED prev
       \/ /\ Size(mem, b) < total
          /\ prev' = b /\ UNCHANGED << pc, blk, ptr >>
  /\ UNCHANGED << heapVars, sz, dummy, alarms >>

(* prev->next = mem->next *)
Unlink ==
  /\ pc = "unlink" /\ ~free_panicked
  /\ pc' = "store"
  /\ IF prev = NULL THEN dummy' = Next_(mem, blk) /\ UNCHANGED mem
     ELSE mem' = SetNext(mem, prev, Next_(mem, blk)) /\ UNCHANGED dummy
  /\ UNCHANGED << pool, pages, live, free_panicked, sz, prev, blk, ptr, alarms >>

(* mem->size -= total_sz; mem = ptr: ptr was computed from the old size *)
Shrink ==
  /\ pc = "shrink" /\ ~free_panicked
  /\ pc' = "store"
  /\ mem' = SetSize(mem, blk, Size(mem, blk) - total)
  /\ blk' = ptr
  /\ UNCHANGED << pool, pages, live, free_panicked, sz, dummy, prev, ptr, alarms >>

(* pool = dummy.next, also when the search failed *)
Store ==
  /\ ~free_panicked
  /\ pc = "store" \/ (pc = "search" /\ PrevNext = NULL)
  /\ pc' = IF pc = "store" THEN "take" ELSE "grow"
  /\ pool' = dummy
  /\ UNCHANGED << mem, pages, live, free_panicked, sz, dummy, prev, blk, ptr, alarms >>

(* the block is handed to a caller, who fills it; set_alarm is one of them *)
Return(h, b) ==
  /\ Commit([h EXCEPT !.mem = Fill(@, DESC_PTR(b), sz, DATA)])
  /\ LET new == [ptr |-> DESC_PTR(b), asked |-> sz] IN
       /\ live' = live \union {new}
       /\ alarms' \in {alarms, alarms \union {new}}

Take ==
  /\ pc = "take" /\ ~free_panicked
  /\ pc' = "idle"
  /\ Return([Heap EXCEPT !.mem = SetDesc(@, blk, total, MAGIC_USED, NULL)], blk)
  /\ UNCHANGED << free_panicked, sz, dummy, prev, blk, ptr >>

GrowHeap ==
  /\ pc = "grow" /\ ~free_panicked
  /\ pc' = "idle"
  /\ LET runs == RunsOf(Heap, PagesFor(total)) IN
       \/ /\ runs = {}
          /\ UNCHANGED << mem, pool, pages, live, alarms >>
       \/ \E pg \in runs : /\ \A q \in runs : pg <= q
                           /\ Return(Grow(Heap, pg, total), pg * PageWords)
  /\ UNCHANGED << free_panicked, sz, dummy, prev, blk, ptr >>

MainFree ==
  /\ pc = "idle"
  /\ \E b \in live \ alarms : free(b)
  /\ UNCHANGED << locals, alarms >>

(* timer_handler: the event of an alarm that went off is freed *)
TimerIrq ==
  \E b \in alarms : /\ free(b)
                    /\ alarms' = alarms \ {b}
                    /\ UNCHANGED locals

IrqInit == /\ HeapInit
           /\ pc = "idle" /\ sz = 0 /\ dummy = NULL /\ prev = NULL /\ blk = NULL /\ ptr = NULL
           /\ alarms = {}

IrqNext ==
  \/ \E n \in Requests : Enter(n)
  \/ Search \/ Unlink \/ Shrink \/ Store \/ Take \/ GrowHeap
  \/ MainFree
  \/ TimerIrq

IrqSpec == IrqInit /\ [][IrqNext]_irqVars
=============================================================================
