------------------------------ MODULE PagePool ------------------------------
(***************************************************************************)
(* What the physical page allocator of src/mem.c promises its callers: a    *)
(* fixed pool of pages, of which contiguous runs are handed out and taken   *)
(* back.  A page is never in two hands, an allocation is refused only when  *)
(* no run of the requested length is left, and giving pages back makes      *)
(* exactly those pages available again.                                     *)
(***************************************************************************)
EXTENDS Integers

CONSTANTS
  All,       (* every page there is, reserved ones included                  *)
  Pool,      (* the pages the allocator may hand out                        *)
  Starts,    (* the pages a run found by a search may start at              *)
  MaxCount   (* the longest run a caller asks for                           *)

VARIABLES
  held,      (* the pages that are in the hands of callers                  *)
  call       (* the last call, its arguments and what it returned           *)

poolVars == << held, call >>

Run(pg, n) == pg .. pg + n - 1

NoCall == << "init_mem" >>

Available(pg, n) == Run(pg, n) \subseteq Pool \ held

(* alloc_ppages: any run that is available, or a refusal when there is none *)
Alloc(n) ==
  \/ \E pg \in Starts : /\ Available(pg, n)
                        /\ held' = held \union Run(pg, n)
                        /\ call' = << "alloc", n, pg >>
  \/ /\ \A pg \in Starts : ~Available(pg, n)
     /\ call' = << "alloc", n, -1 >>
     /\ UNCHANGED held

(* alloc_ppage_range: that very run, or a refusal when part of it is taken *)
AllocAt(pg, n) ==
  \/ /\ Available(pg, n)
     /\ held' = held \union Run(pg, n)
     /\ call' = << "range", pg, n, 0 >>
  \/ /\ ~Available(pg, n)
     /\ call' = << "range", pg, n, -1 >>
     /\ UNCHANGED held

(* free_ppages, free_ppage_range *)
Free(pg, n) ==
  /\ Run(pg, n) \subseteq held
  /\ held' = held \ Run(pg, n)
  /\ call' = << "free", pg, n >>

Init == /\ held \subseteq Pool
        /\ call = NoCall

Next == \E n \in 1 .. MaxCount :
          \/ Alloc(n)
          \/ \E pg \in All : AllocAt(pg, n) \/ Free(pg, n)

Spec == Init /\ [][Next]_poolVars
=============================================================================
