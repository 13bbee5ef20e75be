------------------------------ MODULE OpenFile ------------------------------
(***************************************************************************)
(* What an open file promises its reader, whatever the filesystem: reading  *)
(* n bytes gives the n bytes from the current position on, or those that    *)
(* are left before the end, and moves the position past them; seeking moves *)
(* the position and nothing else.  A byte of the file is its number.        *)
(***************************************************************************)
EXTENDS Integers, Sequences

CONSTANTS Sizes, MaxRead, MaxPos

Closed == -1

VARIABLES
  size,   (* of the open file, or Closed                                    *)
  pos,
  got     (* what the last read returned                                    *)

vars == << size, pos, got >>

Init == size = Closed /\ pos = 0 /\ got = << >>

Open  == size = Closed /\ size' \in Sizes /\ pos' = 0 /\ got' = << >>
Close == size # Closed /\ size' = Closed /\ pos' = 0 /\ got' = << >>

Seek ==
  /\ size # Closed
  /\ pos' \in 0 .. MaxPos
  /\ UNCHANGED << size, got >>

Left(n) == IF pos >= size THEN 0 ELSE IF n < size - pos THEN n ELSE size - pos

Read(n) ==
  /\ size # Closed
  /\ got' = [i \in 1 .. Left(n) |-> pos + i - 1]
  /\ pos' = pos + Left(n)
  /\ UNCHANGED size

Next == Open \/ Close \/ Seek \/ \E n \in 0 .. MaxRead : Read(n)

Spec == Init /\ [][Next]_vars
=============================================================================
