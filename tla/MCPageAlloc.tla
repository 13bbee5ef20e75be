---------------------------- MODULE MCPageAlloc -----------------------------
(***************************************************************************)
(* Two machines for PageAlloc, with 16-byte pages and 3-page bitmap words.  *)
(*                                                                          *)
(* In both the kernel ends inside a range of RAM, as it does when it is     *)
(* loaded at 1MB.  In MapWithHole a hole separates that range from the      *)
(* next, which ends at the top of the address space; the last pages have    *)
(* bits beyond the searched words, so that runs may spill over them.  In    *)
(* MapEndsOnWord, RAM ends where a word of the bitmap does.                 *)
(***************************************************************************)
EXTENDS PageAlloc

MapWithHole == << [start |-> 0, size |-> 16],
                  [start |-> 16, size |-> 65],
                  [start |-> 112, size |-> 48] >>

MapEndsOnWord == << [start |-> 0, size |-> 16],
                    [start |-> 16, size |-> 80] >>
=============================================================================
