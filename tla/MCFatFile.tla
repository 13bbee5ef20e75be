------------------------------ MODULE MCFatFile -----------------------------
EXTENDS FatFile
(* In clusters of 3 bytes: a file that ends in the middle of its third      *)
(* cluster, one that fills its two, an empty one, and one whose chain is    *)
(* longer than its size needs                                               *)
MCFiles == { [size |-> 8, chain |-> << 5, 3, 4 >>], [size |-> 6, chain |-> << 2, 6 >>],
             [size |-> 0, chain |-> << 7 >>], [size |-> 4, chain |-> << 3, 2, 7 >>] }
=============================================================================
