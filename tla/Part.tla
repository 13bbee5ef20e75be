-------------------------------- MODULE Part --------------------------------
(***************************************************************************)
(* Finding the partitions of a disk (src/part.c): the four records of the   *)
(* first sector, and the chain of extended boot records, of two records     *)
(* each, that one of them may begin.  A disk is given by the kinds of its   *)
(* first four records and by its extended boot records, in the order of     *)
(* the chain.                                                               *)
(***************************************************************************)
EXTENDS Integers, Sequences, SequencesExt, FiniteSetsExt

CONSTANTS
  Disks,      (* [mbr : four of "empty", "data", "ext"; ebrs : sequence of  *)
              (*  [at : offset from the first one, recs : two records]]     *)
  TableSizes  (* ptabsz of the calls; 0 asks only for the number            *)

Ext == 100    (* where the extended partition begins *)

ASSUME PartAssumption ==
  /\ TableSizes \subseteq Nat
  /\ \A d \in Disks : Len(d.mbr) = 4 /\ (Len(d.ebrs) > 0 => d.ebrs[1].at = 0)

Record(kind, lba) == [kind |-> kind, lba |-> lba]

(* The records of the boot record in a sector *)
Records(d, sector) ==
  IF sector = 0
  THEN [i \in 1 .. 4 |-> Record(d.mbr[i], IF d.mbr[i] = "ext" THEN Ext ELSE 10 * i)]
  ELSE (CHOOSE ebr \in ToSet(d.ebrs) : Ext + ebr.at = sector).recs

VARIABLES
  disk, ptabsz,
  sidx, first_ebr_offs,
  num_bootrec, nparts,   (* the numbers read and found, up to Many and Most   *)
  ptab,       (* what is written to the table *)
  numparts    (* what read_partitions returned, or -2 *)

partVars == << disk, ptabsz, sidx, first_ebr_offs, num_bootrec, nparts, ptab, numparts >>
Looking == -2
(* Bounds.  The code tests only whether num_bootrec is 0: after Many it is   *)
(* 1 again.  Without a table nparts is nothing but the result.               *)
Many == 3
Most == 12

PartInit(disks, sizes) ==
  /\ disk \in disks /\ ptabsz \in sizes
  /\ sidx = 0 /\ first_ebr_offs = 0 /\ num_bootrec = 0 /\ nparts = 0
  /\ ptab = << >> /\ numparts = Looking

(* One record: s has the loop's variables *)
TakeRecord(s, rec, first) ==
  IF s.over THEN s
  ELSE IF rec.kind = "empty"
  THEN IF num_bootrec > 0 THEN [s EXCEPT !.sidx = 0, !.over = TRUE] ELSE s
  ELSE IF rec.kind = "ext" THEN [s EXCEPT !.sidx = first + rec.lba]
  ELSE [s EXCEPT !.nparts = Min({@ + 1, Most}),
                 !.ptab = IF ptabsz = 0 THEN @
                          ELSE Append(@, [start |-> rec.lba + first, prim |-> s.sidx = 0])]

(* One turn of the outer loop, on a boot record that could be read *)
ReadBootRecord ==
  LET first == IF sidx # 0 /\ first_ebr_offs = 0 THEN sidx ELSE first_ebr_offs
      end == FoldLeft(LAMBDA s, rec : TakeRecord(s, rec, first),
                      [sidx |-> sidx, nparts |-> nparts, ptab |-> ptab, over |-> FALSE],
                      Records(disk, sidx))
  IN  /\ numparts = Looking
      /\ first_ebr_offs' = first
      /\ sidx' = end.sidx /\ nparts' = end.nparts /\ ptab' = end.ptab
      /\ num_bootrec' = 1 + (num_bootrec % Many)
      /\ numparts' = IF end.sidx > 0 /\ (ptabsz = 0 \/ end.nparts < ptabsz)
                     THEN Looking ELSE end.nparts
      /\ UNCHANGED << disk, ptabsz >>

(* bdev_read_sect fails, or the sector has no signature *)
ReadFails ==
  /\ numparts = Looking
  /\ numparts' = -1
  /\ UNCHANGED << disk, ptabsz, sidx, first_ebr_offs, num_bootrec, nparts, ptab >>

PartNext == ReadBootRecord \/ ReadFails
PartDone == numparts # Looking

-----------------------------------------------------------------------------
(* The partitions there are, primary ones first.  A logical partition       *)
(* begins at its record's distance from its own boot record.                *)
DataAt(d) == SelectSeq(<< 1, 2, 3, 4 >>, LAMBDA i : d.mbr[i] = "data")
Primary(d) == [k \in DOMAIN DataAt(d) |-> 10 * DataAt(d)[k]]
DataOf(ebr) ==
  LET recs == SelectSeq(ebr.recs, LAMBDA rec : rec.kind = "data")
  IN  [k \in DOMAIN recs |-> Ext + ebr.at + recs[k].lba]
Logical(d) == FlattenSeq([k \in DOMAIN d.ebrs |-> DataOf(d.ebrs[k])])
Expected(d) == Primary(d) \o Logical(d)
ExtendedLast(d) == \A i, j \in 1 .. 4 : d.mbr[i] = "ext" /\ d.mbr[j] = "data" => j < i

PartTypeOK ==
  /\ ptabsz \in TableSizes
  /\ {sidx, first_ebr_offs} \subseteq Nat
  /\ num_bootrec \in 0 .. Many /\ nparts \in 0 .. Most
  /\ numparts \in {Looking, -1} \union (0 .. Most)

(* Every partition is found once, in order, along a chain of any length,    *)
(* until the table is full, and the table is not written beyond its end;    *)
(* the primary ones and the first logical one are found where they are;     *)
(* only primary ones are marked as such, and all of them if the extended    *)
(* record is behind them.                                                   *)
PartRight ==
  /\ PartTypeOK
  /\ Len(ptab) <= ptabsz
  /\ numparts >= 0 =>
       LET all == Expected(disk)
           prims == Len(Primary(disk))
       IN /\ numparts = IF ptabsz = 0 THEN Len(all) ELSE Min({ptabsz, Len(all)})
          /\ ptabsz > 0 => Len(ptab) = numparts
          /\ \A i \in DOMAIN ptab :
               /\ ptab[i].prim => i <= prims
               /\ i <= prims /\ ExtendedLast(disk) => ptab[i].prim
               /\ i <= prims + 1 => ptab[i].start = all[i]

(* Every partition is found where it is *)
StartsRight ==
  \A i \in DOMAIN ptab : ptab[i].start = Expected(disk)[i]

(* Every primary partition is marked as one *)
PrimariesMarked ==
  \A i \in DOMAIN ptab : i <= Len(Primary(disk)) => ptab[i].prim
=============================================================================
