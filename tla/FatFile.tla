------------------------------- MODULE FatFile ------------------------------
(***************************************************************************)
(* Reading a file of a FAT volume (src/fsfat.c): the file allocation table  *)
(* kept in memory, and one open file with its position, the cluster the     *)
(* position is in, and a buffer of one cluster.                             *)
(*                                                                          *)
(* The byte that the disk holds at a place of a cluster is represented by   *)
(* its number in the file, so that a read is right when it returns          *)
(* consecutive numbers.                                                     *)
(***************************************************************************)
EXTENDS Integers, Sequences

CONSTANTS
  FatType,     (* "FAT12", "FAT16" or "FAT32"                               *)
  CLUST,       (* bytes of a cluster                                        *)
  Files,       (* the files one may open: [size, chain of clusters]         *)
  LastCluster, (* the volume's clusters are 2 .. LastCluster                *)
  MaxRead,     (* bound: bytes asked of one read                            *)
  MaxPos       (* bound: the position a seek goes to                        *)

Clusters == 2 .. LastCluster

(* fsfat_create tells the volume's type by its number of clusters *)
ClusterLimit ==
  CASE FatType = "FAT12" -> 4085 [] FatType = "FAT16" -> 65525 [] FatType = "FAT32" -> 268435445

ASSUME FatFileAssumption ==
  /\ FatType \in {"FAT12", "FAT16", "FAT32"}
  /\ CLUST \in Nat \ {0} /\ MaxRead \in Nat /\ MaxPos \in Nat
  /\ LastCluster \in Nat /\ LastCluster - 1 < ClusterLimit
  /\ \A f \in Files :
       /\ f.size \in Nat
       /\ f.chain \in Seq(Clusters) /\ Len(f.chain) > 0
       /\ f.size <= CLUST * Len(f.chain)
       /\ \A i, j \in 1 .. Len(f.chain) : f.chain[i] = f.chain[j] => i = j

NoFile == [size |-> -1, chain |-> << >>]
NoBuf == 0

VARIABLES
  fat,         (* the words of the table                                    *)
  dent,        (* the directory entry of the open file, or NoFile           *)
  cur_pos, cur_clust, clustbuf, buf_valid,
  got,         (* what the last read put in the program's buffer            *)
  smashed      (* a read copied a negative number of bytes                  *)

file == << dent, cur_pos, cur_clust, clustbuf, buf_valid >>
vars == << fat, file, got, smashed >>

-----------------------------------------------------------------------------
(* The table on disk *)
EndOfChain ==
  CASE FatType = "FAT12" -> 4095 [] FatType = "FAT16" -> 65535 [] FatType = "FAT32" -> 268435455

Follows(f, c) == { i \in 1 .. Len(f.chain) : f.chain[i] = c }

Entry(f, c) ==
  IF Follows(f, c) = {} THEN 0
  ELSE LET i == CHOOSE i \in Follows(f, c) : TRUE
       IN  IF i = Len(f.chain) THEN EndOfChain ELSE f.chain[i + 1]

(* 12-bit entries are packed, two in three bytes; the rest of the table's   *)
(* last sector is zero.                                                     *)
PackedByte(f, b) ==
  LET c == 2 * (b \div 3)
  IN  CASE b % 3 = 0 -> Entry(f, c) % 256
        [] b % 3 = 1 -> Entry(f, c) \div 256 + 16 * (Entry(f, c + 1) % 16)
        [] b % 3 = 2 -> Entry(f, c + 1) \div 16

TableOf(f) ==
  IF FatType = "FAT12"
  THEN [w \in 0 .. 2 * LastCluster |-> PackedByte(f, 2 * w) + 256 * PackedByte(f, 2 * w + 1)]
  ELSE [w \in 0 .. LastCluster |-> Entry(f, w)]

(* The file's byte that is at offset o of cluster c, -1 if it is not of the file *)
ByteAt(c, o) ==
  IF Follows(dent, c) = {} THEN -1
  ELSE CLUST * ((CHOOSE i \in Follows(dent, c) : TRUE) - 1) + o

-----------------------------------------------------------------------------
read_fat(addr) ==
  IF FatType = "FAT12"
  THEN LET idx == addr + addr \div 2
       IN  IF idx % 2 = 1 THEN fat[idx] \div 16 ELSE fat[idx] % 4096
  ELSE fat[addr]

(* The word before the table is the next field of its heap block, which     *)
(* malloc sets to 0: next_cluster(-1) is -1.                                *)
next_cluster(addr) ==
  IF addr < 0 \/ read_fat(addr) = 0 \/ read_fat(addr) >= EndOfChain - 7
  THEN -1 ELSE read_fat(addr)

BugFindOneLess(count, clust) ==
  LET after[k \in 0 .. count] ==
        IF k <= 1 THEN clust ELSE IF after[k - 1] < 0 THEN -1 ELSE next_cluster(after[k - 1])
  IN  after[count]
find_cluster(count, clust) ==
  LET after[k \in 0 .. count] ==
        IF k = 0 THEN clust ELSE next_cluster(after[k - 1])
  IN  after[count]

-----------------------------------------------------------------------------
Init ==
  /\ fat \in { TableOf(f) : f \in Files }
  /\ dent = NoFile /\ cur_pos = 0 /\ cur_clust = 0
  /\ clustbuf = NoBuf /\ buf_valid = FALSE
  /\ got = << >> /\ smashed = FALSE

Opened == dent # NoFile /\ ~smashed

(* init_file, for a file of the volume the table describes *)
open(f) ==
  /\ dent = NoFile
  /\ fat = TableOf(f)
  /\ dent' = f
  /\ cur_pos' = 0 /\ cur_clust' = f.chain[1]
  /\ clustbuf' = NoBuf /\ buf_valid' = FALSE
  /\ got' = << >>
  /\ UNCHANGED << fat, smashed >>

close ==
  /\ Opened
  /\ dent' = NoFile /\ cur_pos' = 0 /\ cur_clust' = 0
  /\ clustbuf' = NoBuf /\ buf_valid' = FALSE
  /\ got' = << >>
  /\ UNCHANGED << fat, smashed >>

Idx(pos) == pos \div CLUST

(* seek: new_pos is what offs and whence come to, 0 if that is negative *)
seek(new_pos) ==
  /\ Opened
  /\ cur_clust' = IF Idx(new_pos) = Idx(cur_pos) THEN cur_clust
                  ELSE IF Idx(new_pos) < Idx(cur_pos)
                  THEN find_cluster(Idx(new_pos), dent.chain[1])
                  ELSE find_cluster(Idx(new_pos) - Idx(cur_pos), cur_clust)
  /\ buf_valid' = (buf_valid /\ Idx(new_pos) = Idx(cur_pos))
  /\ cur_pos' = new_pos
  /\ UNCHANGED << fat, dent, clustbuf, got, smashed >>

(* One turn of the loop in read, on its local and file variables; "on" is   *)
(* that the loop goes on, "bad" has the clusters that read_cluster cannot   *)
(* read in this call.  Its result is not looked at: the buffer keeps what   *)
(* it had and is marked valid all the same.                                 *)
BugStepKeepsBuf(s, sz, bad) ==
  LET buf  == IF s.valid \/ s.clust \in bad THEN s.buf ELSE s.clust
      offs == s.pos % CLUST
      room == IF CLUST - offs < sz - Len(s.out) THEN CLUST - offs ELSE sz - Len(s.out)
      len  == IF s.pos + room > dent.size THEN dent.size - s.pos ELSE room
      pos  == s.pos + len
      over == Idx(pos) # Idx(s.pos)
      next == IF over THEN next_cluster(s.clust) ELSE s.clust
      out  == s.out \o [i \in 1 .. len |-> ByteAt(buf, offs + i - 1)]
  IN  IF len < 0 THEN [s EXCEPT !.wild = TRUE, !.on = FALSE]
      ELSE IF pos >= dent.size
      THEN [s EXCEPT !.pos = pos, !.clust = -1, !.buf = buf, !.valid = FALSE,
                     !.out = out, !.on = FALSE]
      ELSE [s EXCEPT !.pos = pos, !.clust = next, !.buf = buf, !.valid = TRUE,
                     !.out = out, !.on = next >= 0]
ReadStep(s, sz, bad) ==
  LET buf  == IF s.valid \/ s.clust \in bad THEN s.buf ELSE s.clust
      offs == s.pos % CLUST
      room == IF CLUST - offs < sz - Len(s.out) THEN CLUST - offs ELSE sz - Len(s.out)
      len  == IF s.pos + room > dent.size THEN dent.size - s.pos ELSE room
      pos  == s.pos + len
      over == Idx(pos) # Idx(s.pos)
      next == IF over THEN next_cluster(s.clust) ELSE s.clust
      out  == s.out \o [i \in 1 .. len |-> ByteAt(buf, offs + i - 1)]
  IN  IF len < 0 THEN [s EXCEPT !.wild = TRUE, !.on = FALSE]
      ELSE IF pos >= dent.size
      THEN [s EXCEPT !.pos = pos, !.clust = -1, !.buf = buf, !.valid = FALSE,
                     !.out = out, !.on = FALSE]
      ELSE [s EXCEPT !.pos = pos, !.clust = next, !.buf = buf, !.valid = ~over,
                     !.out = out, !.on = next >= 0]

ReadLoop(sz, bad) ==
  LET run[k \in 0 .. sz] ==
        IF k = 0
        THEN [pos |-> cur_pos, clust |-> cur_clust, buf |-> clustbuf, valid |-> buf_valid,
              out |-> << >>, on |-> TRUE, wild |-> FALSE]
        ELSE IF run[k - 1].on /\ Len(run[k - 1].out) < sz
             THEN ReadStep(run[k - 1], sz, bad) ELSE run[k - 1]
  IN  run[sz]

read(sz, bad) ==
  /\ Opened
  /\ IF cur_clust < 0
     THEN got' = << >> /\ UNCHANGED << file, smashed >>
     ELSE LET end == ReadLoop(sz, bad)
          IN  /\ cur_pos' = end.pos /\ cur_clust' = end.clust
              /\ clustbuf' = end.buf /\ buf_valid' = end.valid
              /\ got' = end.out /\ smashed' = end.wild
              /\ UNCHANGED dent
  /\ UNCHANGED fat

(* After a read past the end the memory is no longer what the code left there *)
Broken == smashed /\ UNCHANGED vars

-----------------------------------------------------------------------------
(* Two seeks lead to a read that goes wrong: to a place before the end, in  *)
(* the last cluster, once the end was read in that cluster; and to a place  *)
(* behind the end that is still in a cluster of the file.  SpecInside has   *)
(* the first, Spec both, and CarefulSpec neither.                           *)
Lost(new_pos) ==
  cur_clust = -1 /\ Idx(new_pos) = Idx(cur_pos) /\ new_pos < dent.size
Behind(new_pos) ==
  new_pos > dent.size /\ Idx(new_pos) < Len(dent.chain)

Other ==
  \/ \E f \in Files : open(f)
  \/ close
  \/ \E sz \in 0 .. MaxRead : read(sz, {})

SeekAny == \E p \in 0 .. MaxPos : seek(p)
SeekInside == \E p \in 0 .. MaxPos : ~Behind(p) /\ seek(p)
SeekCareful == \E p \in 0 .. MaxPos : ~Behind(p) /\ ~Lost(p) /\ seek(p)

Spec == Init /\ [][Other \/ SeekAny \/ Broken]_vars
SpecInside == Init /\ [][Other \/ SeekInside]_vars
CarefulSpec == Init /\ [][Other \/ SeekCareful]_vars

(* As CarefulSpec, on a medium some of whose clusters cannot be read at     *)
(* times                                                                    *)
ReadFaulty == \E sz \in 0 .. MaxRead, bad \in SUBSET Clusters : read(sz, bad)
FaultySpec == Init /\ [][Other \/ SeekCareful \/ ReadFaulty]_vars

-----------------------------------------------------------------------------
TypeOK ==
  /\ dent \in Files \cup {NoFile}
  /\ cur_pos \in Nat /\ cur_clust \in Clusters \cup {-1, 0}
  /\ clustbuf \in Clusters \cup {NoBuf} /\ buf_valid \in BOOLEAN
  /\ \A i \in DOMAIN got : got[i] \in Nat \cup {-1}
  /\ smashed \in BOOLEAN

(* cur_clust is the cluster cur_pos is in, and -1 only at the end: the      *)
(* comment on the field (fsfat.c:159) says so, seek updates it only when    *)
(* the cluster's index changes, and read sets it to -1 at the end.  While   *)
(* clusters can be read, a valid buffer holds that cluster, across any      *)
(* sequence of seeks and reads that stop in the middle of it.               *)
CursorRight ==
  dent # NoFile =>
    IF cur_clust < 0 THEN cur_pos >= dent.size
    ELSE /\ Idx(cur_pos) < Len(dent.chain)
         /\ cur_clust = dent.chain[Idx(cur_pos) + 1]

ClusterFollowsPos ==
  /\ TypeOK /\ CursorRight
  /\ buf_valid => clustbuf = cur_clust

(* A read never copies a negative number of bytes: where the position is at *)
(* or behind the end, read has nothing to copy (fsfat.c:567, "EOF").        *)
NoWildCopy == ~smashed

(* read_fat returns the entry that was written for each cluster, odd ones   *)
(* from the high 12 bits and even ones from the low 12 (fsfat.c:879-881).   *)
EntriesRead ==
  dent # NoFile => \A c \in Clusters : read_fat(c) = Entry(dent, c)

(* seek and read implement the file OpenFile describes: every read returns  *)
(* exactly the bytes at the position, over cluster boundaries and at the    *)
(* end, while clusters can be read.                                         *)
Promise == INSTANCE OpenFile WITH
  Sizes <- { f.size : f \in Files }, size <- dent.size, pos <- cur_pos
PromiseSpec == Promise!Spec
=============================================================================
