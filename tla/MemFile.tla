------------------------------- MODULE MemFile ------------------------------
(***************************************************************************)
(* A file of the memory filesystem (src/fsmem.c) and the programs that have *)
(* it open through the C library (src/libc/file.c): the block that holds    *)
(* the data and grows by realloc, the position of each open handle, and the *)
(* mode and status of each FILE.                                            *)
(*                                                                          *)
(* The handles share the file and nothing else: struct ofile points to the  *)
(* node's memfs_file.  Removing the file frees the block and tells nobody.  *)
(***************************************************************************)
EXTENDS Integers, Sequences, SequencesExt

CONSTANTS
  Programs,   (* each with one FILE at a time                               *)
  Bytes, Newline,
  Unwritten,  (* a byte of a block that malloc returned                     *)
  MaxIO,      (* bound: bytes of one call                                   *)
  MaxPos,     (* bound: the position a seek goes to                         *)
  MaxBlock    (* bound: bytes of the block                                  *)

ASSUME MemFileAssumption ==
  /\ Newline \in Bytes /\ Unwritten \notin Bytes
  /\ {MaxIO, MaxPos, MaxBlock} \subseteq Nat

Closed == -1
None == [read |-> << >>, wrote |-> 0]

VARIABLES
  data,       (* the block, max_size bytes                                  *)
  size,
  freed,      (* the file has been removed: data is the heap's again        *)
  cur_pos,    (* of each program's handle, or Closed                        *)
  mode,       (* MODE_WRITE of each FILE; the other flags are never used    *)
  status,     (* STATUS_EOF and STATUS_ERR of each FILE                     *)
  result,     (* what the last call returned                                 *)
  wild        (* memory was read or written that is not the file's          *)

file == << data, size, freed >>
handles == << cur_pos, mode, status, result >>
vars == << file, handles, wild >>

max_size == Len(data)

Init ==
  /\ data = << >> /\ size = 0 /\ freed = FALSE
  /\ cur_pos = [p \in Programs |-> Closed]
  /\ mode = [p \in Programs |-> {}] /\ status = [p \in Programs |-> {}]
  /\ result = None
  /\ wild = FALSE

Opened(p) == cur_pos[p] # Closed /\ ~wild

(* fopen finds what is there and neither creates nor truncates *)
fopen(p, flags) ==
  /\ cur_pos[p] = Closed /\ ~freed /\ ~wild
  /\ cur_pos' = [cur_pos EXCEPT ![p] = 0]
  /\ mode' = [mode EXCEPT ![p] = flags]
  /\ status' = [status EXCEPT ![p] = {}]
  /\ result' = None
  /\ UNCHANGED << file, wild >>

fclose(p) ==
  /\ Opened(p)
  /\ cur_pos' = [cur_pos EXCEPT ![p] = Closed]
  /\ mode' = [mode EXCEPT ![p] = {}]
  /\ status' = [status EXCEPT ![p] = {}]
  /\ result' = None
  /\ UNCHANGED << file, wild >>

(* seek has no upper limit *)
NewPos(p, offs, whence) ==
  LET to == CASE whence = "SEEK_SET" -> offs
              [] whence = "SEEK_CUR" -> cur_pos[p] + offs
              [] whence = "SEEK_END" -> size + offs
  IN  IF to < 0 THEN 0 ELSE to

fseek(p, offs, whence) ==
  /\ Opened(p)
  /\ NewPos(p, offs, whence) <= MaxPos
  /\ cur_pos' = [cur_pos EXCEPT ![p] = NewPos(p, offs, whence)]
  /\ status' = [status EXCEPT ![p] = @ \ {"EOF"}]
  /\ result' = None
  /\ UNCHANGED << file, mode, wild >>

-----------------------------------------------------------------------------
(* read: how many bytes it copies, which is negative behind the end *)
BugLength(p, sz) == IF sz > max_size - cur_pos[p] THEN max_size - cur_pos[p] ELSE sz
Length(p, sz) == IF sz > size - cur_pos[p] THEN size - cur_pos[p] ELSE sz

Gives(p, s) ==
  /\ result' = [read |-> s, wrote |-> 0]
  /\ cur_pos' = [cur_pos EXCEPT ![p] = @ + Len(s)]

Copied(p, len) == SubSeq(data, cur_pos[p] + 1, cur_pos[p] + len)

(* fread of bytes: fs_read is -1 only for what is no file, so that          *)
(* STATUS_EOF is never set                                                  *)
fread(p, sz) ==
  /\ Opened(p)
  /\ IF Length(p, sz) < 0 \/ freed
     THEN wild' = TRUE /\ UNCHANGED << cur_pos, result >>
     ELSE Gives(p, Copied(p, Length(p, sz))) /\ UNCHANGED wild
  /\ UNCHANGED << file, mode, status >>

(* fgets: fgetc until a newline, the end, or sz - 1 bytes; got[k] is what   *)
(* the buffer holds after k of them                                         *)
Line(p, sz) ==
  LET at(k) == cur_pos[p] + k
      over(s, k) == \/ Len(s) < k                      (* it ended before   *)
                    \/ s # << >> /\ s[Len(s)] = Newline
                    \/ at(k) >= size                   (* fgetc is -1       *)
      got[k \in 0 .. sz - 1] ==
        IF k = 0 THEN << >>
        ELSE IF over(got[k - 1], k - 1) THEN got[k - 1]
        ELSE Append(got[k - 1], data[at(k)])
  IN  got[sz - 1]

fgets(p, sz) ==
  /\ Opened(p)
  /\ IF sz > 1 /\ (cur_pos[p] > size \/ freed)
     THEN wild' = TRUE /\ UNCHANGED << cur_pos, result >>
     ELSE Gives(p, Line(p, sz)) /\ UNCHANGED wild
  /\ UNCHANGED << file, mode, status >>

-----------------------------------------------------------------------------
BugGrown(total) == IF total > max_size THEN 2 * total ELSE max_size
Grown(total) ==
  IF total <= max_size THEN max_size
  ELSE IF total < 2 * max_size THEN 2 * max_size ELSE total

Block(len) == [i \in 1 .. len |-> IF i <= max_size THEN data[i] ELSE Unwritten]
Put(block, at, s) == [i \in DOMAIN block |-> IF i \in at + 1 .. at + Len(s) THEN s[i - at] ELSE block[i]]
SizeAfter(p, s) == IF cur_pos[p] + Len(s) > size THEN cur_pos[p] + Len(s) ELSE size

fwrite(p, s) ==
  LET total == cur_pos[p] + Len(s) IN
  /\ Opened(p) /\ "WRITE" \in mode[p]
  /\ Grown(total) <= MaxBlock
  /\ IF freed
     THEN wild' = TRUE /\ UNCHANGED << file, handles >>
     ELSE /\ data' = Put(Block(Grown(total)), cur_pos[p], s)
          /\ size' = SizeAfter(p, s)
          /\ cur_pos' = [cur_pos EXCEPT ![p] = total]
          /\ result' = [read |-> << >>, wrote |-> Len(s)]
          /\ UNCHANGED << freed, mode, status, wild >>

(* realloc gives no block; fwrite says nothing of it to ferror *)
WriteENOSPC(p, s) ==
  /\ Opened(p) /\ "WRITE" \in mode[p] /\ ~freed
  /\ cur_pos[p] + Len(s) > max_size
  /\ result' = [read |-> << >>, wrote |-> -1]
  /\ UNCHANGED << file, cur_pos, mode, status, wild >>

(* fwrite to a FILE that was not opened for writing: an error, which is not *)
(* the file's                                                               *)
WriteRefused(p) ==
  /\ Opened(p) /\ "WRITE" \notin mode[p]
  /\ status' = [status EXCEPT ![p] = @ \union {"ERR"}]
  /\ result' = None
  /\ UNCHANGED << file, cur_pos, mode, wild >>

clearerr(p) ==
  /\ Opened(p)
  /\ status' = [status EXCEPT ![p] = {}]
  /\ UNCHANGED << file, cur_pos, mode, result, wild >>

(* fs_remove: the block is freed while handles are open on it.  The entry   *)
(* is gone, so that nobody opens or removes the file again.                 *)
remove ==
  /\ ~freed /\ ~wild
  /\ freed' = TRUE
  /\ UNCHANGED << data, size, handles, wild >>

Wild == wild /\ UNCHANGED vars

-----------------------------------------------------------------------------
Offsets == -MaxIO .. MaxPos
Whences == {"SEEK_SET", "SEEK_CUR", "SEEK_END"}
Writes == UNION { [1 .. n -> Bytes] : n \in 0 .. MaxIO }

Open(p) == \E flags \in {{}, {"WRITE"}} : fopen(p, flags)
Seek(p) == \E o \in Offsets, w \in Whences : fseek(p, o, w)
Read(p) == \E n \in 0 .. MaxIO : fread(p, n) \/ fgets(p, n + 1)
Write(p) == \E s \in Writes : fwrite(p, s) \/ WriteENOSPC(p, s)

Other ==
  \E p \in Programs :
    Open(p) \/ fclose(p) \/ Seek(p) \/ Write(p) \/ WriteRefused(p) \/ clearerr(p)

(* Reading behind the end, and removing a file that is open, lead out of    *)
(* the file's memory.  BehindSpec does the one, RemovedSpec the other, and  *)
(* CarefulSpec neither.                                                     *)
ReadAny == \E p \in Programs : Read(p)
ReadInside == \E p \in Programs : cur_pos[p] <= size /\ Read(p)
RemoveClosed == (\A p \in Programs : cur_pos[p] = Closed) /\ remove

BehindSpec == Init /\ [][Other \/ ReadAny \/ RemoveClosed \/ Wild]_vars
RemovedSpec == Init /\ [][Other \/ ReadInside \/ remove \/ Wild]_vars
CarefulSpec == Init /\ [][Other \/ ReadInside \/ RemoveClosed]_vars

-----------------------------------------------------------------------------
TypeOK ==
  /\ data \in Seq(Bytes \union {Unwritten}) /\ size \in 0 .. max_size
  /\ freed \in BOOLEAN /\ wild \in BOOLEAN
  /\ cur_pos \in [Programs -> Int]
  /\ mode \in [Programs -> SUBSET {"WRITE"}]
  /\ status \in [Programs -> SUBSET {"EOF", "ERR"}]
  /\ \A p \in Programs : cur_pos[p] = Closed => mode[p] = {} /\ status[p] = {}

(* The block doubles or grows to what is asked, so that it is never twice   *)
(* as large as the file, whatever is written where (fsmem.c:352).           *)
CapacityBounded == TypeOK /\ (size > 0 => max_size < 2 * size)

(* The handles of several programs implement one file: what one writes the  *)
(* others read, at their own positions; a failing realloc leaves the file   *)
(* as it was; a line ends at its newline, and the block's room beyond the   *)
(* file is never read.                                                      *)
Promise == INSTANCE WritableFile WITH
  contents <- SubSeq(data, 1, size), pos <- cur_pos
PromiseSpec == Promise!Spec

(* fread reports the end of the file as the program's feof needs it: a read *)
(* that got less than it asked has set STATUS_EOF (file.c:139).             *)
EndIsReported ==
  [][\A p \in Programs :
       (\E n \in 1 .. MaxIO : fread(p, n) /\ Length(p, n) = 0)
         => "EOF" \in status'[p]]_vars

(* No read or write leaves the file's memory *)
StaysInside == ~wild
=============================================================================
