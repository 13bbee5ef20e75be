---------------------------- MODULE WritableFile ----------------------------
(***************************************************************************)
(* What a file that can be written promises the programs that hold it open: *)
(* one contents, and a position for each of them.  Reading gives the bytes  *)
(* from the reader's position on, as many as there are; reading a line      *)
(* stops behind its end; writing puts bytes over those at the writer's      *)
(* position or behind them.  A write that makes the file longer may fail,   *)
(* and then changes nothing.                                                *)
(***************************************************************************)
EXTENDS Integers, Sequences, SequencesExt

CONSTANTS Programs, Bytes, Newline, Unwritten, MaxIO, MaxPos

Closed == -1
None == [read |-> << >>, wrote |-> 0]

VARIABLES
  contents,   (* bytes; Unwritten where a write began behind the end        *)
  pos,        (* of each program, or Closed                                 *)
  result      (* what the last call returned                                 *)

vars == << contents, pos, result >>

Init ==
  /\ contents = << >>
  /\ pos = [p \in Programs |-> Closed]
  /\ result = None

Returns(p, r, to) ==
  /\ result' = r
  /\ pos' = [pos EXCEPT ![p] = to]

Open(p)  == pos[p] = Closed /\ Returns(p, None, 0) /\ UNCHANGED contents
Close(p) == pos[p] # Closed /\ Returns(p, None, Closed) /\ UNCHANGED contents

Seek(p) ==
  /\ pos[p] # Closed
  /\ \E to \in 0 .. MaxPos : Returns(p, None, to)
  /\ UNCHANGED contents

(* The n bytes at position at, or those of them that the file has *)
Available(at, n) == SubSeq(contents, at + 1, IF at + n < Len(contents) THEN at + n ELSE Len(contents))

FirstLine(s) ==
  IF Newline \in ToSet(s)
  THEN SubSeq(s, 1, CHOOSE i \in DOMAIN s : s[i] = Newline /\ \A j \in 1 .. i - 1 : s[j] # Newline)
  ELSE s

Gives(p, s) == Returns(p, [read |-> s, wrote |-> 0], pos[p] + Len(s)) /\ UNCHANGED contents
Read(p, n)     == pos[p] # Closed /\ Gives(p, Available(pos[p], n))
ReadLine(p, n) == pos[p] # Closed /\ Gives(p, FirstLine(Available(pos[p], n)))

Overlay(at, s) ==
  [i \in 1 .. (IF at + Len(s) > Len(contents) THEN at + Len(s) ELSE Len(contents)) |->
     IF i \in at + 1 .. at + Len(s) THEN s[i - at]
     ELSE IF i <= Len(contents) THEN contents[i] ELSE Unwritten]

Write(p, s) ==
  /\ pos[p] # Closed
  /\ contents' = Overlay(pos[p], s)
  /\ Returns(p, [read |-> << >>, wrote |-> Len(s)], pos[p] + Len(s))

WriteFails(p, s) ==
  /\ pos[p] # Closed
  /\ pos[p] + Len(s) > Len(contents)
  /\ Returns(p, [read |-> << >>, wrote |-> -1], pos[p])
  /\ UNCHANGED contents

Refused(p) == pos[p] # Closed /\ Returns(p, None, pos[p]) /\ UNCHANGED contents

Next ==
  \E p \in Programs :
    \/ Open(p) \/ Close(p) \/ Seek(p) \/ Refused(p)
    \/ \E n \in 0 .. MaxIO : Read(p, n) \/ ReadLine(p, n)
    \/ \E s \in SeqOf(Bytes, MaxIO) : Write(p, s) \/ WriteFails(p, s)

Spec == Init /\ [][Next]_vars
=============================================================================
