-------------------------------- MODULE Shell -------------------------------
(***************************************************************************)
(* The text console and the debug shell on it.                              *)
(*                                                                          *)
(* src/contty.c: a window of NROWS rows moves down over VIRT_ROWS rows of   *)
(* video memory as the text scrolls, and back to the top when it reaches    *)
(* the end.  Addresses are of characters; one of them has two bytes.        *)
(*                                                                          *)
(* src/shell.c: its line editor, sh_input: the line in inbuf, the place in  *)
(* it, and what each key sends to the console; what is entered is evaluated *)
(* at the end of the line.  And the evaluation of one line, sh_eval: it is  *)
(* cut into words in a copy of its own, and a command is run with them.  A  *)
(* character of a line to evaluate is a blank or not; the commands' names   *)
(* are sequences of characters, and only that they differ matters.          *)
(***************************************************************************)
EXTENDS Integers, Sequences, SequencesExt

CONSTANTS NCOLS, NROWS, VIRT_ROWS, TAB    (* 80, 25, 200 and 8 *)

ASSUME ConsoleAssumption ==
  /\ NROWS \in Nat \ {0, 1} /\ TAB \in Nat \ {0}
  /\ NCOLS \in Nat \ {0} /\ NCOLS % 2 = 0
  /\ VIRT_ROWS \in Nat /\ VIRT_ROWS >= 2 * NROWS + 1

VARIABLES
  mem, start_line,
  cursor_x, cursor_y,
  scr_on,      (* con_putchar writes to the screen                          *)
  crtc,        (* what the controller was told: [start, cursor], addresses  *)
  terminal,    (* history: the rows as they would be on paper               *)
  spoiled      (* history: rows of the window that were copied last         *)

conVars == << mem, start_line, cursor_x, cursor_y, scr_on, crtc, terminal, spoiled >>

Space == " "
Addr(x, y, line) == (y + line) * NCOLS + x
BlankRow == [x \in 0 .. NCOLS - 1 |-> Space]

ConInit ==
  /\ mem = [a \in 0 .. VIRT_ROWS * NCOLS - 1 |-> Space] /\ start_line = 0
  /\ cursor_x = 0 /\ cursor_y = 0 /\ scr_on = TRUE /\ crtc = [start |-> 0, cursor |-> 0]
  /\ terminal = [y \in 0 .. NROWS - 1 |-> BlankRow] /\ spoiled = 0

-----------------------------------------------------------------------------
(* A call changes c, which has the memory, the window's first row, the      *)
(* cursor, and the paper                                                    *)
Wraps(c) == c.line + 1 > VIRT_ROWS - NROWS

(* memcpy from TEXT_ADDR + start_line * NCOLS, which counts bytes *)
CopiedUp(m, line) ==
  [a \in DOMAIN m |-> IF a < (NROWS - 1) * NCOLS THEN m[a + (line * NCOLS) \div 2] ELSE m[a]]

ClearedRow(m, row) ==
  [a \in DOMAIN m |-> IF a \div NCOLS = row THEN Space ELSE m[a]]

Up(rows) == [y \in DOMAIN rows |-> IF y = NROWS - 1 THEN BlankRow ELSE rows[y + 1]]

scroll(c) ==
  LET line == IF Wraps(c) THEN 0 ELSE c.line + 1
      kept == IF Wraps(c) THEN CopiedUp(c.mem, c.line + 1) ELSE c.mem
  IN  [c EXCEPT !.line = line, !.mem = ClearedRow(kept, line + NROWS - 1),
                !.start = line * NCOLS, !.rows = Up(@),
                !.bad = IF Wraps(c) THEN NROWS - 1 ELSE IF @ = 0 THEN 0 ELSE @ - 1]

linefeed(c) == IF c.y + 1 >= NROWS THEN scroll(c) ELSE [c EXCEPT !.y = @ + 1]

con_putchar_scr(c, ch) ==
  [c EXCEPT !.mem[Addr(c.x, c.y, c.line)] = ch, !.rows[c.y][c.x] = ch]

AdvanceTo(c, x) == IF x >= NCOLS THEN [linefeed(c) EXCEPT !.x = 0] ELSE [c EXCEPT !.x = x]

(* What it makes of the cursor's column, and what one expects *)
TabColumn(x) == (x % TAB) + TAB
NextTabStop(x) == TAB * (x \div TAB + 1)

con_clear(c) ==
  [c EXCEPT !.mem = [a \in DOMAIN @ |-> IF a < NCOLS * NROWS THEN Space ELSE @[a]],
            !.line = 0, !.start = 0, !.x = 0, !.y = 0,
            !.rows = [y \in DOMAIN @ |-> BlankRow], !.bad = 0]

con_putchar(c, ch) ==
  IF ~c.on THEN c ELSE
  CASE ch = "lf"  -> [linefeed(c) EXCEPT !.x = 0]
    [] ch = "cr"  -> [c EXCEPT !.x = 0]
    [] ch = "tab" -> AdvanceTo(c, TabColumn(c.x))
    [] ch = "bs"  -> con_putchar_scr([c EXCEPT !.x = IF @ > 0 THEN @ - 1 ELSE 0], Space)
    [] OTHER      -> AdvanceTo(con_putchar_scr(c, ch), c.x + 1)

(* "clear" stands for con_clear, "on" and "off" for con_scr_enable and      *)
(* con_scr_disable, and a character for con_putchar of it                   *)
ConCall(c, call) ==
  CASE call = "clear"         -> con_clear(c)
    [] call \in {"on", "off"} -> [c EXCEPT !.on = (call = "on")]
    [] OTHER                  -> con_putchar(c, call)
Calls(calls) ==
  LET c0 == [mem |-> mem, line |-> start_line, x |-> cursor_x, y |-> cursor_y, on |-> scr_on,
             start |-> crtc.start, rows |-> terminal, bad |-> spoiled]
      c == FoldLeft(ConCall, c0, calls)
  IN  /\ mem' = c.mem /\ start_line' = c.line /\ cursor_x' = c.x /\ cursor_y' = c.y /\ scr_on' = c.on
      /\ crtc' = [start |-> c.start, cursor |-> Addr(c.x, c.y, c.line)]
      /\ terminal' = c.rows /\ spoiled' = c.bad

-----------------------------------------------------------------------------
Row(y) == [x \in 0 .. NCOLS - 1 |-> mem[Addr(x, y, start_line)]]

(* What the controller shows, from where it was told, is what was written   *)
(* while the screen was on, as often as the window goes down the memory and *)
(* back, but for the rows that were copied when it went back; and the       *)
(* cursor is where the next character goes, inside of the window.           *)
ConRight ==
  /\ start_line \in 0 .. VIRT_ROWS - NROWS
  /\ cursor_x \in 0 .. NCOLS - 1 /\ cursor_y \in 0 .. NROWS - 1
  /\ crtc = [start |-> Addr(0, 0, start_line), cursor |-> Addr(cursor_x, cursor_y, start_line)]
  /\ \A y \in spoiled .. NROWS - 1 : Row(y) = terminal[y]

(* The copied rows too *)
WindowRight == \A y \in 0 .. NROWS - 1 : Row(y) = terminal[y]

(* A tab goes on to the next tab stop, and never back *)
TabsGoOn == \A x \in 0 .. NCOLS - 1 : TabColumn(x) = NextTabStop(x)

-----------------------------------------------------------------------------
CONSTANTS
  Printable,
  INBUF_SIZE,      (* 256 *)
  MaxLines,        (* bound: lines entered *)
  CommandLines,    (* lines that are evaluated                              *)
  MAX_ARGV,        (* 128 *)
  Listings,        (* the directories there are, and the entries of each    *)
  Contents,        (* the files there are, and their bytes                  *)
  MaxTyped         (* bound: keys typed at cat                              *)

Here == << "." >>
ASSUME ShellAssumption ==
  /\ INBUF_SIZE \in Nat \ {0, 1} /\ MaxLines \in Nat /\ MAX_ARGV \in Nat \ {0, 1} /\ MaxTyped \in Nat
  /\ Here \in DOMAIN Listings

VARIABLES
  inbuf, input_len, cursor,
  behind,          (* bytes were written in front of inbuf                  *)
  before, after,   (* history: the line before the cursor and behind it, as *)
                   (* the keys say                                          *)
  entered,         (* history: the last line evaluated, and as it was typed *)
  out              (* what the last key sent to the console                 *)

lineVars == << inbuf, input_len, cursor, behind, before, after, entered, out >>
Prompt == ">"
Zero == "0"
NoLine == [got |-> << >>, typed |-> << >>, n |-> 0]

(* sh_init printed a prompt *)
LineInit ==
  /\ inbuf = [i \in 0 .. INBUF_SIZE - 1 |-> Zero] /\ input_len = 0 /\ cursor = 0
  /\ behind = FALSE
  /\ before = << >> /\ after = << >>
  /\ entered = NoLine /\ out = << Prompt >>

Text == [i \in 1 .. input_len |-> inbuf[i - 1]]

(* '\n', '\r': sh_eval gets the line, and may clear the screen; then there  *)
(* is a new prompt                                                          *)
Enter(clears) ==
  /\ entered.n < MaxLines
  /\ entered' = [got |-> Text, typed |-> before \o after, n |-> entered.n + 1]
  /\ input_len' = 0 /\ cursor' = 0 /\ before' = << >> /\ after' = << >>
  /\ inbuf' = [inbuf EXCEPT ![input_len] = Zero]
  /\ out' = IF clears THEN << "lf", "clear", Prompt >> ELSE << "lf", Prompt >>
  /\ UNCHANGED behind

(* '\b' at the end of the line, and elsewhere *)
BackspaceAtEnd ==
  /\ input_len > 0 /\ cursor = input_len
  /\ input_len' = input_len - 1 /\ cursor' = cursor - 1
  /\ before' = Front(before)
  /\ out' = << "bs" >>
  /\ UNCHANGED << inbuf, behind, after, entered >>
BackspaceInside ==
  /\ input_len > 0 /\ cursor < input_len
  /\ inbuf' = [i \in DOMAIN inbuf |->
       IF i \in cursor - 1 .. input_len - 2 THEN inbuf[i + 1] ELSE inbuf[i]]
  /\ behind' = (behind \/ cursor = 0)
  /\ cursor' = cursor - 1 /\ UNCHANGED input_len
  /\ before' = IF before = << >> THEN << >> ELSE Front(before)
  /\ out' = << "bs" >>
  /\ UNCHANGED << after, entered >>

BugNotMoved(c) == [i \in DOMAIN inbuf |-> IF i = cursor THEN c ELSE inbuf[i]]
WithInserted(c) ==
  [i \in DOMAIN inbuf |-> IF i = cursor THEN c
                          ELSE IF i \in cursor + 1 .. input_len THEN inbuf[i - 1] ELSE inbuf[i]]
TypeChar(c) ==
  /\ input_len < INBUF_SIZE - 1
  /\ inbuf' = WithInserted(c)
  /\ input_len' = input_len + 1 /\ cursor' = cursor + 1
  /\ before' = Append(before, c)
  /\ out' = << c >>
  /\ UNCHANGED << behind, after, entered >>

(* the cursor keys, which do not move the console's cursor *)
GoTo(at) ==
  /\ at \in 0 .. input_len /\ at # cursor
  /\ cursor' = at
  /\ before' = SubSeq(before \o after, 1, at)
  /\ after' = SubSeq(before \o after, at + 1, Len(before \o after))
  /\ out' = << >>
  /\ UNCHANGED << inbuf, input_len, behind, entered >>
MoveCursor == GoTo(cursor - 1) \/ GoTo(cursor + 1) \/ GoTo(0) \/ GoTo(input_len)

LineNext ==
  \/ BackspaceAtEnd \/ MoveCursor
  \/ \E clears \in BOOLEAN : Enter(clears)
  \/ \E c \in Printable : TypeChar(c)
LineAnyKey == LineNext \/ BackspaceInside

-----------------------------------------------------------------------------
VARIABLES
  cmdline, evaluating,  (* the line, and what sh_eval is at                 *)
  place,                (* where tokenize is in it                          *)
  argv, argi,           (* the words, and the one a command is at           *)
  num_done,             (* the arguments listed or printed                  *)
  reading,              (* the directory that is open, or none              *)
  files_open,           (* files opened and not closed                      *)
  told,                 (* what was called or printed                       *)
  result,               (* what the command returned                        *)
  reads_null            (* a word that is not there was compared            *)

wordVars == << cmdline, place, argv >>
loopVars == << argi, num_done, reading, files_open >>
evalVars == << evaluating, wordVars, loopVars, told, result, reads_null >>
Blank_ == " "
NoDir == << >>

EvalInit(commandLines) ==
  /\ cmdline \in commandLines /\ evaluating = "tokenize" /\ place = 1
  /\ argv = << >> /\ argi = 2 /\ num_done = 0 /\ reading = NoDir /\ files_open = 0
  /\ told = << >> /\ result = 0 /\ reads_null = FALSE

(* The first place from one on with a blank, or without one *)
FindPlace(from, blank) ==
  LET places == { i \in from .. Len(cmdline) : (cmdline[i] = Blank_) = blank }
  IN  IF places = {} THEN Len(cmdline) + 1 ELSE CHOOSE i \in places : \A j \in places : i <= j

(* One turn of the loop of tokenize: a word more, if that leaves a place in *)
(* argv for the null pointer                                                *)
tokenize ==
  /\ evaluating = "tokenize"
  /\ LET begin == FindPlace(place, FALSE)
         end == FindPlace(begin + 1, TRUE)
     IN  IF begin > Len(cmdline) THEN evaluating' = "dispatch" /\ UNCHANGED << place, argv >>
         ELSE /\ argv' = IF Len(argv) < MAX_ARGV - 1 THEN Append(argv, SubSeq(cmdline, begin, end - 1)) ELSE argv
              /\ place' = end + 1
              /\ evaluating' = IF end > Len(cmdline) THEN "dispatch" ELSE "tokenize"
  /\ UNCHANGED << cmdline, loopVars, told, result, reads_null >>

Returns_(res) == evaluating' = "done" /\ result' = res
Tells(what) == told' = told \o what
Commands == {"start", "cd", "mkdir", "pwd", "ls", "cat", "echo", "clear", "run", "reboot", "memdbg", "vbe", "help"}

(* sh_eval: the table is searched, with a null pointer when there is no word *)
sh_eval ==
  /\ evaluating = "dispatch"
  /\ reads_null' = (argv = << >>)
  /\ IF \E c \in Commands : argv # << >> /\ argv[1] = << c >>
     THEN evaluating' = argv[1][1] /\ UNCHANGED << told, result >>
     ELSE Returns_(-1) /\ Tells(IF argv = << >> THEN << >> ELSE << "unknown" >>)
  /\ UNCHANGED << wordVars, loopVars >>

(* Commands that make one call, or say how they are used                    *)
CallOnce(enough, what, res) ==
  /\ IF enough THEN Tells(what) /\ Returns_(res) ELSE Tells(<< "usage" >>) /\ Returns_(-1)
  /\ UNCHANGED << wordVars, loopVars >>
Word(k) == IF k <= Len(argv) THEN argv[k] ELSE << >>
cmd_start ==
  /\ evaluating = "start" /\ UNCHANGED reads_null
  /\ CallOnce(Word(2) \in { << >>, << "text" >> }, << evaluating >>, 0)
cmd_chdir_mkdir ==
  /\ evaluating \in {"cd", "mkdir"} /\ UNCHANGED reads_null
  /\ \E res \in {0, -1} : CallOnce(Len(argv) = 2, Word(2), res)
cmd_run ==
  /\ evaluating = "run" /\ UNCHANGED reads_null
  /\ \E res \in {0, -1} : CallOnce(Len(argv) > 1, Word(2), res)
cmd_plain ==
  /\ evaluating \in {"pwd", "clear", "reboot", "help"} /\ UNCHANGED reads_null
  /\ CallOnce(TRUE, << evaluating >>, 0)
(* These two compare argv[1], a null pointer if there is none               *)
cmd_memdbg ==
  /\ evaluating = "memdbg" /\ reads_null' = (Len(argv) = 1)
  /\ CallOnce(Word(2) = << "pages" >>, Word(2), 0)
cmd_vbe ==
  /\ evaluating = "vbe" /\ reads_null' = (Len(argv) = 1)
  /\ \/ Word(2) = << "edid" >> /\ \E res \in {0, -1} : CallOnce(TRUE, Word(2), res)
     \/ Word(2) = << "help" >> /\ CallOnce(TRUE, << "usage" >>, 0)
     \/ Word(2) \notin { << "edid" >>, << "help" >> } /\ CallOnce(FALSE, << >>, 0)

(* cmd_list: one argument, an option or a directory; a wrong one is the end *)
IsOption(w) == w[1] = "-"
cmd_list ==
  /\ evaluating = "ls" /\ reading = NoDir /\ argi <= Len(argv)
  /\ LET w == argv[argi] IN
       \/ IsOption(w) /\ w = << "-", "l" >> /\ argi' = argi + 1 /\ UNCHANGED << told, evaluating, result, reading >>
       \/ IsOption(w) /\ w # << "-", "l" >> /\ Tells(<< "usage" >>) /\ Returns_(-1) /\ UNCHANGED << argi, reading >>
       \/ ~IsOption(w) /\ w \in DOMAIN Listings /\ reading' = w /\ UNCHANGED << told, evaluating, result, argi >>
       \/ /\ ~IsOption(w) /\ w \notin DOMAIN Listings /\ Tells(<< "failed" >>) /\ Returns_(-1)
          /\ UNCHANGED << argi, reading >>
  /\ UNCHANGED << wordVars, num_done, files_open, reads_null >>
(* without one it is the current directory, if that can be opened, and -1   *)
(* is returned                                                              *)
ListHere ==
  /\ evaluating = "ls" /\ reading = NoDir /\ argi > Len(argv)
  /\ \/ num_done = 0 /\ reading' = Here /\ UNCHANGED << evaluating, result, told >>
     \/ num_done = 0 /\ Tells(<< "failed" >>) /\ Returns_(-1) /\ UNCHANGED reading
     \/ num_done > 0 /\ Returns_(0) /\ UNCHANGED << reading, told >>
  /\ UNCHANGED << wordVars, argi, num_done, files_open, reads_null >>
(* list_dir and closedir *)
list_dir ==
  /\ evaluating = "ls" /\ reading # NoDir
  /\ Tells(Listings[reading]) /\ reading' = NoDir
  /\ IF argi > Len(argv) THEN Returns_(-1) /\ UNCHANGED << argi, num_done >>
     ELSE argi' = argi + 1 /\ num_done' = num_done + 1 /\ UNCHANGED << evaluating, result >>
  /\ UNCHANGED << wordVars, files_open, reads_null >>

(* cmd_cat: one file, which is not closed; without any, keys until Ctrl-D   *)
cmd_cat ==
  /\ evaluating = "cat" /\ argi <= Len(argv)
  /\ IF argv[argi] \in DOMAIN Contents
     THEN /\ Tells(Contents[argv[argi]]) /\ files_open' = files_open + 1
          /\ argi' = argi + 1 /\ num_done' = num_done + 1 /\ UNCHANGED << evaluating, result >>
     ELSE Tells(<< "failed" >>) /\ Returns_(-1) /\ UNCHANGED << argi, num_done, files_open >>
  /\ UNCHANGED << wordVars, reading, reads_null >>
CatEnds ==
  /\ evaluating = "cat" /\ argi > Len(argv)     (* no file is left, or Ctrl-D is pressed *)
  /\ Returns_(0)
  /\ UNCHANGED << wordVars, loopVars, told, reads_null >>
CatKey ==
  /\ evaluating = "cat" /\ Len(argv) = 1 /\ Len(told) < MaxTyped
  /\ \E c \in Printable : Tells(<< c >>)
  /\ UNCHANGED << evaluating, wordVars, loopVars, result, reads_null >>

cmd_echo ==
  /\ evaluating = "echo"
  /\ IF argi > Len(argv) THEN Returns_(0) /\ UNCHANGED << told, argi >>
     ELSE /\ Tells(argv[argi] \o << IF argi < Len(argv) THEN Blank_ ELSE "lf" >>)
          /\ argi' = argi + 1 /\ UNCHANGED << evaluating, result >>
  /\ UNCHANGED << wordVars, num_done, reading, files_open, reads_null >>

EvalNext ==
  \/ tokenize \/ sh_eval \/ cmd_start \/ cmd_chdir_mkdir \/ cmd_run \/ cmd_plain
  \/ cmd_memdbg \/ cmd_vbe \/ cmd_list \/ ListHere \/ list_dir \/ cmd_cat \/ CatEnds \/ CatKey \/ cmd_echo

-----------------------------------------------------------------------------
(* What is evaluated is what was typed, with characters inserted anywhere   *)
(* and taken away at the end; the buffer has room for the final zero.       *)
LineRight ==
  /\ Text = before \o after /\ cursor = Len(before)
  /\ input_len < INBUF_SIZE /\ ~behind
  /\ entered.got = entered.typed

(* The words of the line: its longest runs without blanks, in their order   *)
Runs_ ==
  { r \in (DOMAIN cmdline) \X (DOMAIN cmdline) :
      /\ r[1] <= r[2] /\ \A i \in r[1] .. r[2] : cmdline[i] # Blank_
      /\ (r[1] = 1 \/ cmdline[r[1] - 1] = Blank_) /\ (r[2] = Len(cmdline) \/ cmdline[r[2] + 1] = Blank_) }
TheWords ==
  LET sorted == SetToSortSeq(Runs_, LAMBDA r, s : r[1] < s[1])
  IN  [k \in 1 .. Min({Len(sorted), MAX_ARGV - 1}) |-> SubSeq(cmdline, sorted[k][1], sorted[k][2])]
Args == Tail(argv)

(* What each word of ls and cat adds to what is printed, up to the first    *)
(* that stops the command                                                   *)
Upto_(stops(_)) == SelectInSeq(Args, stops)
Before_(stops(_)) == IF Upto_(stops) = 0 THEN Args ELSE SubSeq(Args, 1, Upto_(stops) - 1)
ListStops(w) == IF IsOption(w) THEN w # << "-", "l" >> ELSE w \notin DOMAIN Listings
CatStops(w) == w \notin DOMAIN Contents
Listed ==
  LET good == SelectSeq(Before_(ListStops), LAMBDA w : ~IsOption(w))
      all == FlattenSeq([k \in DOMAIN good |-> Listings[good[k]]])
  IN  IF Upto_(ListStops) # 0
      THEN all \o (IF IsOption(Args[Upto_(ListStops)]) THEN << "usage" >> ELSE << "failed" >>)
      ELSE IF good = << >> THEN Listings[Here] ELSE all
Printed_ ==
  LET good == Before_(CatStops)
  IN  FlattenSeq([k \in DOMAIN good |-> Contents[good[k]]])
        \o (IF Upto_(CatStops) # 0 THEN << "failed" >> ELSE << >>)

(* A line is cut into its words; ls and cat print what their arguments say  *)
(* up to the first wrong one, and leave no directory open.                  *)
EvalRight ==
  evaluating = "done" =>
    /\ argv = TheWords /\ reading = NoDir
    /\ argv # << >> /\ argv[1] = << "ls" >> =>
         told = Listed \/ (told = << "failed" >> /\ \A w \in ToSet(Args) : IsOption(w))
    /\ Len(argv) > 1 /\ argv[1] = << "cat" >> => told = Printed_

(* Files are closed, and null pointers not read *)
FilesClosed == evaluating = "done" => files_open = 0
WordsThere == ~reads_null
=============================================================================
