------------------------------- MODULE TxView -------------------------------
(***************************************************************************)
(* A file that is viewed, and the growing array that has its lines.         *)
(*                                                                          *)
(* src/dynarr.c: the descriptor in front of the elements has their number   *)
(* and how many there is room for.  Whoever resizes it may get no memory,   *)
(* and cannot see from the result of dynarr_push or dynarr_pop that nothing *)
(* was done.                                                                *)
(*                                                                          *)
(* src/ui/fileview.c reads all of a file and cuts it into lines             *)
(* (gen_line_spans), pushed onto the array one by one; a line ends with     *)
(* \r\n, \r or \n and its span includes them.  src/tui/txview.c shows it as *)
(* text or hex: keys scroll over it, and the screen is drawn again when     *)
(* something changed.  The rows of the text mode are written one behind the *)
(* other through one pointer.                                               *)
(***************************************************************************)
EXTENDS Integers, Sequences, SequencesExt

CONSTANTS
  Items, Junk,    (* elements, and what realloc's new memory holds          *)
  MaxElem         (* bound: elements                                        *)

ASSUME DynArrAssumption == Junk \notin Items /\ MaxElem \in Nat

VARIABLES
  da,      (* nelem, and the memory of max_elem elements                    *)
  pushed   (* history: the elements that were pushed and not popped         *)

dynVars == << da, pushed >>

max_elem(a) == Len(a.mem)
Empty == [nelem |-> 0, mem |-> << >>]

dynarr_resize(a, elem) ==
  [nelem |-> elem, mem |-> [i \in 1 .. elem |-> IF i <= max_elem(a) THEN a.mem[i] ELSE Junk]]

(* "room" is that realloc gives the memory, if it is asked *)
dynarr_push(a, item, room) ==
  LET newsz == IF max_elem(a) = 0 THEN 1 ELSE 2 * max_elem(a)
      grown == IF a.nelem < max_elem(a) THEN a ELSE [dynarr_resize(a, newsz) EXCEPT !.nelem = a.nelem]
  IN  IF a.nelem >= max_elem(a) /\ ~room THEN a
      ELSE [nelem |-> grown.nelem + 1, mem |-> [grown.mem EXCEPT ![grown.nelem + 1] = item]]

Shrinks(a) == a.nelem <= max_elem(a) \div 3

dynarr_pop(a, room) ==
  IF a.nelem = 0 \/ (Shrinks(a) /\ ~room) THEN a
  ELSE LET kept == IF Shrinks(a) THEN dynarr_resize(a, max_elem(a) \div 2) ELSE a
       IN  [kept EXCEPT !.nelem = a.nelem - 1]

DynInit == da = Empty /\ pushed = << >>

Push(item, room) ==
  /\ da.nelem < MaxElem
  /\ da' = dynarr_push(da, item, room)
  /\ pushed' = IF da'.nelem > da.nelem THEN Append(pushed, item) ELSE pushed
Pop(room) ==
  /\ da.nelem > 0
  /\ da' = dynarr_pop(da, room)
  /\ pushed' = IF da'.nelem < da.nelem THEN SubSeq(pushed, 1, Len(pushed) - 1) ELSE pushed
Clear ==
  /\ da' = dynarr_resize(da, 0)
  /\ pushed' = << >>

DynNext ==
  \/ \E item \in Items, room \in BOOLEAN : Push(item, room)
  \/ \E room \in BOOLEAN : Pop(room)
  \/ Clear

-----------------------------------------------------------------------------
DynTypeOK == da.nelem \in 0 .. max_elem(da) /\ da.mem \in Seq(Items \union {Junk})

(* The array holds the elements pushed and not popped, in their order, over *)
(* every growing and shrinking, and when there was no memory for one.       *)
DynRight == DynTypeOK /\ pushed = SubSeq(da.mem, 1, da.nelem)

-----------------------------------------------------------------------------
CONSTANTS
  Texts,    (* the contents of files: sequences of bytes, with "cr" and "lf" *)
  Beyond,   (* what may be in memory just behind the file's                 *)
  TxCols, TxRows, HexBytes    (* NCOLS, VIS_LINES, HEX_BYTES_PER_LINE        *)

ASSUME TxAssumption == {TxCols, TxRows, HexBytes} \subseteq Nat \ {0}

VARIABLES
  text, fvdata, beyond,    (* the file, the buffer, the byte behind it      *)
  fv,             (* "closed", "scanning", "open", "failed" or "fault"      *)
  count, ptr,     (* the loop's count, and its place in fvdata, from 0      *)
  start, size,    (* the span being read begins there; what is left         *)
  lines,          (* the array of spans                                     *)
  tx,             (* the viewer is open                                     *)
  mode, scroll_x, scroll_y, max_line_len,
  txdirty,
  picture         (* what was drawn last                                    *)

viewVars == << text, fvdata, beyond, fv, count, ptr, start, size, lines >>

ViewInit(texts, behind) ==
  /\ text \in texts /\ beyond \in behind
  /\ fv = "closed" /\ fvdata = << >>
  /\ count = 0 /\ ptr = 0 /\ start = 0 /\ size = Len(text)
  /\ lines = Empty

(* The file is read with one fread of its size, which divides by it: 0 is a *)
(* division by zero (file.c:142).  Nobody looks at how much was got; the    *)
(* rest of the buffer is what malloc gave.                                  *)
fv_open(room, got) ==
  /\ fv = "closed"
  /\ fv' = IF ~room THEN "failed" ELSE IF text = << >> THEN "fault" ELSE "scanning"
  /\ fvdata' = [i \in DOMAIN text |-> IF i <= got THEN text[i] ELSE Junk]
  /\ UNCHANGED << text, beyond, count, ptr, start, size, lines >>

Byte(at) == IF at < Len(fvdata) THEN fvdata[at + 1] ELSE beyond
Span(from, len) == [start |-> from, len |-> len]

EndLength(at) == IF Byte(at) = "cr" /\ Byte(at + 1) = "lf" THEN 2 ELSE 1

(* One turn of the loop of gen_line_spans *)
Scan(room) ==
  /\ fv = "scanning" /\ count < Len(text)
  /\ LET len == EndLength(ptr) IN
       /\ count' = count + len /\ ptr' = ptr + len
       /\ IF Byte(ptr) \in {"cr", "lf"}
          THEN /\ lines' = dynarr_push(lines, Span(start, ptr' - start), room)
               /\ start' = ptr' /\ size' = size - (ptr' - start)
          ELSE UNCHANGED << lines, start, size >>
  /\ UNCHANGED << text, fvdata, beyond, fv >>

LastLine(room) ==
  /\ fv = "scanning" /\ count >= Len(text)
  /\ lines' = IF size = 0 THEN lines ELSE dynarr_push(lines, Span(start, size), room)
  /\ fv' = "open"
  /\ UNCHANGED << text, fvdata, beyond, count, ptr, start, size >>

(* A byte of 0 in the file makes it a binary one; 0xff is no char's value *)
fv_type == IF "nul" \in ToSet(fvdata) THEN "hex" ELSE "text"

Opens == \E room \in BOOLEAN, got \in {Len(text) \div 2, Len(text)} : fv_open(room, got)
ViewNext == Opens \/ Scan(TRUE) \/ LastLine(TRUE)
(* There may be no memory for a line either, and then it is not seen: the   *)
(* test is for a null that dynarr_push does not return.                     *)
ViewShort == Opens \/ \E room \in BOOLEAN : Scan(room) \/ LastLine(room)

-----------------------------------------------------------------------------
ViewTypeOK ==
  /\ fv \in {"closed", "scanning", "open", "failed", "fault"}
  /\ count \in Nat /\ ptr \in Nat /\ start <= ptr

Spans == SubSeq(lines.mem, 1, lines.nelem)
EndsLine(at) ==
  Byte(at) = "lf" \/ (Byte(at) = "cr" /\ (at + 1 = Len(text) \/ Byte(at + 1) # "lf"))

(* The spans are the buffer, cut exactly behind each end of a line: nothing *)
(* is shown twice or left out.                                              *)
ViewRight ==
  /\ ViewTypeOK
  /\ fv = "open" =>
       /\ \A k \in DOMAIN Spans :
            LET next == Spans[k].start + Spans[k].len IN
            /\ Spans[k].start = IF k = 1 THEN 0 ELSE Spans[k - 1].start + Spans[k - 1].len
            /\ next <= Len(text) /\ Spans[k].len > 0
            /\ \A at \in Spans[k].start .. next - 1 : EndsLine(at) => at = next - 1
            /\ next < Len(text) => EndsLine(next - 1)
       /\ Spans # << >> /\ Spans[Len(Spans)].start + Spans[Len(Spans)].len = Len(text)

(* An empty file can be viewed *)
EmptyOpens == fv # "fault"

(* What is viewed is the file *)
FileRead == fv = "open" => fvdata = text

-----------------------------------------------------------------------------
txVars == << tx, mode, scroll_x, scroll_y, max_line_len, txdirty, picture >>
Blank == " "
NoPicture == << >>

TxInit ==
  /\ tx = FALSE /\ mode = "text" /\ scroll_x = 0 /\ scroll_y = 0 /\ max_line_len = 0
  /\ txdirty = FALSE /\ picture = NoPicture

num_lines == lines.nelem
hex_lines == (Len(text) + HexBytes - 1) \div HexBytes

txview_open ==
  /\ fv = "open" /\ ~tx
  /\ tx' = TRUE /\ mode' = fv_type /\ txdirty' = TRUE
  /\ scroll_x' = 0 /\ scroll_y' = 0
  /\ max_line_len' = FoldLeft(LAMBDA m, s : IF s.len > m THEN s.len ELSE m, 0, Spans)
  /\ UNCHANGED << viewVars, picture >>

(* A position, brought between 0 and the last one, which may be below 0 *)
Clamp(new, last) == LET down == IF new > last THEN last ELSE new IN IF down < 0 THEN 0 ELSE down

ScrollTo(x, y) ==
  /\ scroll_x' = x /\ scroll_y' = y
  /\ txdirty' = (txdirty \/ x # scroll_x \/ y # scroll_y)

scroll_text(dx, dy) ==
  ScrollTo(Clamp(scroll_x + dx, max_line_len - TxCols), Clamp(scroll_y + dy, num_lines - TxRows))
scroll_hex(dy) == ScrollTo(scroll_x, Clamp(scroll_y + dy, hex_lines - TxRows))
SCROLL(dx, dy) == IF mode = "text" THEN scroll_text(dx, dy) ELSE scroll_hex(dy)

Far == 1000    (* INT_MAX >> 2 *)
TxKeys == {"TAB", "DOWN", "UP", "LEFT", "RIGHT", "PGDN", "PGUP", "HOME", "END"}

txview_keypress(c) ==
  /\ tx
  /\ CASE c = "TAB"   -> scroll_x' = 0 /\ scroll_y' = 0 /\ txdirty' = TRUE
       [] c = "DOWN"  -> SCROLL(0, 1)
       [] c = "UP"    -> SCROLL(0, -1)
       [] c = "LEFT"  -> SCROLL(-1, 0)
       [] c = "RIGHT" -> SCROLL(1, 0)
       [] c = "PGDN"  -> SCROLL(0, TxRows + 1)
       [] c = "PGUP"  -> SCROLL(0, -(TxRows + 1))
       [] c = "HOME"  -> IF mode = "text" THEN scroll_text(-scroll_x, 0) ELSE scroll_hex(-scroll_y)
       [] c = "END"   -> IF mode = "text" THEN scroll_text(Far, 0) ELSE scroll_hex(Far)
  /\ mode' = IF c # "TAB" THEN mode ELSE IF mode = "text" THEN "hex" ELSE "text"
  /\ UNCHANGED << viewVars, tx, max_line_len, picture >>

-----------------------------------------------------------------------------
TabStop(x) == 4 * ((x + 4) \div 4)    (* for columns below 252: the mask has 8 bits *)
Blanks(n) == [k \in 1 .. n |-> Blank]

(* One byte of a line: s.x is its column in the line, s.out what is written *)
DrawByte(s, c) ==
  IF s.over \/ s.x - scroll_x >= TxCols THEN [s EXCEPT !.over = TRUE]
  ELSE CASE c \in {"cr", "lf"} -> s
         [] c = "tab" -> LET first == IF s.x < scroll_x THEN scroll_x ELSE s.x IN
                         [s EXCEPT !.x = TabStop(s.x), !.out = @ \o Blanks(TabStop(s.x) - first)]
         [] OTHER     -> [s EXCEPT !.x = @ + 1,
                                   !.out = IF s.x >= scroll_x THEN Append(@, c) ELSE @]

Bytes(k) == SubSeq(fvdata, Spans[k].start + 1, Spans[k].start + Spans[k].len)
TextRow(k) ==
  LET cells == IF k > num_lines THEN << >>
               ELSE FoldLeft(DrawByte, [x |-> 0, out |-> << >>, over |-> FALSE], Bytes(k)).out
  IN  cells \o Blanks(TxCols - Len(cells))
draw_text ==
  SubSeq(FlattenSeq([i \in 1 .. TxRows |-> TextRow(scroll_y + i)]), 1, TxCols * TxRows)

HexRow(k) == SubSeq(fvdata, (k - 1) * HexBytes + 1, IF k * HexBytes < Len(text) THEN k * HexBytes ELSE Len(text))
draw_hex == [i \in 1 .. TxRows |-> HexRow(scroll_y + i)]

txview_draw ==
  /\ tx /\ txdirty
  /\ txdirty' = FALSE
  /\ picture' = IF mode = "text" THEN draw_text ELSE draw_hex
  /\ UNCHANGED << viewVars, tx, mode, scroll_x, scroll_y, max_line_len >>

TxNext == txview_open \/ txview_draw \/ \E c \in TxKeys : txview_keypress(c)

-----------------------------------------------------------------------------
(* A line as it would be on a screen without edges *)
Wide(k) ==
  FoldLeft(LAMBDA s, c : IF c \in {"cr", "lf"} THEN s
                         ELSE IF c = "tab" THEN s \o Blanks(4 - (Len(s) % 4)) ELSE Append(s, c),
           << >>, Bytes(k))
Shown(s) == LET seen == SubSeq(s, scroll_x + 1, IF Len(s) < scroll_x + TxCols THEN Len(s) ELSE scroll_x + TxCols)
             IN  seen \o Blanks(TxCols - Len(seen))
Faithful ==
  picture = FlattenSeq([i \in 1 .. TxRows |->
              Shown(IF scroll_y + i > num_lines THEN << >> ELSE Wide(scroll_y + i))])

(* Tabs end at multiples of four, the edge of the screen at any column *)
EdgeAtTabStop == (scroll_x + TxCols) % 4 = 0 \/ "tab" \notin ToSet(fvdata)

(* The lines are the buffer's, and after every draw the screen is the part  *)
(* of it that the scroll position stands for, whatever keys came between    *)
(* two draws: the window of every line in text mode, the bytes in hex mode; *)
(* and the position never leaves the file.                                  *)
TxRight ==
  /\ ViewRight
  /\ tx =>
       /\ scroll_x >= 0 /\ scroll_y >= 0
       /\ scroll_y = 0 \/ scroll_y <= (IF mode = "text" THEN num_lines ELSE hex_lines) - TxRows
       /\ ~txdirty /\ mode = "text" /\ EdgeAtTabStop => Faithful
       /\ ~txdirty /\ mode = "hex" => FlattenSeq(picture) = SubSeq(fvdata, scroll_y * HexBytes + 1,
            IF Len(text) < (scroll_y + TxRows) * HexBytes THEN Len(text) ELSE (scroll_y + TxRows) * HexBytes)

(* A row is as long as the screen is wide, so that the next one begins at   *)
(* its left edge.                                                           *)
RowsAligned == tx /\ mode = "text" => \A i \in 1 .. TxRows : Len(TextRow(scroll_y + i)) = TxCols
=============================================================================
