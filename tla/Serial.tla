------------------------------- MODULE Serial -------------------------------
(***************************************************************************)
(* The serial ports (src/serial.c): an interrupt for either UART makes      *)
(* recv_intr empty both into the ring of each port, while the main thread   *)
(* opens and closes ports, and takes bytes from a ring with interrupts      *)
(* enabled, one by one or until there is a line.                            *)
(*                                                                          *)
(* The bytes sent to a port are numbered; some of them end a line.          *)
(***************************************************************************)
EXTENDS Integers, Sequences, SequencesExt

CONSTANTS
  RING,        (* places of a ring: 256                                     *)
  LINEBUF,     (* bytes of linebuf: 512                                     *)
  Ends,        (* the numbers of the bytes that are \r or \n                *)
  MaxSent      (* bound: bytes sent to the ports                            *)

ASSUME SerialAssumption ==
  /\ RING \in Nat \ {0, 1} /\ LINEBUF \in Nat \ {0} /\ MaxSent \in Nat
  /\ Ends \subseteq 1 .. MaxSent

Ports == {0, 1}
BNEXT(x) == (x + 1) % RING

VARIABLES
  port,        (* inbuf, ridx, widx, and whether base is set                *)
  uart,        (* what was received and not read; whether it interrupts;    *)
               (* whether the PIC has its request                           *)
  num_open,
  linebuf,     (* its first widx bytes; one buffer for both ports           *)
  pc,          (* the main thread: "client", "opening", "getc", "advance"   *)
  fd, reg, c,  (* the port it uses, and its registers                       *)
  forline,     (* the byte is for ser_getline                               *)
  sent, first, got, overran,   (* history: per port, the bytes sent to it,  *)
               (* how many before it was opened, and what it gave since     *)
  overrunLine, (* history: the zero was written behind linebuf              *)
  lineCut,     (* history: a line was longer than the caller's buffer       *)
  forlines, gotlines,   (* history: what ser_getline took, and returned     *)
  panicked

portVars == << port, uart, num_open >>
callVars == << linebuf, pc, fd, reg, c, forline >>
lineHistory == << forlines, gotlines, overrunLine, lineCut >>
sentVars == << sent, first, got, overran, lineHistory, panicked >>
serialVars == << portVars, callVars, sentVars >>

Closed == [buf |-> [i \in 0 .. RING - 1 |-> 0], r |-> 0, w |-> 0, open |-> FALSE]
SerialInit ==
  /\ port = [p \in Ports |-> Closed]
  /\ uart = [p \in Ports |-> [fifo |-> << >>, enabled |-> FALSE, irq |-> FALSE]]
  /\ num_open = 0
  /\ linebuf = << >> /\ pc = "client" /\ fd = 0 /\ reg = 0 /\ c = 0 /\ forline = FALSE
  /\ sent = [p \in Ports |-> 0] /\ first = sent /\ got = [p \in Ports |-> << >>]
  /\ overran = [p \in Ports |-> FALSE] /\ overrunLine = FALSE /\ lineCut = FALSE
  /\ forlines = << >> /\ gotlines = << >> /\ panicked = FALSE

-----------------------------------------------------------------------------
(* The other end of the line sends a byte: the line to the PIC rises, if it *)
(* was not high already                                                     *)
Receive(p) ==
  /\ sent[0] + sent[1] < MaxSent
  /\ sent' = [sent EXCEPT ![p] = @ + 1]
  /\ uart' = [uart EXCEPT ![p].fifo = Append(@, sent[p] + 1),
                          ![p].irq = @ \/ (uart[p].enabled /\ uart[p].fifo = << >>)]
  /\ UNCHANGED << port, num_open, callVars, first, got, overran, lineHistory, panicked >>

(* one byte of recv_intr *)
BugStored(s, byte) ==
  [s EXCEPT !.buf[s.w] = byte, !.w = BNEXT(@), !.r = IF s.w = @ THEN BNEXT(@) ELSE @]
Stored(s, byte) ==
  [s EXCEPT !.buf[s.w] = byte, !.w = BNEXT(@), !.r = IF BNEXT(s.w) = @ THEN BNEXT(@) ELSE @]
(* and all that a UART has *)
StoreAll(s, bytes) ==
  LET after[k \in 0 .. Len(bytes)] == IF k = 0 THEN s ELSE Stored(after[k - 1], bytes[k])
  IN  after[Len(bytes)]
Unread(s) == (s.w - s.r) % RING

Interrupt(p) == uart[p].enabled /\ uart[p].irq
Ready(p) == IF uart[p].enabled THEN uart[p].fifo ELSE << >>     (* IID_PENDING *)
recv_intr ==
  /\ \E p \in Ports : Interrupt(p)
  /\ port' = [p \in Ports |-> StoreAll(port[p], Ready(p))]
  /\ overran' = [p \in Ports |-> overran[p] \/ Unread(port[p]) + Len(Ready(p)) >= RING]
  /\ \E p \in Ports : Interrupt(p) /\
       uart' = [q \in Ports |-> [uart[q] EXCEPT !.fifo = IF uart[q].enabled THEN << >> ELSE @,
                                              !.irq = IF q = p THEN FALSE ELSE @]]
  /\ UNCHANGED << num_open, callVars, sent, first, got, lineHistory, panicked >>

(* have_recv panics at a byte that was not received well *)
ReceiveError ==
  /\ \E p \in Ports : Interrupt(p)
  /\ panicked' = TRUE
  /\ UNCHANGED << portVars, callVars, sent, first, got, overran, lineHistory >>

-----------------------------------------------------------------------------
(* ser_open clears the ring; then the UART is programmed, which forgets     *)
(* what it has                                                              *)
ser_open(p) ==
  /\ pc = "client" /\ ~port[p].open
  /\ port' = [port EXCEPT ![p] = Closed]
  /\ pc' = "opening" /\ fd' = p
  /\ got' = [got EXCEPT ![p] = << >>] /\ overran' = [overran EXCEPT ![p] = FALSE]
  /\ UNCHANGED << uart, num_open, linebuf, reg, c, forline, sent, first, lineHistory, panicked >>

Programmed(u) == [u EXCEPT !.fifo = << >>, !.enabled = TRUE]
SetUp ==
  /\ pc = "opening"
  /\ uart' = [uart EXCEPT ![fd] = Programmed(@)]
  /\ port' = [port EXCEPT ![fd].open = TRUE]
  /\ num_open' = num_open + 1
  /\ first' = [first EXCEPT ![fd] = sent[fd]]
  /\ pc' = "client"
  /\ UNCHANGED << linebuf, fd, reg, c, forline, sent, got, overran, lineHistory, panicked >>

ser_close(p) ==
  /\ pc = "client" /\ port[p].open
  /\ num_open' = num_open - 1
  /\ uart' = IF num_open = 1 THEN [uart EXCEPT ![p].enabled = FALSE, ![p].irq = FALSE] ELSE uart
  /\ port' = [port EXCEPT ![p].open = FALSE]
  /\ UNCHANGED << callVars, sentVars >>

(* ser_getc, of a port that does not block: it has a byte, and it stores    *)
(* the index that it computes from the one it read                          *)
Take(p) ==
  /\ port[p].r # port[p].w
  /\ reg' = port[p].r /\ c' = port[p].buf[port[p].r]
  /\ pc' = "advance" /\ fd' = p
  /\ UNCHANGED << portVars, linebuf, sentVars >>
ser_getc(p) == pc = "client" /\ port[p].open /\ Take(p) /\ forline' = FALSE

Advance ==
  /\ pc = "advance"
  /\ port' = [port EXCEPT ![fd].r = BNEXT(reg)]
  /\ got' = [got EXCEPT ![fd] = Append(@, c)]
  /\ linebuf' = IF forline THEN Append(linebuf, c) ELSE linebuf
  /\ forlines' = IF forline THEN Append(forlines, c) ELSE forlines
  /\ pc' = IF forline THEN "getline" ELSE "client"
  /\ UNCHANGED << uart, num_open, fd, reg, c, forline, sent, first, overran, gotlines, overrunLine, lineCut, panicked >>

(* ser_getline: as many bytes as there are and linebuf has room for; then   *)
(* the first line of it, as much as the caller's buffer of bsz has room for *)
ser_getline(p) ==
  /\ pc = "client" /\ port[p].open
  /\ pc' = "getline" /\ fd' = p /\ forline' = TRUE
  /\ UNCHANGED << portVars, linebuf, reg, c, sentVars >>
ReadOn == pc = "getline" /\ Len(linebuf) < LINEBUF /\ Take(fd) /\ UNCHANGED forline

LineIn(buf) == SelectInSeq(buf, LAMBDA b : b \in Ends)
RestOf(buf) == SubSeq(buf, LineIn(buf) + 1, Len(buf))
TakeLine ==
  /\ pc = "getline" /\ (Len(linebuf) = LINEBUF \/ port[fd].r = port[fd].w)
  /\ overrunLine' = (overrunLine \/ Len(linebuf) = LINEBUF)
  /\ \E bsz \in {1, LINEBUF} : lineCut' = (lineCut \/ LineIn(linebuf) > bsz)
  /\ IF LineIn(linebuf) = 0 THEN UNCHANGED << linebuf, gotlines >>
     ELSE /\ linebuf' = RestOf(linebuf)
          /\ gotlines' = gotlines \o SubSeq(linebuf, 1, LineIn(linebuf))
  /\ pc' = "client"
  /\ UNCHANGED << portVars, fd, reg, c, forline, sent, first, got, overran, forlines, panicked >>

(* int86 reprograms the PIC, which forgets requests *)
PicReset ==
  /\ pc = "client"
  /\ uart' = [p \in Ports |-> [uart[p] EXCEPT !.irq = FALSE]]
  /\ UNCHANGED << port, num_open, callVars, sentVars >>

(* Ports are opened once, and lines are read from one of them *)
SerialNext ==
  /\ ~panicked
  /\ \/ recv_intr \/ ReceiveError \/ SetUp \/ Advance \/ ReadOn \/ TakeLine
     \/ \E p \in Ports :
          \/ Receive(p) \/ ser_close(p) \/ ser_getc(p)
          \/ ser_open(p) /\ ~uart[p].enabled
     \/ ser_getline(0)
(* ... or at any time and from both, and with BIOS calls in between *)
AnySerialNext ==
  ~panicked /\ (SerialNext \/ (\E p \in Ports : ser_open(p) \/ ser_getline(p)) \/ PicReset)

-----------------------------------------------------------------------------
SerialTypeOK ==
  /\ \A p \in Ports : port[p].r \in 0 .. RING - 1 /\ port[p].w \in 0 .. RING - 1
  /\ num_open = Cardinality({ p \in Ports : port[p].open })
  /\ pc \in {"client", "opening", "advance", "getline"}

InRing(s) == [k \in 1 .. Unread(s) |-> s.buf[(s.r + k - 1) % RING]]
(* A port gives the bytes that were sent to it since it was opened, each    *)
(* once and in order, until its ring overruns, while the interrupt comes    *)
(* between any two steps of the calls; one that has a byte has a request or *)
(* is off; and no byte of a line is lost or given twice, up to the copy to  *)
(* the caller's buffer.                                                     *)
PortsGiveAll ==
  \A p \in Ports :
    /\ port[p].open /\ ~overran[p] =>
         got[p] \o InRing(port[p]) \o uart[p].fifo
           = [k \in 1 .. sent[p] - first[p] |-> first[p] + k]
    /\ uart[p].enabled /\ uart[p].fifo # << >> => \E q \in Ports : Interrupt(q)
LinesGiveAll == gotlines \o linebuf = forlines
SerialRight == SerialTypeOK /\ PortsGiveAll /\ LinesGiveAll /\ ~overrunLine

(* That copy is the whole line *)
LinesWhole == ~lineCut

(* A closed port's UART is off *)
QuietWhenClosed == \A p \in Ports : uart[p].enabled => port[p].open \/ pc = "opening"
=============================================================================
