-------------------------------- MODULE Sound --------------------------------
(***************************************************************************)
(* Sound (src/audio.c, au_sb.c and dma.c), which this build leaves out of   *)
(* its start-up: a Sound Blaster is looked for, and plays what a callback   *)
(* puts in the buffer.  Each transfer is programmed into the DMA controller *)
(* and, byte by byte, into the card's signal processor (the DSP); at its    *)
(* end the card interrupts, and the handler asks for more.                  *)
(*                                                                          *)
(* The main thread and the handler write their bytes one at a time; the     *)
(* card is external, modelled as au_sb.c uses it.                           *)
(***************************************************************************)
EXTENDS Integers, Sequences, SequencesExt

CONSTANTS
  Cards,            (* [port, major, irqsel, dmasel, settable]: where the   *)
                    (* card is, the DSP's version, which lines the mixer    *)
                    (* selects, by their bits, and if it can be asked to     *)
  Chunks,           (* lengths that the callback may return, but 0          *)
  MaxChunks,        (* bound: calls of the callback that return something   *)
  MaxCalls          (* bound: audio_pause, audio_resume and audio_stop      *)

CountLimit == 65536   (* what a DMA channel's count of 16 bits can say *)
SoundCards ==
  [port : Nat, major : Nat, irqsel : SUBSET (0 .. 7), dmasel : SUBSET (0 .. 7), settable : BOOLEAN]
ASSUME SoundAssumption ==
  /\ Chunks \subseteq 1 .. CountLimit /\ MaxChunks \in Nat /\ MaxCalls \in Nat
  /\ Cards \subseteq SoundCards /\ Cards # {}

VARIABLES
  snd,              (* "off", "ready", "none" or "failed"                   *)
  card,             (* the card, with what its mixer holds                  *)
  irq, dma_chan,    (* what sb_detect found                                 *)
  dma,              (* the channel: [addr, count, masked]                   *)
  dsp,              (* the command it reads, with the parameters so far;    *)
                    (* the length it plays, 0 for none; if it is paused     *)
  line, edge,       (* the interrupt line, and an interrupt not yet taken   *)
  mainq, intrq,     (* what the main thread and the handler still write     *)
  chunk, heard,     (* chunks the callback gave, and those that were played *)
  calls, asked       (* history: how often, and the last of play, pause, stop *)

soundVars == << snd, card, irq, dma_chan, dma, dsp, line, edge, mainq, intrq, chunk, heard, calls, asked >>
detected == << snd, card, irq, dma_chan >>
hardware == << dma, dsp, line >>

BUFFER == 131072      (* low_mem_buffer, up to the next 64KB *)
Silent == [cmd |-> "none", args |-> << >>, left |-> 0, paused |-> FALSE]

SoundInit(cards) ==
  /\ snd = "off" /\ card \in cards /\ irq = 0 /\ dma_chan = -1
  /\ dma = [addr |-> 0, count |-> 0, masked |-> TRUE] /\ dsp = Silent
  /\ line = FALSE /\ edge = FALSE /\ mainq = << >> /\ intrq = << >>
  /\ chunk = << >> /\ heard = << >> /\ calls = 0 /\ asked = "play"

-----------------------------------------------------------------------------
LowestOf(S) == CHOOSE i \in S : \A j \in S : i <= j
irqtab == << 2, 5, 7, 10 >>
dmatab == << 0, 1, -1, 3, -1, 5, 6, 7 >>
SbPorts == 0 .. 5
IrqBits == card.irqsel \intersect 0 .. 3
DmaBits(low, high) == card.dmasel \intersect low .. high
ChannelOf(bits) == IF bits = {} THEN -1 ELSE dmatab[LowestOf(bits) + 1]

(* sb16_detect_irq: the lowest line selected, or line 5 if the mixer takes it *)
IrqForced == card.irqsel \intersect 0 .. 3 = {}
(* sb16_detect_dma: when either channel is not selected, both are taken to  *)
(* be what would have been forced                                           *)
DmaForced == -1 \in {ChannelOf(DmaBits(0, 3)), ChannelOf(DmaBits(5, 7))}
DmaWritten ==
  card.dmasel \union (IF ChannelOf(DmaBits(0, 3)) = -1 THEN {1} ELSE {})
              \union (IF ChannelOf(DmaBits(5, 7)) = -1 THEN {5} ELSE {})
SettingFails == (IrqForced \/ DmaForced) /\ ~card.settable

(* audio_init and sb_detect: the first port whose DSP answers the reset     *)
sb_detect ==
  /\ snd = "off"
  /\ IF card.port \notin SbPorts THEN snd' = "none" /\ UNCHANGED << card, irq, dma_chan >>
     ELSE IF card.major < 4 THEN snd' = "ready" /\ irq' = 5 /\ dma_chan' = 1 /\ UNCHANGED card
     ELSE IF SettingFails THEN snd' = "failed" /\ UNCHANGED << card, irq, dma_chan >>
     ELSE /\ snd' = "ready"
          /\ irq' = IF IrqForced THEN 5 ELSE irqtab[LowestOf(IrqBits) + 1]
          /\ dma_chan' = IF DmaForced THEN 1 ELSE ChannelOf(DmaBits(0, 3))
          /\ card' = [card EXCEPT !.irqsel = IF IrqForced THEN {1} ELSE @, !.dmasel = DmaWritten]
  /\ UNCHANGED << hardware, edge, mainq, intrq, chunk, heard, calls, asked >>

-----------------------------------------------------------------------------
(* What is written: a byte for the DSP, the registers of a DMA channel, or  *)
(* (read) the acknowledgement                                               *)
Dsp(bytes) == [k \in DOMAIN bytes |-> [to |-> "dsp", byte |-> bytes[k]]]
Ack == << [to |-> "ack", byte |-> 0] >>
Words_(n) == << n % 256, (n \div 256) % 256 >>

(* dma_io: address, page and count go byte by byte into the channel's ports *)
dma_io(addr, size) ==
  << [to |-> "mask", byte |-> TRUE],
     [to |-> "addr", byte |-> (addr % 65536) + 65536 * ((addr \div 65536) % 256)],
     [to |-> "count", byte |-> (size - 1) % 65536],
     [to |-> "mask", byte |-> FALSE] >>

MODE == 16            (* signed; 48 with two channels *)
start_dma_transfer(size) ==
  dma_io(BUFFER, size) \o Dsp(<< "START_DMA8", MODE >> \o Words_(size - 1))
set_output_rate ==
  IF card.major >= 4 THEN Dsp(<< "OUT_RATE", 172, 68 >>) ELSE Dsp(<< "RATE", 165 >>)

(* audio_play: the callback fills the buffer, or has nothing *)
sb_start ==
  /\ snd = "ready" /\ mainq = << >> /\ intrq = << >> /\ Len(chunk) < MaxChunks
  /\ \/ \E size \in Chunks :
          /\ chunk' = Append(chunk, size) /\ asked' = "play"
          /\ mainq' = Dsp(<< "ENABLE_OUTPUT" >>) \o set_output_rate \o start_dma_transfer(size)
     \/ UNCHANGED << chunk, mainq, asked >>
  /\ UNCHANGED << detected, hardware, edge, intrq, heard, calls >>

Call_(bytes, now) ==
  /\ snd = "ready" /\ mainq = << >> /\ intrq = << >> /\ calls < MaxCalls
  /\ mainq' = Dsp(bytes) /\ calls' = calls + 1 /\ asked' = now
  /\ UNCHANGED << detected, hardware, edge, intrq, chunk, heard >>
sb_pause == Call_(<< "PAUSE_DMA8" >>, IF asked = "stop" THEN asked ELSE "pause")
sb_continue == Call_(<< "CONT_DMA8" >>, IF asked = "stop" THEN asked ELSE "play")
sb_stop == Call_(<< "END_DMA8", "DISABLE_OUTPUT" >>, "stop")

(* intr_handler: the buffer is filled again, or sb_stop is called; the      *)
(* acknowledgement is at the end of the first only                          *)
intr_handler ==
  /\ edge /\ intrq = << >> /\ edge' = FALSE
  /\ \/ \E size \in Chunks : /\ Len(chunk) < MaxChunks /\ chunk' = Append(chunk, size)
                             /\ intrq' = start_dma_transfer(size) \o Ack
                             /\ UNCHANGED asked
     \/ intrq' = Dsp(<< "END_DMA8", "DISABLE_OUTPUT" >>) /\ asked' = "stop" /\ UNCHANGED chunk
  /\ UNCHANGED << detected, hardware, mainq, heard, calls >>

-----------------------------------------------------------------------------
(* The DSP reads a byte: a command, or a parameter of the one before.  The  *)
(* length it is to play has two bytes.  END_DMA8 ends the mode in which     *)
(* transfers repeat by themselves, which start_dma_transfer does not ask for *)
Parameters == [START_DMA8 |-> 3, OUT_RATE |-> 2, RATE |-> 1]
DspReads(b) ==
  LET args == IF dsp.cmd = "none" THEN << >> ELSE Append(dsp.args, b)
      cmd  == IF dsp.cmd = "none" THEN b ELSE dsp.cmd
  IN  IF cmd \in DOMAIN Parameters /\ Len(args) < Parameters[cmd]
      THEN [dsp EXCEPT !.cmd = cmd, !.args = args]
      ELSE CASE cmd = "START_DMA8" -> [Silent EXCEPT !.left = args[2] + 256 * args[3] + 1]
             [] cmd = "PAUSE_DMA8" -> [dsp EXCEPT !.paused = TRUE]
             [] cmd = "CONT_DMA8"  -> [dsp EXCEPT !.paused = FALSE]
             [] OTHER -> [dsp EXCEPT !.cmd = "none", !.args = << >>]

(* One write of a thread, which the handler does first *)
PortWrite(w) ==
  /\ dsp' = IF w.to = "dsp" THEN DspReads(w.byte) ELSE dsp
  /\ dma' = CASE w.to = "mask"  -> [dma EXCEPT !.masked = w.byte]
              [] w.to = "addr"  -> [dma EXCEPT !.addr = w.byte]
              [] w.to = "count" -> [dma EXCEPT !.count = w.byte]
              [] OTHER -> dma
  /\ line' = (line /\ w.to # "ack")
HandlerWrites ==
  /\ intrq # << >> /\ PortWrite(Head(intrq)) /\ intrq' = Tail(intrq)
  /\ UNCHANGED << detected, edge, mainq, chunk, heard, calls, asked >>
MainWrites ==
  /\ intrq = << >> /\ mainq # << >> /\ PortWrite(Head(mainq)) /\ mainq' = Tail(mainq)
  /\ UNCHANGED << detected, edge, intrq, chunk, heard, calls, asked >>

(* The card has played its length: what the controller gave it is counted   *)
(* by the chunk that was in the buffer.  The line goes up.                  *)
Plays ==
  /\ dsp.left > 0 /\ ~dsp.paused /\ ~dma.masked
  /\ heard' = Append(heard, [chunk |-> Len(chunk), len |-> dsp.left, from |-> dma.addr, given |-> dma.count + 1])
  /\ dsp' = [dsp EXCEPT !.left = 0] /\ dma' = [dma EXCEPT !.masked = TRUE]
  /\ edge' = (edge \/ ~line) /\ line' = TRUE
  /\ UNCHANGED << detected, mainq, intrq, chunk, calls, asked >>

(* The program plays once, and calls nothing while audio_play's bytes are   *)
(* written; the handler is faster than what it plays.                       *)
SoundNext ==
  \/ sb_detect \/ (chunk = << >> /\ sb_start) \/ sb_pause \/ sb_continue \/ intr_handler
  \/ HandlerWrites \/ MainWrites \/ (intrq = << >> /\ Plays)
SoundAgain == SoundNext \/ sb_start
SoundStop == SoundNext \/ sb_stop
SoundSlow == SoundNext \/ Plays

-----------------------------------------------------------------------------
(* What is played is what the callback gave, all of it and once, from the   *)
(* buffer, by a channel that is the card's; until the callback has nothing  *)
(* more, something plays, or an interrupt will ask for it.                  *)
SoundRight ==
  /\ snd = "ready" /\ card.major >= 4 => dma_chan \in card.dmasel /\ \E i \in card.irqsel : irq = irqtab[i + 1]
  /\ \A k \in DOMAIN heard : heard[k] = [chunk |-> k, len |-> chunk[k], from |-> BUFFER, given |-> chunk[k]]
  /\ chunk # << >> /\ asked # "stop" /\ mainq = << >> /\ intrq = << >> => dsp.left > 0 \/ edge
  /\ \A k \in DOMAIN dsp.args : dsp.args[k] \in 0 .. 255

(* Nothing is asked for after sb_stop, and nothing played after sb_pause *)
StopsPlaying == [][asked = "stop" /\ asked' = "stop" /\ mainq = << >> => chunk' = chunk]_soundVars
PauseHolds == [][asked = "pause" /\ asked' = "pause" /\ mainq = << >> => heard' = heard]_soundVars
=============================================================================
