-------------------------------- MODULE Intr --------------------------------
(***************************************************************************)
(* Interrupts: the two cascaded 8259 PICs, the entry code of intr_asm.S,    *)
(* dispatch_intr and end_of_irq of src/intr.c, and int86 of src/lowcode.s,  *)
(* which runs the BIOS with interrupts enabled and then programs the PICs   *)
(* afresh.  Interrupt handlers run on the main program's stack; nothing in  *)
(* the design keeps them from nesting but the interrupt flag.               *)
(* The devices that interrupt: the timer (a pulse), the keyboard controller *)
(* (one byte, of the keyboard or of the mouse) and noise on the last inputs *)
(* of the two PICs.                                                         *)
(***************************************************************************)
EXTENDS Integers, Sequences, FiniteSets, FiniteSetsExt

CONSTANTS
  MaxRaise,     (* bound: requests on one input                             *)
  MaxFrames     (* bound: interrupts within interrupts                      *)

ASSUME IntrAssumption == MaxRaise \in Nat /\ MaxFrames \in Nat \ {0}

TIMER == 0
KEYB == 1
CASCADE == 2
AUX == 12
LAST1 == 7
LAST2 == 15
IRQs == {TIMER, KEYB, AUX, LAST1, LAST2}
Noise == {LAST1, LAST2}
LineOf == [key |-> KEYB, aux |-> AUX]

IRQ_TO_INTR(irq) == irq + 32
INTR_TO_IRQ(inum) == inum - 32
IS_IRQ(inum) == inum >= 32 /\ inum < 48

VARIABLES
  raised,       (* history: requests so far on each input                   *)
  outbuf,       (* the byte in the keyboard controller: none, key or aux    *)
  irr, isr,     (* the requests and the interrupts in service, of both PICs *)
  ack,          (* acknowledge cycle: none, first, second                   *)
  IF_, frames,  (* the CPU: interrupt flag, and the entries not yet left    *)
  eoi_pending,
  main, saved_if

pic == << irr, isr, ack >>
cpu == << IF_, frames, eoi_pending >>
prog == << main, saved_if >>
intrVars == << raised, outbuf, pic, cpu, prog >>

IntrInit ==
  /\ raised = [i \in IRQs |-> 0] /\ outbuf = "none"
  /\ irr = {} /\ isr = {} /\ ack = "none"
  /\ IF_ = TRUE /\ frames = << >> /\ eoi_pending = 0
  /\ main = "run" /\ saved_if = TRUE

-----------------------------------------------------------------------------
(* The devices *)
Request(i) ==
  /\ raised[i] < MaxRaise
  /\ raised' = [raised EXCEPT ![i] = @ + 1]
  /\ irr' = irr \union {i}
  /\ UNCHANGED << isr, ack, cpu, prog >>

Pulse(i) == i \in {TIMER} \union Noise /\ Request(i) /\ UNCHANGED outbuf

(* the controller takes the next byte when the last one has been read *)
ByteArrives(kind) ==
  /\ outbuf = "none"
  /\ Request(LineOf[kind])
  /\ outbuf' = kind

(* noise is over before the CPU acknowledges it *)
GoesAway(i) ==
  /\ i \in Noise \intersect irr
  /\ irr' = irr \ {i}
  /\ UNCHANGED << raised, outbuf, isr, ack, cpu, prog >>

(* reading port 60h lowers the controller's lines *)
AfterRead(requests) == requests \ {KEYB, AUX}

-----------------------------------------------------------------------------
(* The PICs: the lowest number first, and nothing below what is in service *)
Slave(i) == i > 7
Above(i) == \A s \in isr : Slave(s) = Slave(i) => i < s
SlaveRequests == {i \in irr : Slave(i) /\ Above(i)}
MasterRequests ==
  {i \in irr : ~Slave(i) /\ Above(i)}
    \union {i \in {CASCADE} : SlaveRequests # {} /\ Above(i)}

INTR == MasterRequests # {}

(* a PIC answers with its last input when the request has gone *)
Answer(requests, last) == IF requests = {} THEN last ELSE Min(requests)
Serve(requests) ==
  /\ isr' = IF requests = {} THEN isr ELSE isr \union {Min(requests)}
  /\ irr' = IF requests = {} THEN irr ELSE irr \ {Min(requests)}

(* an EOI that names no interrupt ends the first one in service *)
Eoi(service, slave) ==
  LET mine == {s \in service : Slave(s) = slave} IN
  IF mine = {} THEN service ELSE service \ {Min(mine)}

-----------------------------------------------------------------------------
(* The CPU takes an interrupt *)
Ready == ack = "none"

Accept ==
  /\ Ready /\ IF_ /\ INTR /\ main # "bios"
  /\ ack' = "first"
  /\ UNCHANGED << raised, outbuf, irr, isr, cpu, prog >>

(* set_intr_entry: interrupts come through interrupt gates *)
IS_TRAP(inum) == inum >= 32 /\ ~IS_IRQ(inum)

ChecksSpurious(inum) == inum \in {IRQ_TO_INTR(LAST1), IRQ_TO_INTR(LAST2)}

Enter(inum) ==
  /\ Len(frames) < MaxFrames
  /\ frames' = Append(frames, [inum |-> inum, iflag |-> IF_,
                               pc |-> IF ChecksSpurious(inum) THEN "check" ELSE "dispatch"])
  /\ IF_' = (IS_TRAP(inum) /\ IF_)
  /\ UNCHANGED << raised, outbuf, eoi_pending, prog >>

AckFirst ==
  /\ ack = "first"
  /\ Serve(MasterRequests)
  /\ LET irq == Answer(MasterRequests, LAST1) IN
       IF irq = CASCADE
       THEN ack' = "second" /\ UNCHANGED << raised, outbuf, cpu, prog >>
       ELSE ack' = "none" /\ Enter(IRQ_TO_INTR(irq))

AckSecond ==
  /\ ack = "second"
  /\ Serve(SlaveRequests)
  /\ ack' = "none"
  /\ Enter(IRQ_TO_INTR(Answer(SlaveRequests, LAST2)))

-----------------------------------------------------------------------------
(* The kernel's side: the innermost entry that has not returned *)
Running == Ready /\ frames # << >>
Top == frames[Len(frames)]
GoOn(pc) == frames' = [frames EXCEPT ![Len(frames)].pc = pc]
iret ==
  /\ frames' = SubSeq(frames, 1, Len(frames) - 1)
  /\ IF_' = Top.iflag

(* irq7_entry_check_spurious and irq15_entry_check_spurious *)
BugSpuriousNoEoi(inum) == isr
SpuriousEoi(inum) == IF inum = IRQ_TO_INTR(LAST2) THEN Eoi(isr, FALSE) ELSE isr

CheckSpurious ==
  /\ Running /\ Top.pc = "check"
  /\ IF INTR_TO_IRQ(Top.inum) \in isr
     THEN GoOn("dispatch") /\ UNCHANGED << isr, IF_ >>
     ELSE iret /\ isr' = SpuriousEoi(Top.inum)
  /\ UNCHANGED << raised, outbuf, irr, ack, eoi_pending, prog >>

PendingAfter(inum) == IF IS_IRQ(inum) THEN inum ELSE eoi_pending

DispatchIntr ==
  /\ Running /\ Top.pc = "dispatch"
  /\ eoi_pending' = PendingAfter(Top.inum)
  /\ GoOn("handler")
  /\ UNCHANGED << raised, outbuf, pic, IF_, prog >>

(* kbintr reads whatever is there, psaux_intr only what is of the mouse *)
ReadsPort(inum) ==
  \/ inum = IRQ_TO_INTR(KEYB)
  \/ inum = IRQ_TO_INTR(AUX) /\ outbuf = "aux"

Handler ==
  /\ Running /\ Top.pc = "handler"
  /\ GoOn("finish")
  /\ IF ReadsPort(Top.inum)
     THEN outbuf' = "none" /\ irr' = AfterRead(irr)
     ELSE UNCHANGED << outbuf, irr >>
  /\ UNCHANGED << raised, isr, ack, IF_, eoi_pending, prog >>

(* end_of_irq *)
EndOfIrq(irq) == Eoi(IF irq > 7 THEN Eoi(isr, TRUE) ELSE isr, FALSE)

Finish ==
  /\ Running /\ Top.pc = "finish"
  /\ isr' = IF eoi_pending = 0 THEN isr ELSE EndOfIrq(INTR_TO_IRQ(eoi_pending))
  /\ eoi_pending' = 0
  /\ iret
  /\ UNCHANGED << raised, outbuf, irr, ack, prog >>

-----------------------------------------------------------------------------
(* The main program *)
MainRuns == Ready /\ frames = << >>

(* get_intr_flag, disable_intr ... set_intr_flag around shared data *)
BeginSection ==
  /\ MainRuns /\ main = "run"
  /\ IF_' = FALSE /\ main' = "section"
  /\ UNCHANGED << raised, outbuf, pic, frames, eoi_pending, saved_if >>

EndSection ==
  /\ MainRuns /\ main = "section"
  /\ IF_' = TRUE /\ main' = "run"
  /\ UNCHANGED << raised, outbuf, pic, frames, eoi_pending, saved_if >>

(* int86 is also called with interrupts disabled, by run_com_binary *)
Int86 ==
  /\ MainRuns /\ main \in {"run", "section"}
  /\ saved_if' = IF_
  /\ IF_' = TRUE /\ main' = "bios"
  /\ UNCHANGED << raised, outbuf, pic, frames, eoi_pending >>

(* The real-mode vector of an interrupt may or may not send an EOI. *)
BiosServes ==
  /\ main = "bios" /\ INTR
  /\ LET irq == Answer(IF Min(MasterRequests) = CASCADE THEN SlaveRequests ELSE MasterRequests, LAST1)
         served == isr \union {irq} \union {i \in {CASCADE} : Slave(irq)}
     IN /\ irr' = irr \ {irq}
        /\ isr' \in {served, isr}
  /\ UNCHANGED << raised, outbuf, ack, cpu, prog >>

BugNoRead(kind) == kind
BufferAfterBios(kind) == "none"       (* in $0x60, %al *)
BugEnable(flag) == TRUE
RestoredFlag(flag) == flag            (* set_intr_flag *)

(* cli; init_pic, which forgets requests and services and waits for the     *)
(* next rising edge of each input                                           *)
Int86Returns ==
  /\ main = "bios"
  /\ irr' = {} /\ isr' = {}
  /\ outbuf' = BufferAfterBios(outbuf)
  /\ IF_' = RestoredFlag(saved_if)
  /\ main' = IF saved_if THEN "run" ELSE "section"
  /\ UNCHANGED << raised, ack, frames, eoi_pending, saved_if >>

-----------------------------------------------------------------------------
Devices ==
  \/ \E i \in IRQs : Pulse(i) \/ GoesAway(i)
  \/ \E kind \in DOMAIN LineOf : ByteArrives(kind)
Acknowledge == Accept \/ AckFirst \/ AckSecond
Entry == CheckSpurious \/ DispatchIntr \/ Handler \/ Finish
Main == BeginSection \/ EndSection \/ Int86 \/ BiosServes \/ Int86Returns

IntrNext == Devices \/ Acknowledge \/ Entry \/ Main
IntrSpec == IntrInit /\ [][IntrNext]_intrVars

(* The hardware interrupts, handlers return, and what the main program      *)
(* begins it ends.                                                          *)
Fairness ==
  /\ WF_intrVars(Acknowledge) /\ WF_intrVars(Entry)
  /\ WF_intrVars(EndSection) /\ WF_intrVars(Int86Returns)
  /\ SF_intrVars(Accept)
IntrLiveSpec == IntrSpec /\ Fairness

-----------------------------------------------------------------------------
Irqs(fs) == {INTR_TO_IRQ(fs[n].inum) : n \in DOMAIN fs}

IntrTypeOK ==
  /\ raised \in [IRQs -> 0 .. MaxRaise]
  /\ outbuf \in {"none", "key", "aux"}
  /\ irr \subseteq IRQs /\ isr \subseteq IRQs \union {CASCADE}
  /\ ack \in {"none", "first", "second"}
  /\ IF_ \in BOOLEAN /\ saved_if \in BOOLEAN
  /\ frames \in Seq([inum : {IRQ_TO_INTR(i) : i \in IRQs}, iflag : BOOLEAN,
                     pc : {"check", "dispatch", "handler", "finish"}])
  /\ eoi_pending \in {0} \union {IRQ_TO_INTR(i) : i \in IRQs}
  /\ main \in {"run", "section", "bios"}

(* An interrupt stays in service only while its handler runs: every EOI is  *)
(* sent, by dispatch_intr or by the check for spurious interrupts, and to   *)
(* the PICs that wait for it.  One that is missing would shut off every     *)
(* interrupt below it for good.  And it stays in service while it runs: no  *)
(* EOI ends an interrupt that another handler is still serving.             *)
NothingStuck ==
  /\ IntrTypeOK
  /\ Ready /\ main # "bios" =>
       \A s \in isr : IF s = CASCADE THEN \E i \in Irqs(frames) : Slave(i)
                                     ELSE s \in Irqs(frames)
  /\ \A n \in DOMAIN frames :
       frames[n].pc # "check" => INTR_TO_IRQ(frames[n].inum) \in isr

(* No handler runs between disable_intr and set_intr_flag, not even when    *)
(* the code between them calls the BIOS.                                    *)
SectionIsAtomic == main = "section" => frames = << >> /\ ack = "none"

(* lowcode.s: without reading port 60h after a BIOS call "we can't receive  *)
(* any more keyboard interrupts".  With it a byte of the keyboard or the    *)
(* mouse never waits in the controller for ever.                            *)
ByteIsRead == (outbuf # "none") ~> (outbuf = "none")
=============================================================================
