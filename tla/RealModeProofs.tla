--------------------------- MODULE RealModeProofs ---------------------------
(***************************************************************************)
(* Proofs about interrupts and about reads of the boot drive.              *)
(*                                                                         *)
(* Interrupts (Intr), for any number of requests and any depth of nesting  *)
(* the bound allows.  The gates clear the interrupt flag, so that one entry*)
(* at most is on the stack and what the PICs have in service is what that  *)
(* entry serves.                                                           *)
(*                                                                         *)
(* The boot drive and the motor of the floppy (BootDev), for any geometry, *)
(* any number of failed attempts and any time between the calls.           *)
(***************************************************************************)
EXTENDS Intr, BootDev, TLAPS

Serving == INTR_TO_IRQ(frames[1].inum)

(* An entry interrupts the main program with interrupts enabled, and        *)
(* nothing interrupts the entry                                             *)
NoNesting ==
  /\ Len(frames) <= 1
  /\ frames # << >> => main = "run" /\ ack = "none" /\ frames[1].iflag
  /\ ack # "none" => main = "run"
  /\ main = "run" => (IF_ <=> frames = << >>)
  /\ main = "section" => ~IF_

(* An EOI is owed between dispatch_intr's note and end_of_irq *)
PendingIsServed ==
  eoi_pending = IF frames # << >> /\ frames[1].pc \in {"handler", "finish"}
                THEN frames[1].inum ELSE 0

(* In service: the entry's interrupt, but for a spurious one, and the       *)
(* cascade when it is one of the slave's                                    *)
InServiceIsServed ==
  main # "bios" =>
    IF frames = << >>
    THEN isr = IF ack = "second" THEN {CASCADE} ELSE {}
    ELSE /\ isr \ {Serving} = IF Slave(Serving) THEN {CASCADE} ELSE {}
         /\ Serving \in isr \/ (frames[1].pc = "check" /\ Serving \in Noise)

IntrInv == IntrTypeOK /\ NoNesting /\ PendingIsServed /\ InServiceIsServed

Frame == [inum : {IRQ_TO_INTR(i) : i \in IRQs}, iflag : BOOLEAN,
          pc : {"check", "dispatch", "handler", "finish"}]

-----------------------------------------------------------------------------
(* The least of some inputs is one of them *)
LEMMA MinFacts ==
  ASSUME NEW S \in SUBSET (IRQs \union {CASCADE}), S # {}
  PROVE  Min(S) \in S
<1>1. \E x \in S : \A y \in S : x <= y
  <2>1. S \subseteq {0, 1, 2, 7, 12, 15}
    BY DEF IRQs, TIMER, KEYB, AUX, LAST1, LAST2, CASCADE
  <2>2. CASE 0 \in S
    BY <2>1, <2>2
  <2>3. CASE 0 \notin S /\ 1 \in S
    BY <2>1, <2>3
  <2>4. CASE S \subseteq {2, 7, 12, 15} /\ 2 \in S
    BY <2>4
  <2>5. CASE S \subseteq {7, 12, 15} /\ 7 \in S
    BY <2>5
  <2>6. CASE S \subseteq {12, 15} /\ 12 \in S
    BY <2>6
  <2>7. CASE S \subseteq {15} /\ 15 \in S
    BY <2>7
  <2>. QED BY <2>1, <2>2, <2>3, <2>4, <2>5, <2>6, <2>7
<1>. QED BY <1>1 DEF Min

(* The first in service, when there is only one *)
LEMMA MinOfOne ==
  ASSUME NEW i
  PROVE  Min({i}) = i
BY DEF Min

(* An EOI ends the one interrupt in service, at the slave before the cascade *)
LEMMA EoiFacts ==
  ASSUME NEW i \in IRQs
  PROVE  /\ ~Slave(i) => Eoi({i}, FALSE) = {}
         /\ Slave(i) => Eoi({CASCADE, i}, TRUE) = {CASCADE}
         /\ Eoi({CASCADE}, FALSE) = {}
<1>1. ~Slave(i) => {s \in {i} : Slave(s) = FALSE} = {i}
  OBVIOUS
<1>2. Slave(i) => {s \in {CASCADE, i} : Slave(s) = TRUE} = {i} /\ i # CASCADE
  BY DEF Slave, CASCADE
<1>3. {s \in {CASCADE} : Slave(s) = FALSE} = {CASCADE}
  BY DEF Slave, CASCADE
<1>. QED BY <1>1, <1>2, <1>3, MinOfOne DEF Eoi

(* What an acknowledge cycle answers with *)
LEMMA AnswerFacts ==
  ASSUME IntrTypeOK
  PROVE  /\ MasterRequests \subseteq {i \in IRQs : ~Slave(i)} \union {CASCADE}
         /\ SlaveRequests \subseteq {i \in IRQs : Slave(i)}
         /\ MasterRequests # {} => Min(MasterRequests) \in MasterRequests
         /\ SlaveRequests # {} => Min(SlaveRequests) \in SlaveRequests
         /\ Answer(MasterRequests, LAST1) \in {i \in IRQs : ~Slave(i)} \union {CASCADE}
         /\ Answer(SlaveRequests, LAST2) \in {i \in IRQs : Slave(i)}
         /\ Answer(SlaveRequests, LAST1) \in IRQs
<1>1. MasterRequests \subseteq {i \in IRQs : ~Slave(i)} \union {CASCADE}
  BY DEF IntrTypeOK, MasterRequests
<1>2. SlaveRequests \subseteq {i \in IRQs : Slave(i)}
  BY DEF IntrTypeOK, SlaveRequests
<1>3. MasterRequests # {} => Min(MasterRequests) \in MasterRequests
  BY <1>1, MinFacts
<1>4. SlaveRequests # {} => Min(SlaveRequests) \in SlaveRequests
  BY <1>2, MinFacts
<1>5. LAST1 \in IRQs /\ ~Slave(LAST1) /\ LAST2 \in IRQs /\ Slave(LAST2)
  BY DEF IRQs, LAST1, LAST2, Slave
<1>. QED BY <1>1, <1>2, <1>3, <1>4, <1>5 DEF Answer

(* At most one entry is on the stack *)
LEMMA FrameFacts ==
  ASSUME IntrInv
  PROVE  /\ frames \in Seq(Frame)
         /\ frames # << >> => /\ Len(frames) = 1 /\ frames = << frames[1] >>
                              /\ Top = frames[1] /\ frames[1] \in Frame
                              /\ Serving \in IRQs
                              /\ SubSeq(frames, 1, Len(frames) - 1) = << >>
<1>1. frames \in Seq(Frame)
  BY DEF IntrInv, IntrTypeOK, Frame
<1>2. ASSUME frames # << >>
      PROVE  /\ Len(frames) = 1 /\ frames = << frames[1] >>
             /\ Top = frames[1] /\ frames[1] \in Frame
             /\ SubSeq(frames, 1, Len(frames) - 1) = << >>
  <2>1. Len(frames) \in Nat /\ Len(frames) # 0 /\ Len(frames) <= 1
    BY <1>1, <1>2 DEF IntrInv, NoNesting
  <2>2. Len(frames) = 1
    BY <2>1
  <2>. QED BY <1>1, <2>2 DEF Top
<1>3. ASSUME frames # << >>
      PROVE  Serving \in IRQs
  <2>1. PICK i \in IRQs : frames[1].inum = IRQ_TO_INTR(i)
    BY <1>2, <1>3 DEF Frame
  <2>. QED BY <2>1 DEF Serving, INTR_TO_IRQ, IRQ_TO_INTR, IRQs, TIMER, KEYB, AUX, LAST1, LAST2
<1>. QED BY <1>1, <1>2, <1>3

(* An interrupt's number and its input *)
LEMMA NumberFacts ==
  ASSUME NEW i \in IRQs
  PROVE  /\ IRQ_TO_INTR(i) # 0 /\ IS_IRQ(IRQ_TO_INTR(i)) /\ ~IS_TRAP(IRQ_TO_INTR(i))
         /\ INTR_TO_IRQ(IRQ_TO_INTR(i)) = i
         /\ ChecksSpurious(IRQ_TO_INTR(i)) <=> i \in Noise
BY DEF IRQs, TIMER, KEYB, AUX, LAST1, LAST2, IRQ_TO_INTR, IS_IRQ, IS_TRAP, INTR_TO_IRQ, ChecksSpurious, Noise

-----------------------------------------------------------------------------
(* The devices change neither the CPU's state nor what is in service *)
LEMMA DevicesStep ==
  ASSUME IntrInv, Devices
  PROVE  IntrInv'
<1>1. UNCHANGED << isr, ack, cpu, prog >> /\ irr' \subseteq IRQs
  BY DEF IntrInv, IntrTypeOK, Devices, Pulse, GoesAway, ByteArrives, Request, LineOf, IRQs, KEYB, AUX, Noise
<1>2. raised' \in [IRQs -> 0 .. MaxRaise] /\ outbuf' \in {"none", "key", "aux"}
  BY IntrAssumption DEF IntrInv, IntrTypeOK, Devices, Pulse, GoesAway, ByteArrives, Request, LineOf
<1>3. UNCHANGED << isr, ack, IF_, frames, eoi_pending, main, saved_if >>
  BY <1>1 DEF cpu, prog
<1>4. IntrTypeOK'
  BY <1>1, <1>2, <1>3 DEF IntrInv, IntrTypeOK
<1>5. (NoNesting /\ PendingIsServed /\ InServiceIsServed)'
  BY <1>3 DEF IntrInv, NoNesting, PendingIsServed, InServiceIsServed, Serving, INTR_TO_IRQ
<1>. QED BY <1>4, <1>5 DEF IntrInv

(* Accepting an interrupt, and the PICs' first and second answer *)
LEMMA InterruptStep ==
  ASSUME IntrInv, Acknowledge
  PROVE  IntrInv'
<1>0. frames = << >> /\ eoi_pending = 0 /\ main \in {"run", "section"} /\ main = "run"
      /\ isr = (IF ack = "second" THEN {CASCADE} ELSE {}) /\ IF_ = TRUE
  BY FrameFacts DEF IntrInv, IntrTypeOK, NoNesting, PendingIsServed, InServiceIsServed, Acknowledge,
                    Accept, AckFirst, AckSecond, Ready
<1>1. CASE Accept
  <2>1. UNCHANGED << raised, outbuf, irr, isr, IF_, frames, eoi_pending, main, saved_if >>
        /\ ack = "none" /\ ack' = "first"
    BY <1>1 DEF Accept, cpu, prog, Ready
  <2>. QED BY <2>1, <1>0 DEF IntrInv, IntrTypeOK, NoNesting, PendingIsServed, InServiceIsServed
(* an entry begins: its frame is the only one *)
<1>2. ASSUME NEW irq \in IRQs, Enter(IRQ_TO_INTR(irq)), ack' = "none",
             irr' \subseteq IRQs, isr' \subseteq IRQs \union {CASCADE},
             isr' \ {irq} = (IF Slave(irq) THEN {CASCADE} ELSE {}),
             irq \in isr' \/ irq \in Noise
      PROVE  IntrInv'
  <2> DEFINE f == [inum |-> IRQ_TO_INTR(irq), iflag |-> IF_,
                   pc |-> IF ChecksSpurious(IRQ_TO_INTR(irq)) THEN "check" ELSE "dispatch"]
  <2>0. frames' = Append(frames, f) /\ IF_' = (IS_TRAP(IRQ_TO_INTR(irq)) /\ IF_)
        /\ UNCHANGED << raised, outbuf, eoi_pending, prog >>
    BY <1>2 DEF Enter
  <2>1. frames' = << f >> /\ IF_' = FALSE
        /\ UNCHANGED << raised, outbuf, eoi_pending, main, saved_if >>
    <3>1. Append(frames, f) = << f >>
      BY <1>0
    <3>2. ~IS_TRAP(IRQ_TO_INTR(irq))
      BY NumberFacts
    <3>. QED BY <2>0, <3>1, <3>2 DEF prog
  <2>2. f \in Frame /\ f.iflag = TRUE /\ f.pc \in {"check", "dispatch"}
        /\ (f.pc = "check" <=> irq \in Noise) /\ INTR_TO_IRQ(f.inum) = irq
    BY <1>0, NumberFacts DEF Frame
  <2>3. Len(frames') = 1 /\ frames' # << >> /\ frames'[1] = f /\ frames' \in Seq(Frame)
    BY <2>1, <2>2
  <2>4. IntrTypeOK'
    BY <1>0, <1>2, <2>1, <2>3 DEF IntrInv, IntrTypeOK, Frame
  <2>5. NoNesting' /\ PendingIsServed'
    BY <1>0, <1>2, <2>1, <2>2, <2>3 DEF NoNesting, PendingIsServed
  <2>6. Serving' = irq
    BY <2>2, <2>3 DEF Serving
  <2>7. InServiceIsServed'
    BY <1>2, <2>2, <2>3, <2>6 DEF InServiceIsServed
  <2>. QED BY <2>4, <2>5, <2>7 DEF IntrInv
<1>3. CASE AckFirst
  <2> DEFINE irq == Answer(MasterRequests, LAST1)
  <2>0. IntrTypeOK /\ ack = "first" /\ isr = {}
    BY <1>0, <1>3 DEF IntrInv, AckFirst
  <2>1. irq \in {i \in IRQs : ~Slave(i)} \union {CASCADE}
    BY <2>0, AnswerFacts
  <2>2. isr' = (IF MasterRequests = {} THEN {} ELSE {irq})
        /\ irr' \subseteq IRQs
    BY <1>3, <2>0 DEF AckFirst, Serve, Answer, IntrTypeOK
  <2>3. MasterRequests = {} => irq \in Noise /\ irq = LAST1
    BY DEF Answer, Noise
  <2>4. CASE irq = CASCADE
    <3>1. MasterRequests # {}
      BY <2>3, <2>4 DEF CASCADE, LAST1
    <3>2. ack' = "second" /\ UNCHANGED << raised, outbuf, IF_, frames, eoi_pending, main, saved_if >>
      BY <1>3, <2>4 DEF AckFirst, cpu, prog
    <3>. QED BY <1>0, <2>0, <2>2, <2>4, <3>1, <3>2
             DEF IntrInv, IntrTypeOK, NoNesting, PendingIsServed, InServiceIsServed
  <2>5. CASE irq # CASCADE
    <3>1. irq \in IRQs /\ ~Slave(irq)
      BY <2>1, <2>5
    <3>2. Enter(IRQ_TO_INTR(irq)) /\ ack' = "none"
      BY <1>3, <2>5 DEF AckFirst
    <3>3. isr' \subseteq IRQs \union {CASCADE} /\ isr' \ {irq} = {} /\ (irq \in isr' \/ irq \in Noise)
      BY <2>2, <2>3, <3>1
    <3>. QED BY <1>2, <2>2, <3>1, <3>2, <3>3
  <2>. QED BY <2>4, <2>5
<1>4. CASE AckSecond
  <2> DEFINE irq == Answer(SlaveRequests, LAST2)
  <2>0. IntrTypeOK /\ ack = "second" /\ isr = {CASCADE}
    BY <1>0, <1>4 DEF IntrInv, AckSecond
  <2>1. irq \in IRQs /\ Slave(irq) /\ irq # CASCADE
    BY <2>0, AnswerFacts DEF Slave, CASCADE
  <2>2. isr' = (IF SlaveRequests = {} THEN {CASCADE} ELSE {CASCADE, irq})
        /\ irr' \subseteq IRQs
    BY <1>4, <2>0 DEF AckSecond, Serve, Answer, IntrTypeOK
  <2>3. SlaveRequests = {} => irq \in Noise
    BY DEF Answer, Noise
  <2>4. Enter(IRQ_TO_INTR(irq)) /\ ack' = "none"
    BY <1>4 DEF AckSecond
  <2>5. isr' \subseteq IRQs \union {CASCADE} /\ isr' \ {irq} = {CASCADE} /\ (irq \in isr' \/ irq \in Noise)
    BY <2>1, <2>2, <2>3
  <2>. QED BY <1>2, <2>1, <2>2, <2>4, <2>5
<1>. QED BY <1>1, <1>3, <1>4 DEF Acknowledge

-----------------------------------------------------------------------------
(* The entry goes on to its next part *)
LEMMA GoOnFacts ==
  ASSUME IntrInv, frames # << >>, NEW to \in {"check", "dispatch", "handler", "finish"}, GoOn(to)
  PROVE  /\ frames' \in Seq(Frame) /\ frames' # << >> /\ Len(frames') = 1
         /\ frames'[1].pc = to
         /\ frames'[1].inum = frames[1].inum /\ frames'[1].iflag = frames[1].iflag
         /\ Serving' = Serving
<1>1. Len(frames) = 1 /\ frames[1] \in Frame /\ frames = << frames[1] >>
  BY FrameFacts
<1>2. frames' = << [frames[1] EXCEPT !.pc = to] >>
  <2>1. frames' = [frames EXCEPT ![1].pc = to] /\ DOMAIN frames = {1}
    BY <1>1 DEF GoOn
  <2>. QED BY <1>1, <2>1
<1>3. [frames[1] EXCEPT !.pc = to] \in Frame
  BY <1>1 DEF Frame
<1>4. [frames[1] EXCEPT !.pc = to].inum = frames[1].inum
      /\ [frames[1] EXCEPT !.pc = to].iflag = frames[1].iflag
      /\ [frames[1] EXCEPT !.pc = to].pc = to
  BY <1>1 DEF Frame
<1>5. frames' # << >> /\ Len(frames') = 1 /\ frames'[1] = [frames[1] EXCEPT !.pc = to]
      /\ frames' \in Seq(Frame)
  BY <1>2, <1>3
<1>6. Serving' = Serving
  BY <1>4, <1>5 DEF Serving, INTR_TO_IRQ
<1>. QED BY <1>4, <1>5, <1>6

(* The entry leaves, with nothing of it in service *)
LEMMA IretStep ==
  ASSUME IntrInv, frames # << >>, iret, isr' = {}, irr' \subseteq IRQs, eoi_pending' = 0,
         UNCHANGED << raised, outbuf, ack, main, saved_if >>
  PROVE  IntrInv'
<1>1. frames' = << >> /\ IF_' = TRUE /\ main = "run" /\ ack = "none"
  BY FrameFacts DEF iret, IntrInv, NoNesting, Frame
<1>2. IntrTypeOK'
  BY <1>1 DEF IntrInv, IntrTypeOK
<1>3. (NoNesting /\ PendingIsServed /\ InServiceIsServed)'
  BY <1>1 DEF NoNesting, PendingIsServed, InServiceIsServed
<1>. QED BY <1>2, <1>3 DEF IntrInv

LEMMA EntryStep ==
  ASSUME IntrInv, Entry
  PROVE  IntrInv'
<1>0. frames # << >> /\ main = "run" /\ ack = "none" /\ IF_ = FALSE
      /\ Top = frames[1] /\ frames[1].inum = IRQ_TO_INTR(Serving) /\ Serving \in IRQs
      /\ isr \ {Serving} = (IF Slave(Serving) THEN {CASCADE} ELSE {})
      /\ (Serving \in isr \/ (frames[1].pc = "check" /\ Serving \in Noise))
  <2>1. frames # << >>
    BY DEF Entry, CheckSpurious, DispatchIntr, Handler, Finish, Running
  <2>2. main = "run" /\ ack = "none" /\ IF_ = FALSE
    BY <2>1 DEF IntrInv, NoNesting, IntrTypeOK
  <2>3. Top = frames[1] /\ frames[1] \in Frame /\ Serving \in IRQs
    BY <2>1, FrameFacts
  <2>4. frames[1].inum = IRQ_TO_INTR(Serving)
    BY <2>3 DEF Frame, Serving, INTR_TO_IRQ, IRQ_TO_INTR, IRQs, TIMER, KEYB, AUX, LAST1, LAST2
  <2>5. isr \ {Serving} = (IF Slave(Serving) THEN {CASCADE} ELSE {})
        /\ (Serving \in isr \/ (frames[1].pc = "check" /\ Serving \in Noise))
    BY <2>1, <2>2 DEF IntrInv, InServiceIsServed
  <2>. QED BY <2>1, <2>2, <2>3, <2>4, <2>5
<1>1. CASE CheckSpurious
  <2>0. Top.pc = "check" /\ eoi_pending = 0 /\ INTR_TO_IRQ(Top.inum) = Serving
        /\ UNCHANGED << raised, outbuf, irr, ack, eoi_pending, main, saved_if >>
    BY <1>0, <1>1 DEF CheckSpurious, IntrInv, PendingIsServed, Serving, prog
  <2>1. CASE Serving \in isr
    <3>1. GoOn("dispatch") /\ UNCHANGED << isr, IF_ >>
      BY <1>1, <2>0, <2>1 DEF CheckSpurious
    <3>2. /\ frames' \in Seq(Frame) /\ frames' # << >> /\ Len(frames') = 1
          /\ frames'[1].pc = "dispatch" /\ frames'[1].iflag = frames[1].iflag
          /\ Serving' = Serving
      BY <1>0, <3>1, GoOnFacts
    <3>3. IntrTypeOK'
      BY <2>0, <3>1, <3>2 DEF IntrInv, IntrTypeOK, Frame
    <3>4. NoNesting' /\ PendingIsServed' /\ InServiceIsServed'
      BY <1>0, <2>0, <2>1, <3>1, <3>2 DEF IntrInv, NoNesting, PendingIsServed, InServiceIsServed
    <3>. QED BY <3>3, <3>4 DEF IntrInv
  <2>2. CASE Serving \notin isr
    <3>1. iret /\ isr' = SpuriousEoi(Top.inum)
      BY <1>1, <2>0, <2>2 DEF CheckSpurious
    <3>2. isr = (IF Slave(Serving) THEN {CASCADE} ELSE {}) /\ Serving \in {LAST1, LAST2}
      BY <1>0, <2>2 DEF Noise
    <3>3. isr' = {}
      <4>1. Serving = LAST1 => isr = {} /\ Top.inum # IRQ_TO_INTR(LAST2)
        BY <1>0, <3>2 DEF Slave, LAST1, LAST2, IRQ_TO_INTR
      <4>2. Serving = LAST2 => isr = {CASCADE} /\ Top.inum = IRQ_TO_INTR(LAST2)
        BY <1>0, <3>2 DEF Slave, LAST2
      <4>. QED BY <3>1, <3>2, <4>1, <4>2, <1>0, EoiFacts DEF SpuriousEoi
    <3>. QED BY <1>0, <2>0, <3>1, <3>3, IretStep DEF IntrInv, IntrTypeOK
  <2>. QED BY <2>1, <2>2
<1>2. CASE DispatchIntr
  <2>1. Top.pc = "dispatch" /\ GoOn("handler") /\ eoi_pending' = IRQ_TO_INTR(Serving)
        /\ UNCHANGED << raised, outbuf, irr, isr, ack, IF_, main, saved_if >>
    BY <1>0, <1>2, NumberFacts DEF DispatchIntr, PendingAfter, pic, prog
  <2>2. /\ frames' \in Seq(Frame) /\ frames' # << >> /\ Len(frames') = 1
        /\ frames'[1].pc = "handler" /\ frames'[1].iflag = frames[1].iflag
        /\ frames'[1].inum = frames[1].inum /\ Serving' = Serving
    BY <1>0, <2>1, GoOnFacts
  <2>3. IntrTypeOK'
    BY <1>0, <2>1, <2>2 DEF IntrInv, IntrTypeOK, Frame
  <2>4. NoNesting' /\ PendingIsServed' /\ InServiceIsServed'
    BY <1>0, <2>1, <2>2 DEF IntrInv, NoNesting, PendingIsServed, InServiceIsServed
  <2>. QED BY <2>3, <2>4 DEF IntrInv
<1>3. CASE Handler
  <2>1. Top.pc = "handler" /\ GoOn("finish")
        /\ UNCHANGED << raised, isr, ack, IF_, eoi_pending, main, saved_if >>
    BY <1>3 DEF Handler, prog
  <2>2. irr' \subseteq IRQs /\ outbuf' \in {"none", "key", "aux"}
    BY <1>3 DEF Handler, AfterRead, IntrInv, IntrTypeOK
  <2>3. /\ frames' \in Seq(Frame) /\ frames' # << >> /\ Len(frames') = 1
        /\ frames'[1].pc = "finish" /\ frames'[1].iflag = frames[1].iflag
        /\ frames'[1].inum = frames[1].inum /\ Serving' = Serving
    BY <1>0, <2>1, GoOnFacts
  <2>4. IntrTypeOK'
    BY <1>0, <2>1, <2>2, <2>3 DEF IntrInv, IntrTypeOK, Frame
  <2>5. NoNesting' /\ PendingIsServed' /\ InServiceIsServed'
    BY <1>0, <2>1, <2>3 DEF IntrInv, NoNesting, PendingIsServed, InServiceIsServed
  <2>. QED BY <2>4, <2>5 DEF IntrInv
<1>4. CASE Finish
  <2>1. Top.pc = "finish" /\ iret /\ eoi_pending' = 0
        /\ UNCHANGED << raised, outbuf, irr, ack, main, saved_if >>
        /\ isr' = IF eoi_pending = 0 THEN isr ELSE EndOfIrq(INTR_TO_IRQ(eoi_pending))
    BY <1>4 DEF Finish, prog
  <2>2. eoi_pending = IRQ_TO_INTR(Serving) /\ Serving \in isr
    BY <1>0, <2>1 DEF IntrInv, PendingIsServed
  <2>3. isr' = EndOfIrq(Serving)
    BY <1>0, <2>1, <2>2, NumberFacts
  <2>4. isr = {Serving} \union (IF Slave(Serving) THEN {CASCADE} ELSE {})
    BY <1>0, <2>2
  <2>5. EndOfIrq(Serving) = {}
    <3>1. CASE Slave(Serving)
      <4>1. isr = {CASCADE, Serving} /\ Serving > 7
        BY <2>4, <3>1 DEF Slave
      <4>. QED BY <1>0, <3>1, <4>1, EoiFacts DEF EndOfIrq
    <3>2. CASE ~Slave(Serving)
      <4>1. isr = {Serving} /\ ~(Serving > 7)
        BY <2>4, <3>2 DEF Slave
      <4>. QED BY <1>0, <3>2, <4>1, EoiFacts DEF EndOfIrq
    <3>. QED BY <3>1, <3>2
  <2>. QED BY <1>0, <2>1, <2>3, <2>5, IretStep DEF IntrInv, IntrTypeOK
<1>. QED BY <1>1, <1>2, <1>3, <1>4 DEF Entry

-----------------------------------------------------------------------------
LEMMA MainStep ==
  ASSUME IntrInv, Main
  PROVE  IntrInv'
<1>0. frames = << >> /\ eoi_pending = 0 /\ ack = "none"
  BY DEF IntrInv, NoNesting, PendingIsServed, Main, MainRuns, Ready, IntrTypeOK, BeginSection, EndSection, Int86,
         BiosServes, Int86Returns
<1>1. CASE BeginSection
  BY <1>0, <1>1 DEF BeginSection, pic, IntrInv, IntrTypeOK, NoNesting, PendingIsServed, InServiceIsServed
<1>2. CASE EndSection
  BY <1>0, <1>2 DEF EndSection, pic, IntrInv, IntrTypeOK, NoNesting, PendingIsServed, InServiceIsServed
<1>3. CASE Int86
  BY <1>0, <1>3 DEF Int86, pic, IntrInv, IntrTypeOK, NoNesting, PendingIsServed, InServiceIsServed
<1>4. CASE BiosServes
  <2>1. main = "bios" /\ main' = "bios" /\ irr' \subseteq IRQs
        /\ UNCHANGED << raised, outbuf, ack, IF_, frames, eoi_pending, saved_if >>
    BY <1>4 DEF BiosServes, cpu, prog, IntrInv, IntrTypeOK
  <2>2. Answer(IF Min(MasterRequests) = CASCADE THEN SlaveRequests ELSE MasterRequests, LAST1)
          \in IRQs \union {CASCADE}
    BY AnswerFacts DEF IntrInv
  <2>3. isr' \subseteq IRQs \union {CASCADE}
    BY <1>4, <2>2 DEF BiosServes, IntrInv, IntrTypeOK
  <2>. QED BY <1>0, <2>1, <2>3 DEF IntrInv, IntrTypeOK, NoNesting, PendingIsServed, InServiceIsServed
<1>5. CASE Int86Returns
  <2>1. main = "bios" /\ irr' = {} /\ isr' = {} /\ outbuf' = "none" /\ IF_' = saved_if
        /\ main' = (IF saved_if THEN "run" ELSE "section")
        /\ UNCHANGED << raised, ack, frames, eoi_pending, saved_if >>
    BY <1>5 DEF Int86Returns, BufferAfterBios, RestoredFlag
  <2>. QED BY <1>0, <2>1 DEF IntrInv, IntrTypeOK, NoNesting, PendingIsServed, InServiceIsServed
<1>. QED BY <1>1, <1>2, <1>3, <1>4, <1>5 DEF Main

(* The strengthened invariant holds of every behaviour of the specification *)
THEOREM IntrInductive == IntrSpec => []IntrInv
<1>1. IntrInit => IntrInv
  <2> SUFFICES ASSUME IntrInit PROVE IntrInv
    OBVIOUS
  <2>1. IntrTypeOK
    BY IntrAssumption DEF IntrInit, IntrTypeOK
  <2>. QED BY <2>1 DEF IntrInit, IntrInv, NoNesting, PendingIsServed, InServiceIsServed
<1>2. IntrInv /\ [IntrNext]_intrVars => IntrInv'
  <2> SUFFICES ASSUME IntrInv, [IntrNext]_intrVars PROVE IntrInv'
    OBVIOUS
  <2>1. CASE UNCHANGED intrVars
    BY <2>1 DEF IntrInv, IntrTypeOK, NoNesting, PendingIsServed, InServiceIsServed, Serving, INTR_TO_IRQ,
                intrVars, pic, cpu, prog
  <2>. QED BY <2>1, DevicesStep, InterruptStep, EntryStep, MainStep DEF IntrNext
<1>. QED BY <1>1, <1>2, PTL DEF IntrSpec

(* Every EOI is sent, to the PICs that wait for it, and none ends an        *)
(* interrupt whose handler runs (dispatch_intr, end_of_irq and the checks   *)
(* for spurious interrupts)                                                 *)
THEOREM NothingStaysStuck == IntrSpec => []NothingStuck
<1>1. IntrInv => NothingStuck
  <2> SUFFICES ASSUME IntrInv PROVE NothingStuck
    OBVIOUS
  <2>1. IntrTypeOK
    BY DEF IntrInv
  <2>2. CASE frames = << >>
    BY <2>1, <2>2 DEF IntrInv, InServiceIsServed, NothingStuck, Ready
  <2>3. CASE frames # << >>
    <3>1. Len(frames) = 1 /\ DOMAIN frames = {1} /\ frames[1] \in Frame /\ main = "run"
      BY <2>3, FrameFacts DEF IntrInv, NoNesting
    <3>2. Irqs(frames) = {Serving}
      BY <3>1 DEF Irqs, Serving
    <3>3. isr \ {Serving} = (IF Slave(Serving) THEN {CASCADE} ELSE {})
          /\ (Serving \in isr \/ frames[1].pc = "check")
      BY <2>3, <3>1 DEF IntrInv, InServiceIsServed
    <3>4. \A s \in isr : IF s = CASCADE THEN \E i \in Irqs(frames) : Slave(i)
                                       ELSE s \in Irqs(frames)
      BY <3>2, <3>3, FrameFacts, <2>3 DEF IRQs, TIMER, KEYB, AUX, LAST1, LAST2, CASCADE
    <3>5. \A n \in DOMAIN frames :
            frames[n].pc # "check" => INTR_TO_IRQ(frames[n].inum) \in isr
      BY <3>1, <3>3 DEF Serving
    <3>. QED BY <2>1, <3>4, <3>5 DEF NothingStuck
  <2>. QED BY <2>2, <2>3
<1>. QED BY <1>1, IntrInductive, PTL

(* No handler runs between disable_intr and set_intr_flag, not even when    *)
(* int86 enables interrupts in between                                      *)
THEOREM SectionsAreAtomic == IntrSpec => []SectionIsAtomic
<1>1. IntrInv => SectionIsAtomic
  BY DEF IntrInv, NoNesting, IntrTypeOK, SectionIsAtomic
<1>. QED BY <1>1, IntrInductive, PTL

-----------------------------------------------------------------------------
(* bits 8 and 9 of the cylinder, which the code loses, are never needed *)
CylindersFit == have_bios_ext \/ num_cyl <= 256

CallInv ==
  /\ TypeOK
  /\ have_bios_ext \in BOOLEAN /\ bdev_is_floppy \in BOOLEAN
  /\ pc # "idle" => /\ tries > 0 /\ buf = << >>
                    /\ req.lba \in Nat /\ req.nsect \in 1 .. MaxCount
                    /\ req.lba + req.nsect - 1 \in Sectors

ReadInv ==
  CylindersFit /\ pc = "idle" /\ res = "ok" =>
    \A i \in DOMAIN buf : Transferred(i) => buf[i] = req.lba + i - 1

(* One alarm at most, and none that goes off before the drive was left      *)
(* alone long enough, but for the one that the call is about to cancel      *)
OneAlarm ==
  /\ alarms \subseteq Alarm
  /\ \A a, b \in alarms : a = b
  /\ pc = "set" => alarms = {}
  /\ ~bdev_is_floppy => alarms = {} /\ pc \notin {"cancel", "set"}
NotDueBeforeTimeout ==
  pc # "cancel" /\ quiet < TIMEOUT => \A a \in alarms : a.left + quiet >= TIMEOUT
AlarmInv == OneAlarm /\ NotDueBeforeTimeout

IInv == CallInv /\ ReadInv /\ AlarmInv

-----------------------------------------------------------------------------
(* Arithmetic *)
LEMMA MulMono ==
  ASSUME NEW a \in Nat, NEW b \in Nat, NEW c \in Nat, a <= b
  PROVE  a * c \in Nat /\ a * c <= b * c
OBVIOUS

LEMMA DivMod ==
  ASSUME NEW x \in Nat, NEW d \in Nat \ {0}
  PROVE  /\ x \div d \in Nat /\ x % d \in 0 .. d - 1
         /\ x = (x \div d) * d + (x % d)
OBVIOUS

(* A quotient is below n when the dividend is below n * d *)
LEMMA DivBelow ==
  ASSUME NEW x \in Nat, NEW d \in Nat \ {0}, NEW n \in Nat, x < n * d
  PROVE  x \div d < n
<1>1. x \div d \in Nat /\ x % d \in 0 .. d - 1 /\ x = (x \div d) * d + (x % d)
  BY DivMod
<1>2. SUFFICES ASSUME x \div d >= n PROVE FALSE
  BY <1>1
<1>3. n * d <= (x \div d) * d /\ n * d \in Nat
  BY <1>1, <1>2, MulMono
<1>4. (x \div d) * d \in Nat
  BY <1>1
<1>. QED BY <1>1, <1>3, <1>4

(* What the BIOS makes of cx: the track's sector and the low eight bits of  *)
(* the cylinder                                                             *)
Cx(cyl, tsect) == (cyl % 256) * 256 + 64 * ((cyl \div 65536) % 4) + tsect
CylOf(cx) == cx \div 256 + 256 * ((cx \div 64) % 4)
SectOf(cx) == cx % 64

LEMMA RegsFacts ==
  ASSUME NEW cyl \in 0 .. 1023, NEW tsect \in 1 .. 63
  PROVE  CylOf(Cx(cyl, tsect)) = cyl % 256 /\ SectOf(Cx(cyl, tsect)) = tsect
<1> DEFINE cx == Cx(cyl, tsect)
<1>1. cyl \div 65536 = 0
  OBVIOUS
<1>2. cx = (cyl % 256) * 256 + tsect
  BY <1>1 DEF Cx
<1>3. cyl % 256 \in 0 .. 255
  OBVIOUS
<1> HIDE DEF cx
<1>4. cx \div 256 = cyl % 256
  BY <1>2, <1>3
<1>5. cx \div 64 = (cyl % 256) * 4 /\ cx % 64 = tsect
  BY <1>2, <1>3
<1>6. (cx \div 64) % 4 = 0
  BY <1>3, <1>5
<1>7. cx \div 256 + 256 * ((cx \div 64) % 4) = cyl % 256
  BY <1>3, <1>4, <1>6
<1>. QED BY <1>5, <1>7 DEF cx, CylOf, SectOf

(* The sector a read by CHS addresses: never behind the one it was asked    *)
(* for, and that one when the cylinder has eight bits                       *)
LEMMA ChsFacts ==
  ASSUME NEW lba \in Sectors
  PROVE  /\ BiosSector(ChsRegs(calc_chs(lba))) \in Nat
         /\ BiosSector(ChsRegs(calc_chs(lba))) <= lba
         /\ num_cyl <= 256 => BiosSector(ChsRegs(calc_chs(lba))) = lba
<1> DEFINE T == num_track_sect
           H == num_heads
           q == lba \div T
           c == q \div H
           h == q % H
           t == lba % T
           d == BiosSector(ChsRegs(calc_chs(lba)))
<1>1. /\ num_cyl \in 1 .. 1024 /\ H \in Nat \ {0} /\ T \in Nat \ {0} /\ T <= 63
      /\ lba \in Nat /\ lba < num_cyl * H * T /\ num_cyl * H \in Nat
  <2>1. num_cyl * H \in Nat /\ num_cyl * H * T \in Nat
    BY BootDevAssumption
  <2>. QED BY <2>1, BootDevAssumption DEF Sectors
<1> HIDE DEF T, H
<1>2. q \in Nat /\ t \in 0 .. T - 1 /\ lba = q * T + t
  BY <1>1, DivMod
<1>3. q < num_cyl * H
  BY <1>1, DivBelow
<1> HIDE DEF q, t
<1>4. c \in Nat /\ h \in 0 .. H - 1 /\ q = c * H + h /\ c < num_cyl
  <2>1. c \in Nat /\ h \in 0 .. H - 1 /\ q = c * H + h
    BY <1>1, <1>2, DivMod
  <2>2. c < num_cyl
    BY <1>1, <1>2, <1>3, DivBelow
  <2>. QED BY <2>1, <2>2
<1> HIDE DEF c, h
<1>5. d = ((c % 256) * H + h) * T + t
  <2> DEFINE cx == Cx(c, t + 1)
  <2>1. c \in 0 .. 1023 /\ t + 1 \in 1 .. 63
    BY <1>1, <1>2, <1>4
  <2>2. CylOf(cx) = c % 256 /\ SectOf(cx) = t + 1
    BY <2>1, RegsFacts
  <2>3. d = (CylOf(cx) * H + h) * T + SectOf(cx) - 1
    BY DEF BiosSector, ChsRegs, calc_chs, Cx, CylOf, SectOf, T, H, q, t, c, h
  <2> HIDE DEF cx
  <2>4. d = ((c % 256) * H + h) * T + (t + 1) - 1
    BY <2>2, <2>3
  <2>5. ((c % 256) * H + h) * T \in Int /\ t \in Int
    BY <1>1, <1>2, <1>4
  <2>. QED BY <2>4, <2>5
<1>6. c % 256 \in Nat /\ c % 256 <= c
  BY <1>4
<1>7. (c % 256) * H + h <= c * H + h /\ (c % 256) * H + h \in Nat
  BY <1>1, <1>4, <1>6, MulMono
<1>8. ((c % 256) * H + h) * T <= q * T /\ ((c % 256) * H + h) * T \in Nat
  BY <1>1, <1>2, <1>4, <1>7, MulMono
<1>9. num_cyl <= 256 => d = lba
  <2>1. num_cyl <= 256 => c % 256 = c
    BY <1>1, <1>4
  <2>. QED BY <1>2, <1>4, <1>5, <2>1
<1>10. d \in Nat /\ d <= lba
  <2>1. q * T \in Nat
    BY <1>1, <1>2
  <2>. QED BY <1>2, <1>5, <1>8, <2>1
<1>. QED BY <1>9, <1>10

(* What an attempt reads lies on the disk, and is what was asked for *)
LEMMA AddressedFacts ==
  ASSUME CallInv, pc # "idle", NEW i \in 1 .. req.nsect
  PROVE  /\ Addressed + i - 1 \in Sectors
         /\ CylindersFit => Addressed = req.lba
<1>1. req.lba \in Nat /\ req.nsect \in Nat /\ req.nsect >= 1 /\ req.lba + req.nsect - 1 \in Sectors
  BY BootDevAssumption DEF CallInv
<1>2. num_cyl * num_heads * num_track_sect \in Nat
  <2>1. num_cyl * num_heads \in Nat
    BY BootDevAssumption
  <2>. QED BY <2>1, BootDevAssumption
<1>3. req.lba \in Sectors
  BY <1>1, <1>2 DEF Sectors
<1>4. Addressed \in Nat /\ Addressed <= req.lba /\ (CylindersFit => Addressed = req.lba)
  BY <1>3, <1>1, ChsFacts DEF Addressed, CylindersFit, CallInv
<1>. QED BY <1>1, <1>2, <1>4 DEF Sectors

-----------------------------------------------------------------------------
(* A call begins *)
LEMMA ReadStep ==
  ASSUME IInv, NEW lba \in Sectors, NEW nsect \in 1 .. MaxCount, bdev_read(lba, nsect)
  PROVE  IInv'
<1>1. /\ pc = "idle" /\ req' = [lba |-> lba, nsect |-> nsect]
      /\ pc' = (IF bdev_is_floppy THEN "cancel" ELSE "attempt")
      /\ tries' = (IF have_bios_ext THEN 1 ELSE NRETRIES)
      /\ buf' = << >> /\ quiet' = 0 /\ lba + nsect - 1 \in Sectors
      /\ UNCHANGED << alarms, ctx, have_bios_ext, bdev_is_floppy, bios_cuts, res, motor >>
  BY DEF bdev_read, clock, fixed
<1>2. lba \in Nat
  BY DEF Sectors
<1>3. CallInv'
  BY <1>1, <1>2, BootDevAssumption DEF IInv, CallInv, TypeOK, NRETRIES, Sectors
<1>4. ReadInv'
  BY <1>1 DEF ReadInv
<1>5. AlarmInv'
  BY <1>1 DEF IInv, CallInv, AlarmInv, OneAlarm, NotDueBeforeTimeout
<1>. QED BY <1>3, <1>4, <1>5 DEF IInv

(* The alarm of the call before is taken back, and a new one set *)
LEMMA CancelStep ==
  ASSUME IInv, Cancel
  PROVE  IInv'
<1>1. /\ pc = "cancel" /\ pc' = "set" /\ cancel_alarm(motors_off)
      /\ UNCHANGED << have_bios_ext, bdev_is_floppy, bios_cuts, req, tries, buf, res, motor, quiet >>
  BY DEF Cancel, fixed
<1>2. \A a \in alarms : a.func = motors_off
  BY BootDevAssumption DEF IInv, AlarmInv, OneAlarm, Alarm
<1>3. alarms' = {}
  BY <1>1, <1>2 DEF cancel_alarm, IInv, AlarmInv, OneAlarm
<1>4. CallInv' /\ ReadInv'
  BY <1>1 DEF IInv, CallInv, TypeOK, ReadInv
<1>5. AlarmInv'
  BY <1>1, <1>3 DEF IInv, CallInv, AlarmInv, OneAlarm, NotDueBeforeTimeout
<1>. QED BY <1>4, <1>5 DEF IInv

LEMMA SetStep ==
  ASSUME IInv, Set
  PROVE  IInv'
<1>1. /\ pc = "set" /\ pc' = "attempt"
      /\ UNCHANGED << have_bios_ext, bdev_is_floppy, bios_cuts, req, tries, buf, res, motor, quiet >>
  BY DEF Set, fixed
<1>2. PICK e \in Events : set_alarm(e, motors_off, TIMEOUT)
  BY DEF Set
<1>3. alarms' = {[ev |-> e, func |-> motors_off, left |-> TIMEOUT]}
  BY <1>1, <1>2 DEF set_alarm, IInv, AlarmInv, OneAlarm
<1>4. CallInv' /\ ReadInv'
  BY <1>1 DEF IInv, CallInv, TypeOK, ReadInv
<1>5. OneAlarm'
  BY <1>1, <1>3, BootDevAssumption DEF IInv, CallInv, AlarmInv, OneAlarm, Alarm
<1>6. NotDueBeforeTimeout'
  BY <1>1, <1>3, BootDevAssumption DEF IInv, CallInv, TypeOK, NotDueBeforeTimeout
<1>. QED BY <1>4, <1>5, <1>6 DEF IInv, AlarmInv

(* An attempt reads all sectors or none *)
LEMMA AttemptStep ==
  ASSUME IInv, NEW ok \in BOOLEAN, Attempt(ok)
  PROVE  IInv'
<1>1. /\ pc = "attempt" /\ tries' = tries - 1 /\ motor' = (IF bdev_is_floppy THEN "on" ELSE motor)
      /\ UNCHANGED << alarms, ctx, have_bios_ext, bdev_is_floppy, bios_cuts, req, quiet >>
  BY DEF Attempt, clock, fixed
<1>2. tries \in 1 .. NRETRIES /\ CallInv
  BY <1>1 DEF IInv, CallInv, TypeOK, NRETRIES
<1>3. AlarmInv'
  BY <1>1 DEF Attempt, IInv, AlarmInv, OneAlarm, NotDueBeforeTimeout
<1>4. CASE ok = TRUE
  <2>1. buf' = [i \in 1 .. req.nsect |-> IF Transferred(i) THEN Addressed + i - 1 ELSE Old] /\ pc' = "idle" /\ res' = "ok"
    BY <1>4 DEF Attempt
  <2>2. \A i \in DOMAIN buf' : /\ buf'[i] \in Sectors \cup {Old}
                               /\ CylindersFit /\ Transferred(i) => buf'[i] = req.lba + i - 1
    BY <1>1, <1>2, <2>1, AddressedFacts
  <2>3. tries' \in 0 .. NRETRIES /\ pc' = "idle"
    BY <1>1, <1>2, <2>1 DEF NRETRIES
  <2>4. motor' \in {"on", "off"}
    BY <1>1, <1>2 DEF CallInv, TypeOK
  <2>5. CallInv'
    BY <1>1, <1>2, <2>2, <2>3, <2>4 DEF CallInv, TypeOK, Sectors
  <2>6. ReadInv'
    BY <1>1, <2>2 DEF ReadInv, CylindersFit, Transferred
  <2>. QED BY <1>3, <2>5, <2>6 DEF IInv
<1>5. CASE ok = FALSE
  <2>1. buf' = buf /\ (IF tries = 1 THEN pc' = "idle" /\ res' = "error" ELSE pc' = pc /\ res' = res)
    BY <1>5 DEF Attempt
  <2>2. CallInv' /\ ReadInv'
    BY <1>1, <1>2, <2>1 DEF CallInv, TypeOK, ReadInv, NRETRIES, Sectors, Old
  <2>. QED BY <1>3, <2>2 DEF IInv
<1>. QED BY <1>4, <1>5

-----------------------------------------------------------------------------
(* A tick brings the alarm as much nearer as the drive was left alone *)
LEMMA TickStep ==
  ASSUME IInv, TickOf
  PROVE  IInv'
<1>1. /\ alarms' = {[a EXCEPT !.left = @ - 1] : a \in alarms}
      /\ quiet' = (IF quiet < TIMEOUT THEN quiet + 1 ELSE quiet)
      /\ UNCHANGED << have_bios_ext, bdev_is_floppy, bios_cuts, pc, req, tries, buf, res, motor >>
  BY DEF TickOf, Tick, fixed, call
<1>2. TIMEOUT \in Nat /\ quiet \in 0 .. TIMEOUT
  BY BootDevAssumption DEF IInv, CallInv, TypeOK
<1>3. CallInv' /\ ReadInv'
  BY <1>1, <1>2 DEF IInv, CallInv, TypeOK, ReadInv, CylindersFit, Transferred, Sectors
<1>4. \A b \in alarms' : \E a \in alarms :
        b \in Alarm /\ b.left = a.left - 1 /\ a.left \in Int /\ b = [a EXCEPT !.left = @ - 1]
  BY <1>1 DEF IInv, AlarmInv, OneAlarm, Alarm
<1>5. OneAlarm'
  BY <1>1, <1>4 DEF IInv, AlarmInv, OneAlarm
<1>6. NotDueBeforeTimeout'
  BY <1>1, <1>2, <1>4 DEF IInv, AlarmInv, NotDueBeforeTimeout
<1>. QED BY <1>3, <1>5, <1>6 DEF IInv, AlarmInv

(* The alarm goes off, and the interrupt goes on and ends *)
LEMMA FireStep ==
  ASSUME IInv, floppy_motors_off \/ EndOfInterrupt
  PROVE  IInv'
<1>1. /\ alarms' \subseteq alarms /\ motor' \in {motor, "off"}
      /\ UNCHANGED << have_bios_ext, bdev_is_floppy, bios_cuts, pc, req, tries, buf, res, quiet >>
  BY DEF floppy_motors_off, Fire, EndOfInterrupt, FuncReturns, Return, fixed, call
<1>2. CallInv' /\ ReadInv'
  BY <1>1 DEF IInv, CallInv, TypeOK, ReadInv, CylindersFit, Transferred, Sectors
<1>3. AlarmInv'
  BY <1>1 DEF IInv, AlarmInv, OneAlarm, NotDueBeforeTimeout
<1>. QED BY <1>2, <1>3 DEF IInv

LEMMA IInvStep == IInv /\ [MotorNext]_vars => IInv'
<1> SUFFICES ASSUME IInv, [MotorNext]_vars PROVE IInv'
  OBVIOUS
<1>1. CASE UNCHANGED vars
  BY <1>1 DEF IInv, CallInv, TypeOK, ReadInv, CylindersFit, Transferred, AlarmInv, OneAlarm, NotDueBeforeTimeout,
              vars, clock, fixed, call, Sectors
<1>. QED BY <1>1, ReadStep, CancelStep, SetStep, AttemptStep, TickStep, FireStep
         DEF MotorNext, Call, Interrupt

-----------------------------------------------------------------------------
(* The strengthened invariant holds of every behaviour of the specification *)
THEOREM Inductive == BootSpec => []IInv
<1>1. BootInit => IInv
  <2> SUFFICES ASSUME BootInit PROVE IInv
    OBVIOUS
  <2>1. CallInv /\ ReadInv
    BY BootDevAssumption DEF BootInit, CallInv, TypeOK, ReadInv, NRETRIES
  <2>2. AlarmInv
    BY DEF BootInit, AlarmInv, OneAlarm, NotDueBeforeTimeout
  <2>. QED BY <2>1, <2>2 DEF IInv
<1>. QED BY <1>1, IInvStep, PTL DEF BootSpec

(* A read that succeeds gives the sectors it was asked for: always through  *)
(* the BIOS's LBA calls, and through calc_chs on a drive of at most 256     *)
(* cylinders, which every floppy is.  The code loses bits 8 and 9 of a      *)
(* cylinder above them.  It gives all of them when the BIOS reads on over   *)
(* the end of a track; when it does not, those up to that end.              *)
THEOREM ReadsAreRight ==
  BootSpec => [](CylindersFit => ReadsWhatWasAsked /\ (~bios_cuts \/ have_bios_ext => RangeIsRead))
<1>1. IInv => (CylindersFit => ReadsWhatWasAsked /\ (~bios_cuts \/ have_bios_ext => RangeIsRead))
  BY DEF IInv, CallInv, ReadInv, ReadsWhatWasAsked, RangeIsRead, Transferred
<1>. QED BY <1>1, Inductive, PTL

(* The motor is never turned off before the drive was left alone for        *)
(* FLOPPY_MOTOR_OFF_TIMEOUT, but between the first steps of a new call      *)
THEOREM NeverOffEarly == BootSpec => NotOffEarly
<1>1. ASSUME IInv, [MotorNext]_vars
      PROVE  [motor = "on" /\ motor' = "off" => quiet >= TIMEOUT \/ pc = "cancel"]_vars
  <2>1. SUFFICES ASSUME MotorNext, motor = "on", motor' = "off", pc # "cancel"
                 PROVE  quiet >= TIMEOUT
    BY <1>1
  <2>2. floppy_motors_off
    BY <2>1 DEF MotorNext, Call, Interrupt, bdev_read, Cancel, Set, Attempt, TickOf, EndOfInterrupt
  <2>3. PICK a \in alarms : a.left = 0
    BY <2>2 DEF floppy_motors_off, Fire, Due
  <2>4. quiet \in Nat /\ TIMEOUT \in Nat
    BY <1>1, BootDevAssumption DEF IInv, CallInv, TypeOK
  <2>5. quiet < TIMEOUT => a.left + quiet >= TIMEOUT
    BY <1>1, <2>1, <2>3 DEF IInv, AlarmInv, NotDueBeforeTimeout
  <2>. QED BY <2>3, <2>4, <2>5
<1>. QED BY <1>1, Inductive, PTL DEF BootSpec, NotOffEarly
=============================================================================
