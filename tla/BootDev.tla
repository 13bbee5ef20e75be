------------------------------- MODULE BootDev ------------------------------
(***************************************************************************)
(* Reading the boot drive through the BIOS (src/bootdev.c), and the alarm   *)
(* that turns the floppy's motor off when the drive has not been used for   *)
(* a while (floppy.c).  The alarms are those of AlarmClock, which Timer     *)
(* implements.                                                              *)
(*                                                                          *)
(* While int86 runs the BIOS the kernel sees no timer interrupts; between   *)
(* any two other steps of a call there may be some.  Sector number s of the *)
(* disk holds the value s.                                                  *)
(***************************************************************************)
EXTENDS AlarmClock, Sequences

CONSTANTS
  num_cyl, num_heads, num_track_sect,   (* the drive's geometry             *)
  TIMEOUT,    (* FLOPPY_MOTOR_OFF_TIMEOUT, in ticks (1000)                  *)
  MaxCount,   (* bound: sectors of one read                                 *)
  MaxSlip     (* bound: ticks during one call, which takes a few            *)
              (* instructions between its BIOS calls                        *)

NRETRIES == 3
motors_off == "floppy_motors_off"
Sectors == 0 .. num_cyl * num_heads * num_track_sect - 1

ASSUME BootDevAssumption ==
  /\ num_cyl \in 1 .. 1024 /\ num_heads \in 1 .. 256 /\ num_track_sect \in 1 .. 63
  /\ TIMEOUT \in Nat /\ MaxSlip \in Nat /\ MaxSlip < TIMEOUT /\ MaxCount \in Nat \ {0}
  /\ Funcs = {motors_off} /\ Delays = {TIMEOUT}

VARIABLES
  have_bios_ext, bdev_is_floppy,
  bios_cuts, (* external: the BIOS ends a read by CHS at the end of the     *)
             (* track, and gives no error                                   *)
  pc,        (* the call's next step, or "idle"                             *)
  req,       (* its arguments: [lba, nsect]                                 *)
  tries,     (* attempts left                                               *)
  buf,       (* the values read                                             *)
  res,       (* what the last call returned: "ok", "error"                  *)
  motor,     (* external: whether the drive's motor turns                   *)
  quiet      (* history: ticks since the last call began, up to TIMEOUT     *)

call == << pc, req, tries, buf, res >>
fixed == << have_bios_ext, bdev_is_floppy, bios_cuts >>
vars == << clock, fixed, call, motor, quiet >>

NoReq == [lba |-> 0, nsect |-> 0]

-----------------------------------------------------------------------------
(* calc_chs, the registers bios_rw_sect_chs makes of it, and what the BIOS  *)
(* reads from the registers (external)                                      *)
BugSectorFromZero(lba) ==
  [tsect |-> lba % num_track_sect,
   cyl   |-> (lba \div num_track_sect) \div num_heads,
   head  |-> (lba \div num_track_sect) % num_heads]
calc_chs(lba) ==
  [tsect |-> (lba % num_track_sect) + 1,
   cyl   |-> (lba \div num_track_sect) \div num_heads,
   head  |-> (lba \div num_track_sect) % num_heads]
ChsRegs(chs) ==
  [cx |-> (chs.cyl % 256) * 256 + 64 * ((chs.cyl \div 65536) % 4) + chs.tsect, dh |-> chs.head]
BiosSector(regs) ==
  LET cyl  == regs.cx \div 256 + 256 * ((regs.cx \div 64) % 4)
  IN  (cyl * num_heads + regs.dh) * num_track_sect + (regs.cx % 64) - 1

(* the sector an attempt reads first *)
Addressed == IF have_bios_ext THEN req.lba ELSE BiosSector(ChsRegs(calc_chs(req.lba)))

(* the sectors of the request that the BIOS does read: how many, in al, the *)
(* code does not look at; it copies what low_mem_buffer held for the rest   *)
Transferred(i) ==
  ~bios_cuts \/ have_bios_ext \/ i <= num_track_sect - (req.lba % num_track_sect)
Old == -1

-----------------------------------------------------------------------------
(* bdev_init, for each kind of drive *)
BootInit ==
  /\ alarms = {} /\ ctx = "main"
  /\ have_bios_ext \in BOOLEAN /\ bdev_is_floppy \in BOOLEAN /\ bios_cuts \in BOOLEAN
  /\ pc = "idle" /\ req = NoReq /\ tries = 0 /\ buf = << >> /\ res = "ok"
  /\ motor = "off" /\ quiet = TIMEOUT

(* bdev_read_range, or bdev_read_sect when nsect is 1 *)
bdev_read(lba, nsect) ==
  /\ ctx = "main" /\ pc = "idle"
  /\ lba + nsect - 1 \in Sectors
  /\ req' = [lba |-> lba, nsect |-> nsect]
  /\ pc' = IF bdev_is_floppy THEN "cancel" ELSE "attempt"
  /\ tries' = IF have_bios_ext THEN 1 ELSE NRETRIES
  /\ buf' = << >> /\ quiet' = 0
  /\ UNCHANGED << clock, fixed, res, motor >>

BugNoCancel ==
  /\ pc = "cancel" /\ ctx = "main"
  /\ pc' = "set"
  /\ UNCHANGED << clock, fixed, req, tries, buf, res, motor, quiet >>
Cancel ==
  /\ pc = "cancel" /\ cancel_alarm(motors_off)
  /\ pc' = "set"
  /\ UNCHANGED << fixed, req, tries, buf, res, motor, quiet >>

BugSetOnlyFirst ==
  /\ pc = "set"
  /\ IF motor = "off" THEN \E e \in Events : set_alarm(e, motors_off, TIMEOUT)
     ELSE ctx = "main" /\ UNCHANGED clock
  /\ pc' = "attempt"
  /\ UNCHANGED << fixed, req, tries, buf, res, motor, quiet >>
Set ==
  /\ pc = "set" /\ \E e \in Events : set_alarm(e, motors_off, TIMEOUT)
  /\ pc' = "attempt"
  /\ UNCHANGED << fixed, req, tries, buf, res, motor, quiet >>

(* int86(0x13): the BIOS starts the motor; it reads the sectors, or fails,  *)
(* and the call tries again while attempts are left.                        *)
Attempt(ok) ==
  /\ ctx = "main" /\ pc = "attempt"
  /\ motor' = IF bdev_is_floppy THEN "on" ELSE motor
  /\ tries' = tries - 1
  /\ IF ok
     THEN /\ buf' = [i \in 1 .. req.nsect |-> IF Transferred(i) THEN Addressed + i - 1 ELSE Old]
          /\ pc' = "idle" /\ res' = "ok"
     ELSE /\ UNCHANGED buf
          /\ IF tries = 1 THEN pc' = "idle" /\ res' = "error" ELSE UNCHANGED << pc, res >>
  /\ UNCHANGED << clock, fixed, req, quiet >>

(* The timer interrupt.  The motor's alarm is the only one, and its         *)
(* function sets no other.                                                  *)
TickOf ==
  /\ pc # "idle" => quiet < MaxSlip
  /\ Tick
  /\ quiet' = IF quiet < TIMEOUT THEN quiet + 1 ELSE quiet
  /\ UNCHANGED << fixed, call, motor >>

floppy_motors_off == Fire /\ motor' = "off" /\ UNCHANGED << fixed, call, quiet >>

EndOfInterrupt == (FuncReturns \/ Return) /\ UNCHANGED << fixed, call, motor, quiet >>

Interrupt == TickOf \/ floppy_motors_off \/ EndOfInterrupt
Call == Cancel \/ Set \/ Attempt(TRUE) \/ Attempt(FALSE)

MotorNext ==
  \/ \E lba \in Sectors, nsect \in 1 .. MaxCount : bdev_read(lba, nsect)
  \/ Call \/ Interrupt

BootSpec == BootInit /\ [][MotorNext]_vars

(* The timer ticks on, and a call runs on between the interrupts *)
LiveSpec == BootSpec /\ WF_vars(Interrupt) /\ SF_vars(Call)

-----------------------------------------------------------------------------
TypeOK ==
  /\ pc \in {"idle", "cancel", "set", "attempt"}
  /\ tries \in 0 .. NRETRIES
  /\ pc = "attempt" => tries > 0
  /\ motor \in {"on", "off"} /\ quiet \in 0 .. TIMEOUT
  /\ \A i \in DOMAIN buf : buf[i] \in Sectors \cup {Old}

(* A read that succeeds gives the sectors it was asked for, by LBA or CHS,  *)
(* after any number of failed attempts: those that the BIOS has read, which *)
(* are all but when it ends a read at the end of a track (RangeIsRead).     *)
(* With more than 256 cylinders it does not hold: the code loses bits 8 and *)
(* 9 of the cylinder.                                                       *)
ReadsWhatWasAsked ==
  /\ TypeOK
  /\ pc = "idle" /\ res = "ok" =>
       \A i \in DOMAIN buf : Transferred(i) => buf[i] = req.lba + i - 1

(* The motor is not turned off before the drive was left alone for TIMEOUT  *)
(* ticks, even when the interrupt comes between cancel_alarm and set_alarm: *)
(* each call replaces the alarm of the one before.                          *)
NotOffEarly ==
  [][motor = "on" /\ motor' = "off" => quiet >= TIMEOUT \/ pc = "cancel"]_vars

(* When the drive is not used any more its motor stops for good: a motor    *)
(* that turns always has an alarm, or a call that is about to set it.       *)
MotorStops == <>[](pc = "idle") => <>[](motor = "off")

-----------------------------------------------------------------------------
(* A statement of the code that does not hold                               *)

(* bdev_read_range gives 0 when it has read nsect sectors (bootdev.c:152).  *)
(* A read by CHS "probably can't cross track boundaries" (249), and what it *)
(* then gives is nsect all the same.                                        *)
RangeIsRead == pc = "idle" /\ res = "ok" => \A i \in DOMAIN buf : buf[i] = req.lba + i - 1
=============================================================================
