------------------------------- MODULE ComRun --------------------------------
(***************************************************************************)
(* Running a DOS program (src/comloader.c, src/doscalls.s and the end of    *)
(* src/lowcode.s).  load_com_binary reads it behind the first 256 bytes of  *)
(* low_mem_buffer, cluster by cluster through that same buffer;             *)
(* run_com_binary moves the interrupts to where DOS has them and lets the   *)
(* BIOS-call path jump into the program, which ends by returning, by a DOS  *)
(* call, or when ESC is pressed.                                            *)
(*                                                                          *)
(* Memory is counted in units of 256 bytes.                                 *)
(***************************************************************************)
EXTENDS Integers, Sequences

CONSTANTS
  Sizes,           (* the lengths of programs, in units                     *)
  CLUSTER,         (* units of a cluster of the volume                      *)
  Vectors          (* vectors a program sets and asks for, and 9, 33 and 41 *)

ASSUME ComAssumption ==
  /\ Sizes # {} /\ Sizes \subseteq Nat \ {0} /\ CLUSTER \in Nat \ {0} /\ {9, 33, 41} \subseteq Vectors

VARIABLES
  who,             (* who runs                                              *)
  com_size, loaded, (* the program's length, and what fread has copied      *)
  unread,          (* whether fread got all of it: "all", "stale" if it was *)
                   (*  given bytes of another cluster, "short" if it ended  *)
  low_mem_buffer,  (* what each unit holds: a unit of the file, or nothing  *)
  iflag, wanted,   (* the interrupt flag, and the one run_com_binary saved  *)
  offs,            (* the PICs' offset: 32, or 8 as DOS has it              *)
  ivt,             (* whose code each real-mode vector names                *)
  sp, saved_sp,    (* the real-mode stack, and run_com_entry's copy         *)
  byte,            (* the byte that waits in the keyboard controller        *)
  com_regs,        (* whose values the program's registers have             *)
  shown, bioscall  (* characters asked for and not shown; the BIOS call     *)

loadVars == << com_size, loaded, unread, low_mem_buffer >>
picVars == << iflag, wanted, offs >>
stackVars == << sp, saved_sp >>
comVars == << who, loadVars, picVars, ivt, stackVars, byte, com_regs, shown, bioscall >>

PSP == 1                     (* 256 bytes *)
BIOS_TOP == 100              (* int86's real-mode stack *)
PROGRAM_TOP == 200           (* the program's, at the end of its segment *)
AtEntry == PROGRAM_TOP - 6   (* behind a far and a near call *)

ComInit(sizes) ==
  /\ who = "kernel" /\ com_size \in sizes /\ loaded = -1 /\ unread = "all"
  /\ low_mem_buffer = [u \in 0 .. PSP + com_size + CLUSTER |-> -1]
  /\ iflag = TRUE /\ wanted = TRUE /\ offs = 32 /\ ivt = [v \in Vectors |-> "bios"]
  /\ sp = BIOS_TOP /\ saved_sp = 0 /\ byte = "none" /\ com_regs = "program" /\ shown = 0 /\ bioscall = "none"

-----------------------------------------------------------------------------
(* fopen, and with interrupts enabled or not                                *)
load_com_binary ==
  /\ who = "kernel" /\ loaded = -1 /\ bioscall = "none"
  /\ who' = "loading" /\ loaded' = 0 /\ unread' = "all" /\ iflag' \in BOOLEAN
  /\ UNCHANGED << com_size, low_mem_buffer, wanted, offs, ivt, stackVars, byte, com_regs, shown, bioscall >>

(* One round of fread: the BIOS transfers a cluster to the start of         *)
(* low_mem_buffer, from where it is copied, by way of clustbuf, to dest.    *)
(* When the disk fails, what clustbuf held before is copied (fsfat.c:574),  *)
(* or, without the next cluster's number, the file ends.                    *)
OtherBytes == -2
CopyTo(mem, from, n) == [u \in DOMAIN mem |-> IF u - from \in 0 .. n - 1 THEN u - PSP ELSE mem[u]]
ReadsCluster ==
  /\ who = "loading" /\ loaded < com_size /\ unread # "short"
  /\ LET n == IF com_size - loaded < CLUSTER THEN com_size - loaded ELSE CLUSTER
         transferred == [u \in DOMAIN low_mem_buffer |->
                           IF u < CLUSTER THEN loaded + u ELSE low_mem_buffer[u]]
     IN  low_mem_buffer' = CopyTo(transferred, PSP + loaded, n) /\ loaded' = loaded + n
  /\ UNCHANGED << who, com_size, unread, picVars, ivt, stackVars, byte, com_regs, shown, bioscall >>
ReadFailed ==
  /\ who = "loading" /\ loaded < com_size /\ unread # "short"
  /\ LET n == IF com_size - loaded < CLUSTER THEN com_size - loaded ELSE CLUSTER IN
       \/ /\ unread' = "stale" /\ loaded' = loaded + n
          /\ low_mem_buffer' = [u \in DOMAIN low_mem_buffer |->
               IF u - PSP - loaded \in 0 .. n - 1 THEN OtherBytes ELSE low_mem_buffer[u]]
       \/ unread' = "short" /\ UNCHANGED << loaded, low_mem_buffer >>
  /\ UNCHANGED << who, com_size, picVars, ivt, stackVars, byte, com_regs, shown, bioscall >>

(* run_com_binary, int86 up to the call, and run_com_entry: the first bytes *)
(* of the segment become a call of the program and a far return.  Nobody    *)
(* looks at how much fread got.                                             *)
run_com_binary ==
  /\ who = "loading" /\ (loaded = com_size \/ unread = "short")
  /\ who' = "program" /\ wanted' = iflag /\ iflag' = TRUE /\ offs' = 8
  /\ ivt' = [ivt EXCEPT ![9] = "rm_keyb_intr", ![33] = "dos_int21h_entry", ![41] = "dos_int29h_entry"]
  /\ saved_sp' = sp - 6 /\ sp' = AtEntry
  /\ low_mem_buffer' = [low_mem_buffer EXCEPT ![0] = -1] /\ com_regs' = "program"
  /\ UNCHANGED << com_size, loaded, unread, byte, shown, bioscall >>

(* run_com_return, and int86 behind its call: interrupts go back to their   *)
(* place, a byte of the keyboard controller is thrown away                  *)
BugSpNow == sp + 6
StackBack == saved_sp + 6
BackToKernel ==
  /\ who' = "kernel" /\ loaded' = -1
  /\ sp' = StackBack /\ offs' = 32 /\ iflag' = wanted /\ byte' = "none"
  /\ UNCHANGED << com_size, unread, low_mem_buffer, wanted, ivt, saved_sp, shown, bioscall >>

-----------------------------------------------------------------------------
InProgram == who = "program"
(* The program pushes and pops *)
Pushes ==
  /\ InProgram /\ sp' \in {AtEntry - 2, AtEntry} \ {sp}
  /\ UNCHANGED << who, loadVars, picVars, ivt, saved_sp, byte, com_regs, shown, bioscall >>
(* It returns, to the far return at the start of its segment, or calls 4Ch  *)
ProgramEnds ==
  /\ InProgram /\ (sp = AtEntry \/ ivt[33] = "dos_int21h_entry")
  /\ BackToKernel /\ UNCHANGED com_regs
setvect ==
  /\ InProgram /\ ivt[33] = "dos_int21h_entry"
  /\ \E v \in Vectors : ivt' = [ivt EXCEPT ![v] = "program"]
  /\ UNCHANGED << who, loadVars, picVars, stackVars, byte, com_regs, shown, bioscall >>
VIDEO == 16
CalledFor == 10              (* int $10, which is not hexadecimal *)
dos_int29h ==
  /\ InProgram /\ ivt[41] = "dos_int29h_entry" /\ shown = 0
  /\ shown' = IF CalledFor = VIDEO THEN shown ELSE shown + 1
  /\ UNCHANGED << who, loadVars, picVars, ivt, stackVars, byte, com_regs, bioscall >>

KeyByte ==
  /\ byte = "none" /\ byte' \in {"esc", "other"}
  /\ UNCHANGED << who, loadVars, picVars, ivt, stackVars, com_regs, shown, bioscall >>
MouseByte ==
  /\ byte = "none" /\ InProgram /\ byte' = "mouse"
  /\ UNCHANGED << who, loadVars, picVars, ivt, stackVars, com_regs, shown, bioscall >>

(* IRQ 1 in the program: al and bl are not saved *)
rm_keyb_intr ==
  /\ InProgram /\ byte \in {"esc", "other"} /\ ivt[9] = "rm_keyb_intr"
  /\ \/ byte = "esc" /\ BackToKernel /\ UNCHANGED com_regs
     \/ byte # "esc" /\ byte' = "none" /\ com_regs' = "handler"
        /\ UNCHANGED << who, loadVars, picVars, ivt, stackVars, shown, bioscall >>
(* or the program's own handler, which reads the byte *)
OwnHandler ==
  /\ InProgram /\ byte \in {"esc", "other"} /\ ivt[9] = "program"
  /\ byte' = "none"
  /\ UNCHANGED << who, loadVars, picVars, ivt, stackVars, com_regs, shown, bioscall >>
(* or the kernel's *)
KernelIntr ==
  /\ ~InProgram /\ bioscall = "none" /\ iflag /\ byte # "none"
  /\ byte' = "none"
  /\ UNCHANGED << who, loadVars, picVars, ivt, stackVars, com_regs, shown, bioscall >>

(* int86 for the kernel, with the PICs at 32: IRQ 1 takes vector 33.  What  *)
(* is left there of a program's run decides by ah, which is the BIOS's      *)
CallBios ==
  /\ who = "kernel" /\ bioscall = "none" /\ bioscall' = "working"
  /\ UNCHANGED << who, loadVars, picVars, ivt, stackVars, byte, com_regs, shown >>
IrqInBios ==
  /\ bioscall = "working" /\ byte # "none" /\ ivt[33] = "dos_int21h_entry"
  /\ \/ sp' = StackBack /\ bioscall' = "cut" /\ UNCHANGED ivt                    (* ah = 4Ch *)
     \/ (\E v \in Vectors : ivt' = [ivt EXCEPT ![v] = "bios data"])            (* ah = 25h *)
        /\ UNCHANGED << sp, bioscall >>
  /\ UNCHANGED << who, loadVars, picVars, saved_sp, byte, com_regs, shown >>
BiosEnds ==
  /\ bioscall # "none" /\ bioscall' = "none" /\ byte' = "none"
  /\ UNCHANGED << who, loadVars, picVars, ivt, stackVars, com_regs, shown >>

ComNext ==
  \/ load_com_binary \/ ReadsCluster \/ ReadFailed \/ run_com_binary \/ Pushes \/ ProgramEnds \/ setvect \/ dos_int29h
  \/ KeyByte \/ rm_keyb_intr \/ OwnHandler \/ KernelIntr
ComAny == ComNext \/ MouseByte \/ CallBios \/ IrqInBios \/ BiosEnds

-----------------------------------------------------------------------------
(* The program that runs is the one in the file *)
ProgramWhole == who = "program" => \A i \in 0 .. com_size - 1 : low_mem_buffer[PSP + i] = i

(* It is if no read failed; and however it ends, the stack, the interrupt   *)
(* flag and the PICs are the kernel's again.                                *)
RunRight ==
  /\ unread = "all" => ProgramWhole
  /\ who # "program" => sp = BIOS_TOP /\ offs = 32
  /\ who = "kernel" => iflag = wanted

(* ESC ends a program that leaves the keyboard's vector alone *)
EscIn == InProgram /\ byte = "esc" /\ ivt[9] = "rm_keyb_intr"
EscEnds == EscIn ~> (~InProgram \/ ivt[9] = "program")
(* The byte in the keyboard controller is taken, and the next can come *)
ByteTaken == (InProgram /\ byte # "none") ~> (byte = "none")

(* What the program would notice, and BIOS calls after it *)
RegsKept == com_regs = "program"
CharsShown == shown = 0
BiosUncut == bioscall # "cut"
VectorsAreCode == \A v \in Vectors : ivt[v] # "bios data" /\ (ivt[v] = "program" => InProgram)
=============================================================================
