------------------------------- MODULE KeyRing ------------------------------
(***************************************************************************)
(* The key buffer of src/keyb.c: a ring that kbintr fills in the interrupt  *)
(* and that kb_getkey, kb_putback and kb_wait read and write, with          *)
(* interrupts enabled, from the main thread.  Neither the indices nor the   *)
(* buffer is volatile or protected, so the main thread takes a step for     *)
(* each load and store, and the interrupt may come between any two.         *)
(*                                                                          *)
(* Keys are numbered in the order they are pressed.                         *)
(***************************************************************************)
EXTENDS Integers, Sequences, FiniteSets

CONSTANTS
  BUFSZ,     (* places of the ring (64)                                     *)
  MaxKeys    (* bound: keys pressed                                         *)

ASSUME RingAssumption == BUFSZ \in Nat /\ BUFSZ > 1 /\ MaxKeys \in Nat

NoKey == -1
ADVANCE(x) == (x + 1) % BUFSZ
Keys == 1 .. MaxKeys

VARIABLES
  buffer, buf_ridx, buf_widx,
  pc,        (* the main thread's next load or store, or "client"           *)
  reg,       (* the value it loaded last                                    *)
  key,       (* the local variable res of kb_getkey, or key of kb_wait      *)
  waiting,   (* kb_getkey was called by kb_wait                             *)
  pressed,   (* history: keys pressed so far                                *)
  got,       (* history: the keys kb_getkey returned to the program         *)
  dropped,   (* history: keys that kbintr and kb_putback mean to discard    *)
  overrun    (* history: there were ever more keys unread than the ring has *)
             (* room for                                                    *)

ring == << buffer, buf_ridx, buf_widx >>
history == << pressed, got, dropped, overrun >>
ringVars == << ring, pc, reg, key, waiting, history >>

RingInit ==
  /\ buffer = [i \in 0 .. BUFSZ - 1 |-> NoKey]
  /\ buf_ridx = 0 /\ buf_widx = 0
  /\ pc = "client" /\ reg = 0 /\ key = NoKey /\ waiting = FALSE
  /\ pressed = 0 /\ got = << >> /\ dropped = 0 /\ overrun = FALSE

-----------------------------------------------------------------------------
(* What kbintr does for a press.  Any interrupt ends a halt. *)
Awake == IF pc = "halted" THEN "load_ridx_to_test" ELSE pc

BugAppendEarly ==
  /\ buffer' = [buffer EXCEPT ![buf_widx] = pressed + 1]
  /\ buf_widx' = ADVANCE(buf_widx)
  /\ IF ADVANCE(ADVANCE(buf_widx)) = buf_ridx
     THEN buf_ridx' = ADVANCE(buf_ridx) /\ dropped' = dropped + 1
     ELSE UNCHANGED << buf_ridx, dropped >>
  /\ pressed' = pressed + 1
  /\ overrun' = (overrun \/ pressed + 1 - Len(got) >= BUFSZ)
  /\ UNCHANGED got
AppendToBuffer ==
  /\ buffer' = [buffer EXCEPT ![buf_widx] = pressed + 1]
  /\ buf_widx' = ADVANCE(buf_widx)
  /\ IF ADVANCE(buf_widx) = buf_ridx
     THEN buf_ridx' = ADVANCE(buf_ridx) /\ dropped' = dropped + 1
     ELSE UNCHANGED << buf_ridx, dropped >>
  /\ pressed' = pressed + 1
  /\ overrun' = (overrun \/ pressed + 1 - Len(got) >= BUFSZ)
  /\ UNCHANGED got

BugTickKeepsAsleep == pc = "halted" /\ UNCHANGED ringVars
timer_intr ==
  /\ pc = "halted"
  /\ pc' = Awake
  /\ UNCHANGED << ring, reg, key, waiting, history >>

-----------------------------------------------------------------------------
(* The main thread loads buf_ridx, or what it computes from it *)
Load(at, value, then) ==
  /\ pc = at
  /\ reg' = value
  /\ pc' = then
  /\ UNCHANGED << ring, key, waiting, history >>

(* kb_getkey *)
CallGetkey ==
  /\ pc = "client"
  /\ pc' = "load_ridx_to_test"
  /\ waiting' = FALSE
  /\ UNCHANGED << ring, reg, key, history >>

(* return -1; kb_wait enables interrupts and halts *)
TestEmpty ==
  /\ pc = "test_empty"
  /\ pc' = IF reg # buf_widx THEN "load_index" ELSE IF waiting THEN "hlt" ELSE "client"
  /\ UNCHANGED << ring, reg, key, waiting, history >>

ReadKey ==
  /\ pc = "read"
  /\ key' = buffer[reg]
  /\ pc' = "load_ridx_to_advance"
  /\ UNCHANGED << ring, reg, waiting, history >>

Advance ==
  /\ pc = "advance"
  /\ buf_ridx' = ADVANCE(reg)
  /\ pc' = IF waiting THEN "load_to_go_back" ELSE "client"
  /\ got' = IF waiting THEN got ELSE Append(got, key)
  /\ UNCHANGED << buffer, buf_widx, reg, key, waiting, pressed, dropped, overrun >>

-----------------------------------------------------------------------------
(* kb_wait: enable_intr(); halt_cpu() when there is no key, and the key it  *)
(* gets is put back                                                         *)
CallWait ==
  /\ pc = "client"
  /\ pc' = "load_ridx_to_test"
  /\ waiting' = TRUE
  /\ UNCHANGED << ring, reg, key, history >>

Halt ==
  /\ pc = "hlt"
  /\ pc' = "halted"
  /\ UNCHANGED << ring, reg, key, waiting, history >>

(* kb_putback: if(--buf_ridx < 0) buf_ridx += BUFSZ *)

GoBack ==
  /\ pc = "go_back"
  /\ buf_ridx' = reg
  /\ pc' = IF reg < 0 THEN "wrap" ELSE "test_full"
  /\ UNCHANGED << buffer, buf_widx, reg, key, waiting, history >>

Wrap ==
  /\ pc = "wrap"
  /\ buf_ridx' = buf_ridx + BUFSZ
  /\ pc' = "test_full"
  /\ UNCHANGED << buffer, buf_widx, reg, key, waiting, history >>

TestFull ==
  /\ pc = "test_full"
  /\ IF buf_ridx = buf_widx
     THEN pc' = "skip" /\ dropped' = dropped + 1
     ELSE pc' = "load_place" /\ UNCHANGED dropped
  /\ UNCHANGED << ring, reg, key, waiting, pressed, got, overrun >>

Skip ==
  /\ pc = "skip"
  /\ buf_ridx' = ADVANCE(buf_ridx)
  /\ pc' = "load_place"
  /\ UNCHANGED << buffer, buf_widx, reg, key, waiting, history >>

Put ==
  /\ pc = "put"
  /\ buffer' = [buffer EXCEPT ![reg] = key]
  /\ pc' = "client"
  /\ waiting' = FALSE
  /\ UNCHANGED << buf_ridx, buf_widx, reg, key, history >>

-----------------------------------------------------------------------------
Getkey ==
  \/ Load("load_ridx_to_test", buf_ridx, "test_empty")
  \/ TestEmpty
  \/ Load("load_index", buf_ridx, "read")
  \/ ReadKey
  \/ Load("load_ridx_to_advance", buf_ridx, "advance")
  \/ Advance
Putback ==
  \/ Load("load_to_go_back", buf_ridx - 1, "go_back")
  \/ GoBack \/ Wrap \/ TestFull \/ Skip
  \/ Load("load_place", buf_ridx, "put")
  \/ Put
Main == Getkey \/ Halt \/ Putback

-----------------------------------------------------------------------------
RingTypeOK ==
  /\ buffer \in [0 .. BUFSZ - 1 -> Keys \union {NoKey}]
  /\ buf_ridx \in -1 .. BUFSZ - 1 /\ buf_widx \in 0 .. BUFSZ - 1
  /\ reg \in -1 .. BUFSZ - 1 /\ key \in Keys \union {NoKey}
  /\ buf_ridx = -1 => pc = "wrap"
  /\ waiting \in BOOLEAN
  /\ pressed \in 0 .. MaxKeys /\ got \in Seq(Keys \union {NoKey}) /\ dropped \in Nat

(* the keys a reader would find from place r on *)
Unread(r) ==
  [i \in 1 .. (buf_widx - r) % BUFSZ |-> buffer[(r + i - 1) % BUFSZ]]

(* the key kb_wait has stepped over, before and after it steps back *)
PuttingBack == pc \in {"load_to_go_back", "go_back"}
StepsBack == pc \in {"wrap", "test_full", "skip", "load_place", "put"}

(* Until more keys are unread than the ring has room for, every key pressed *)
(* is either read or in the ring, once and in order, at every load and      *)
(* store of the main thread and although kb_wait takes keys out and puts    *)
(* them back.                                                               *)
FifoUntilOverrun ==
  ~overrun =>
    LET tail == IF PuttingBack THEN << key >> \o Unread(buf_ridx)
                ELSE IF StepsBack THEN << key >> \o Unread((buf_ridx + 1) % BUFSZ)
                ELSE Unread(buf_ridx)
    IN  got \o tail = [i \in 1 .. pressed |-> i]

(* A key is discarded only where kbintr "discard[s] the oldest keypress" of *)
(* a full ring or kb_putback "overwrite[s] the oldest key": a key is lost   *)
(* for each time one of them does so, never more.                           *)
LostKeys ==
  1 .. pressed \ ({got[i] : i \in DOMAIN got} \union {Unread(buf_ridx % BUFSZ)[i] :
                                          i \in DOMAIN Unread(buf_ridx % BUFSZ)})
OnlyOldestLost == pc = "client" => Cardinality(LostKeys) <= dropped
=============================================================================
