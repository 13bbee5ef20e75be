------------------------------ MODULE Keyboard ------------------------------
(***************************************************************************)
(* The keyboard driver src/keyb.c: kbintr decodes the keyboard's bytes,     *)
(* keeps which keys are down (keystate, num_pressed), reboots on            *)
(* Ctrl-Alt-Del and appends the keys pressed to the ring (KeyRing), between *)
(* any two loads and stores of the main thread.  Real-mode calls take part: *)
(* int86 reads and throws away whatever byte the keyboard controller has    *)
(* (lowcode.s).  The keys are those whose codes the e0 prefix tells apart.  *)
(***************************************************************************)
EXTENDS KeyRing

CONSTANTS
  Used,        (* the keys of the keyboard that are used                    *)
  MaxWire      (* bound: bytes the keyboard and its controller hold         *)

scantbl_set1 == [ctrl |-> "LCTRL", alt |-> "LALT", del |-> "NUM_DOT"]
scantbl_set1_ext == [ctrl |-> "RCTRL", alt |-> "RALT", del |-> "DEL"]
Codes == DOMAIN scantbl_set1
Prefix == [code |-> "e0", release |-> TRUE]
AllKeys == {scantbl_set1[c] : c \in Codes} \union {scantbl_set1_ext[c] : c \in Codes}

ASSUME KeyboardAssumption == Used \subseteq AllKeys /\ MaxWire \in Nat

VARIABLES
  down,         (* the keys that are held down                              *)
  wire,         (* the bytes sent and not read: Prefix or [code, release]   *)
  ext,          (* the last byte was the prefix                             *)
  num_pressed, keystate,
  rebooted,
  asked         (* history: Del went down while Ctrl and Alt were held      *)

decoder == << ext, num_pressed, keystate, rebooted >>
vars == << ringVars, down, wire, decoder, asked >>

Init ==
  /\ RingInit
  /\ down = {} /\ wire = << >> /\ ext = FALSE
  /\ num_pressed = 0 /\ keystate = [k \in AllKeys |-> FALSE]
  /\ rebooted = FALSE /\ asked = FALSE

-----------------------------------------------------------------------------
(* The keyboard: what it sends when a key goes down, repeats or comes up *)
Sent(k, release) ==
  IF \E c \in Codes : scantbl_set1[c] = k
  THEN << [code |-> CHOOSE c \in Codes : scantbl_set1[c] = k, release |-> release] >>
  ELSE << Prefix, [code |-> CHOOSE c \in Codes : scantbl_set1_ext[c] = k, release |-> release] >>

Held(keys) == down \intersect keys # {}

Send(k, release) ==
  /\ ~rebooted
  /\ Len(wire) + Len(Sent(k, release)) <= MaxWire
  /\ wire' = wire \o Sent(k, release)
  /\ UNCHANGED << ringVars, decoder >>

(* MaxKeys bounds the presses sent, those on their way included *)
OnItsWay == Cardinality({i \in DOMAIN wire : ~wire[i].release})

GoesDown(k) ==
  /\ pressed + OnItsWay < MaxKeys
  /\ Send(k, FALSE)
  /\ down' = down \union {k}
  /\ asked' = (asked \/ (k = "DEL" /\ Held({"LALT", "RALT"}) /\ Held({"LCTRL", "RCTRL"})))

Press(k) == k \notin down /\ GoesDown(k)

(* the code of a key that stays down is sent again and again *)
Repeat(k) == k \in down /\ GoesDown(k)

Release(k) ==
  /\ k \in down
  /\ Send(k, TRUE)
  /\ down' = down \ {k}
  /\ UNCHANGED asked

-----------------------------------------------------------------------------
KeyOf(byte) == IF ext THEN scantbl_set1_ext[byte.code] ELSE scantbl_set1[byte.code]

CountAfter(byte) ==
  IF byte = Prefix THEN num_pressed
  ELSE IF ~byte.release THEN num_pressed + 1
  ELSE IF num_pressed > 0 THEN num_pressed - 1 ELSE 0

BugExtStays(byte) == byte = Prefix \/ (ext /\ byte.release)
ExtAfter(byte) == byte = Prefix

Reboots(byte) ==
  /\ byte # Prefix /\ ~byte.release
  /\ KeyOf(byte) = "DEL"
  /\ keystate["LALT"] \/ keystate["RALT"]
  /\ keystate["LCTRL"] \/ keystate["RCTRL"]

IsPress(byte) == byte # Prefix /\ ~byte.release

(* reboot() does not return *)
kbintr ==
  /\ wire # << >> /\ ~rebooted
  /\ wire' = Tail(wire)
  /\ LET byte == Head(wire) IN
       /\ ext' = ExtAfter(byte)
       /\ num_pressed' = CountAfter(byte)
       /\ rebooted' = Reboots(byte)
       /\ keystate' = IF byte = Prefix \/ Reboots(byte) THEN keystate
                      ELSE [keystate EXCEPT ![KeyOf(byte)] = ~byte.release]
       /\ IF IsPress(byte) /\ ~Reboots(byte) THEN AppendToBuffer
          ELSE UNCHANGED << ring, history >>
  /\ pc' = Awake
  /\ UNCHANGED << reg, key, waiting, down, asked >>

(* a real-mode call, which ends with `in $0x60, %al' *)
int86 ==
  /\ pc = "client"
  /\ wire # << >> /\ ~rebooted
  /\ wire' = Tail(wire)
  /\ UNCHANGED << ringVars, down, decoder, asked >>

(* the ring's steps, while the machine has not been rebooted *)
Running(step) == ~rebooted /\ step /\ UNCHANGED << down, wire, decoder, asked >>

Typing == \E k \in Used : Press(k) \/ Repeat(k) \/ Release(k)
Next ==
  \/ Typing \/ kbintr
  \/ Running(CallGetkey) \/ Running(CallWait) \/ Running(Main) \/ Running(timer_intr)

(* The main thread runs when no handler does, and the timer interrupt comes *)
(* 250 times a second; nobody has to press a key or ask for one.            *)
Spec == Init /\ [][Next]_vars /\ WF_vars(Running(Main)) /\ WF_vars(Running(timer_intr))

BiosSpec == Init /\ [][Next \/ int86]_vars

-----------------------------------------------------------------------------
Bytes == {Prefix} \union [code : Codes, release : BOOLEAN]

TypeOK ==
  /\ RingTypeOK
  /\ down \subseteq Used /\ wire \in Seq(Bytes) /\ Len(wire) <= MaxWire
  /\ ext \in BOOLEAN /\ num_pressed \in 0 .. MaxKeys
  /\ keystate \in [AllKeys -> BOOLEAN]
  /\ rebooted \in BOOLEAN /\ asked \in BOOLEAN

(* kb_wait returns once there is a key: an interrupt that comes before the  *)
(* hlt does not leave it asleep for good, for the next tick wakes it.       *)
WaitEnds == (waiting /\ buf_ridx # buf_widx) ~> (~waiting \/ rebooted)

(* When everything the keyboard sent has been read, kb_isdown of a key is   *)
(* whether it is held down, though two keys share each code and the prefix  *)
(* and the code come in two interrupts.  The machine reboots only if Del    *)
(* went down while Ctrl and Alt were held, and not on the decimal point of  *)
(* the numeric keypad, which has Del's code.                                *)
Settled == wire = << >> /\ ~ext /\ ~rebooted
StateIsDown ==
  /\ TypeOK
  /\ Settled => \A k \in Used : keystate[k] = (k \in down)
  /\ rebooted => asked

(* keyb.h: "You may also pass KB_ANY to test if any key is held down."      *)
AnyMeansHeld == Settled => (num_pressed > 0 => down # {})
=============================================================================
