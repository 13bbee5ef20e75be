-------------------------------- MODULE Mouse -------------------------------
(***************************************************************************)
(* The PS/2 mouse (src/psaux.c): psaux_intr assembles packets of three      *)
(* bytes that come one an interrupt, and proc_mouse_data moves the pointer, *)
(* within bounds that the program may change at any time.                   *)
(***************************************************************************)
EXTENDS Integers, Sequences, SequencesExt

CONSTANTS
  Moves,        (* what the mouse reports: [x, y, buttons, ovf], x and y in *)
                (* -256 .. 255                                              *)
  BoundSets,    (* bounds that are set: [x0, y0, x1, y1]                    *)
  MaxMoves      (* bound: reports                                           *)

ASSUME MouseAssumption ==
  /\ MaxMoves \in Nat
  /\ \A m \in Moves : m.x \in -256 .. 255 /\ m.y \in -256 .. 255

VARIABLES
  wire,          (* the bytes of the report that have not been read         *)
  data,          (* those of the packet that have                           *)
  mx, my, bnstate, bounds,
  reports,       (* history: how many there were,                           *)
  report,        (* the last one                                            *)
  due            (* history: where the pointer is to be, and its buttons    *)

mouseVars == << wire, data, mx, my, bnstate, bounds, reports, report, due >>
At(x, y, b) == [x |-> x, y |-> y, buttons |-> b]
Still == [x |-> 0, y |-> 0, buttons |-> 0, ovf |-> FALSE]
InitialBounds == [x0 |-> 0, y0 |-> 0, x1 |-> 319, y1 |-> 199]

MouseInit ==
  /\ wire = << >> /\ data = << >>
  /\ mx = 0 /\ my = 0 /\ bnstate = 0 /\ bounds = InitialBounds
  /\ reports = 0 /\ report = Still /\ due = At(0, 0, 0)

Within(v, low, high) == IF v < low THEN low ELSE IF v > high THEN high ELSE v

(* The mouse sends a report, when the last one was taken; it counts y       *)
(* upwards                                                                  *)
Flags(m) == [xsign |-> m.x < 0, ysign |-> m.y < 0, buttons |-> m.buttons, ovf |-> m.ovf]
Report(m) ==
  /\ wire = << >> /\ reports < MaxMoves
  /\ wire' = << Flags(m), m.x % 256, m.y % 256 >>
  /\ reports' = reports + 1
  /\ report' = m
  /\ UNCHANGED << data, mx, my, bnstate, bounds, due >>

Signed(sign, byte) == IF sign THEN byte - 256 ELSE byte

proc_mouse_data(d) ==
  IF d[1].ovf THEN UNCHANGED << mx, my, bnstate >>
  ELSE /\ bnstate' = d[1].buttons
       /\ mx' = Within(mx + Signed(d[1].xsign, d[2]), bounds.x0, bounds.x1)
       /\ my' = Within(my - Signed(d[1].ysign, d[3]), bounds.y0, bounds.y1)

psaux_intr ==
  /\ wire # << >>
  /\ wire' = Tail(wire)
  /\ IF Len(data) < 2
     THEN data' = Append(data, Head(wire)) /\ UNCHANGED << mx, my, bnstate >>
     ELSE data' = << >> /\ proc_mouse_data(Append(data, Head(wire)))
  /\ due' = IF report.ovf \/ Len(wire) > 1 THEN due
            ELSE At(Within(due.x + report.x, bounds.x0, bounds.x1),
                    Within(due.y - report.y, bounds.y0, bounds.y1), report.buttons)
  /\ UNCHANGED << bounds, reports, report >>

set_mouse_bounds(b) ==
  /\ bounds' = b
  /\ UNCHANGED << wire, data, mx, my, bnstate, reports, report, due >>

(* int86 throws a byte away; whatever byte then comes first is taken as the *)
(* flags (a movement's as some of them)                                     *)
Int86Reads ==
  /\ wire # << >>
  /\ wire' = Tail(wire)
  /\ UNCHANGED << data, mx, my, bnstate, bounds, reports, report, due >>

MouseNext ==
  (\E m \in Moves : Report(m)) \/ psaux_intr \/ (\E b \in BoundSets : set_mouse_bounds(b))
MouseBios == MouseNext \/ Int86Reads

-----------------------------------------------------------------------------
(* When a report has been taken, the pointer is where all reports so far    *)
(* have brought it, clamped at each to the bounds of that time, and the     *)
(* packets begin with a report's first byte.                                *)
PointerRight ==
  /\ Len(data) + Len(wire) \in {0, 3}
  /\ wire = << >> => due = At(mx, my, bnstate)

(* The pointer is in its bounds *)
PointerInBounds == mx \in bounds.x0 .. bounds.x1 /\ my \in bounds.y0 .. bounds.y1
=============================================================================
