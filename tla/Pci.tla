--------------------------------- MODULE Pci ---------------------------------
(***************************************************************************)
(* Finding the devices of the PCI bus (src/pci.c), which F5 does at the     *)
(* debug shell: the configuration space of every bus, device and function   *)
(* is read through two ports, and what answers is printed with the names of *)
(* its class and subclass.                                                  *)
(***************************************************************************)
EXTENDS Integers, Sequences, FiniteSets

CONSTANTS
  Buses, Slots,    (* 256 and 32 *)
  Boards           (* what may be in the slots: sets of functions, each     *)
                   (* [bus, dev, func, multi, class, subclass]              *)

ASSUME PciAssumption ==
  /\ {Buses, Slots} \subseteq Nat \ {0} /\ Boards # {}
  /\ \A set \in Boards : \A f \in set : f.bus \in 0 .. Buses - 1 /\ f.dev \in 0 .. Slots - 1 /\ f.func \in 0 .. 7
  (* one function answers at an address *)
  /\ \A set \in Boards : \A f, g \in set : f.bus = g.bus /\ f.dev = g.dev /\ f.func = g.func => f = g

VARIABLES
  board, bios, mechanisms,   (* the functions there are; what the BIOS says *)
  pci,                       (* "off", "reading", "done" or "panic"         *)
  at,                        (* what is read next                           *)
  isMulti,                   (* hdr_type of the device's function 0         *)
  found                      (* what was printed                            *)

pciVars == << board, bios, mechanisms, pci, at, isMulti, found >>

PciInit(boards, present, offered) ==
  /\ board \in boards /\ bios \in present /\ mechanisms \in offered
  /\ pci = "off" /\ at = [bus |-> 0, dev |-> 0, func |-> 0] /\ isMulti = FALSE /\ found = << >>

(* init_pci up to the loop; a second call finds what the first found        *)
init_pci ==
  /\ pci = "off"
  /\ pci' = IF bios /\ mechanisms # {} THEN IF 1 \in mechanisms THEN "reading" ELSE "panic" ELSE "done"
  /\ UNCHANGED << board, bios, mechanisms, at, isMulti, found >>

(* cfg_read32_m1: what answers at an address, of whose function two bits    *)
(* are put in the port                                                      *)
ADDR_FUNC(func) == func % 4
Answers(a) == { f \in board : f.bus = a.bus /\ f.dev = a.dev /\ f.func = ADDR_FUNC(a.func) }

(* class_str and subclass_str: the last subclass that is looked for in a    *)
(* table, and how many names that has                                       *)
LastLooked(c) ==
  CASE c \in {1, 2, 8, 9, 15} -> 4 [] c \in {3, 4} -> 2 [] c = 6 -> 8 [] c = 7 -> 3 [] c = 12 -> 5
    [] OTHER -> -1
NamesIn(c) ==
  CASE c \in {1, 2, 8, 9} -> 5 [] c \in {7, 15} -> 4 [] c \in {3, 4} -> 3 [] c = 6 -> 10 [] c = 12 -> 6
    [] OTHER -> 0
NameThere(f) == f.subclass > LastLooked(f.class) \/ f.subclass < NamesIn(f.class)
Line(a, f) == [at |-> a, is |-> f, named |-> NameThere(f)]

(* The loops of init_pci, enum_bus and enum_dev *)
NextDev(a) ==
  IF a.dev + 1 < Slots THEN [bus |-> a.bus, dev |-> a.dev + 1, func |-> 0]
                       ELSE [bus |-> a.bus + 1, dev |-> 0, func |-> 0]
BugUpToGap(a, multi, answers) ==
  IF answers /\ multi /\ a.func < 7 THEN [a EXCEPT !.func = @ + 1] ELSE NextDev(a)
Next_(a, multi, answers) ==
  IF (a.func > 0 \/ answers) /\ multi /\ a.func < 7 THEN [a EXCEPT !.func = @ + 1] ELSE NextDev(a)

(* One function: vendor ffff where none answers                             *)
enum_func ==
  /\ pci = "reading" /\ at.bus < Buses
  /\ LET answers == Answers(at) # {}
         f == CHOOSE g \in Answers(at) : TRUE
         multi == IF at.func = 0 THEN answers /\ f.multi ELSE isMulti
     IN  /\ found' = IF answers THEN Append(found, Line(at, f)) ELSE found
         /\ isMulti' = multi
         /\ at' = Next_(at, multi, answers)
  /\ UNCHANGED << board, bios, mechanisms, pci >>

PciEnd ==
  /\ pci = "reading" /\ at.bus = Buses
  /\ pci' = "done"
  /\ UNCHANGED << board, bios, mechanisms, at, isMulti, found >>

PciNext == init_pci \/ enum_func \/ PciEnd

-----------------------------------------------------------------------------
Printed == { found[k].is : k \in DOMAIN found }
(* a device is known by its function 0, which says if there are others      *)
ToFind ==
  { f \in board : \E g \in board : g.bus = f.bus /\ g.dev = f.dev /\ g.func = 0 /\ (f.func > 0 => g.multi) }

(* Whatever gaps there are between devices and functions, all that can be   *)
(* found is, and its names are in the tables.                               *)
PciRight ==
  /\ Printed \subseteq board /\ \A k \in DOMAIN found : found[k].named
  /\ pci = "done" /\ bios /\ mechanisms # {} => Printed = ToFind

(* Each function is printed once, under its own number *)
EachOnce == \A k, l \in DOMAIN found : found[k].is.func = found[k].at.func /\ (k # l => found[k].is # found[l].is)
=============================================================================
