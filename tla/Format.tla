------------------------------- MODULE Format -------------------------------
(***************************************************************************)
(* printf and its kin (src/libc/stdio.c, intern_printf): the format is read *)
(* token by token, flags are gathered until a conversion uses them, and     *)
(* what it produces is written piece by piece to the terminal or to a       *)
(* buffer of sz bytes.  Numbers are turned into digits by itoa and utoa     *)
(* (src/libc/stdlib.c).                                                     *)
(*                                                                          *)
(* Characters are numbers: the digits are 0 to 15.                          *)
(***************************************************************************)
EXTENDS Integers, Sequences, SequencesExt

CONSTANTS
  Formats,     (* [fmt, args, sz]: a sequence of tokens; of arguments       *)
               (* [num, str]; and the buffer, sz = 0 for one without limit  *)
  WIDTH        (* bits of an int                                            *)

ASSUME FormatAssumption == WIDTH \in Nat \ {0}

Tokens == {"%", "#", "+", "-", "l", "0", "3", "8", "d", "u", "x", "o", "c", "s", "n", "text"}
MINUS == -1
PLUS == -2
BLANK == -3
HEX == -4       (* the x of 0x *)
TEXT == -5
PERCENT == -6
Pow2(n) == 2 ^ n
Unsigned(v) == v % Pow2(WIDTH)
SignedInt(v) == IF Unsigned(v) >= Pow2(WIDTH - 1) THEN Unsigned(v) - Pow2(WIDTH) ELSE Unsigned(v)

VARIABLES
  form, fi, ai,          (* the call; the next token, and argument          *)
  inconv,                (* fstart: a conversion has begun                  *)
  flags,                 (* base, alt, fwidth, padc, sign, left_align,      *)
                         (* unsig                                           *)
  out_text,              (* the cnum characters produced                    *)
  reach                  (* how far the buffer was written to               *)

formatVars == << form, fi, ai, inconv, flags, out_text, reach >>

Defaults == [base |-> 10, alt |-> FALSE, fwidth |-> 0, padc |-> BLANK,
             sign |-> FALSE, left |-> FALSE, unsig |-> FALSE]

FormatInit(formats) ==
  /\ form \in formats
  /\ fi = 1 /\ ai = 1 /\ inconv = FALSE /\ flags = Defaults
  /\ out_text = << >> /\ reach = 0

-----------------------------------------------------------------------------
(* the digits of a positive number, by what remains of dividing it again    *)
(* and again, turned around in the end                                      *)
Digits(val, base) ==
  LET rbuf[v \in 0 .. val] == IF v = 0 THEN << >> ELSE << v % base >> \o rbuf[v \div base]
  IN  Reverse(rbuf[val])
utoa(val, base) == IF val = 0 THEN << 0 >> ELSE Digits(val, base)
(* not of the smallest int, whose negative is itself *)
itoa(val, base) == IF val < 0 THEN << MINUS >> \o utoa(-val, base) ELSE utoa(val, base)

(* What BUF and SZ make of the place in the buffer and of what is left, and *)
(* bwrite of it: after exactly sz characters nothing seems to limit it      *)
Reached(at, len) ==
  LET left == IF form.sz = 0 \/ at >= form.sz THEN 0 ELSE form.sz - at
      sz == IF left > 0 /\ left <= len THEN left ELSE len
  IN  at + sz + 1
Output(pieces) ==
  LET after(s, len) == IF Reached(Len(s.text), len) > s.reach THEN Reached(Len(s.text), len) ELSE s.reach
      end == FoldLeft(LAMBDA s, p : [text |-> s.text \o p, reach |-> after(s, Len(p))],
                      [text |-> out_text, reach |-> reach], pieces)
  IN  out_text' = end.text /\ reach' = end.reach

Token == form.fmt[fi]
More == fi <= Len(form.fmt)
Arg == form.args[ai]

-----------------------------------------------------------------------------
Percent ==
  /\ More /\ Token = "%"
  /\ inconv' = TRUE /\ fi' = fi + 1
  /\ UNCHANGED << form, ai, flags, out_text, reach >>

Plain ==
  /\ More /\ ~inconv /\ Token # "%"
  /\ Output(<< << TEXT >> >>)
  /\ fi' = fi + 1
  /\ UNCHANGED << form, ai, inconv, flags >>

(* a character that means nothing in a conversion is passed over *)
Flag ==
  /\ More /\ inconv /\ Token \in {"#", "+", "-", "l", "0", "text"}
  /\ flags' = CASE Token = "#" -> [flags EXCEPT !.alt = TRUE]
                [] Token = "+" -> [flags EXCEPT !.sign = TRUE]
                [] Token = "-" -> [flags EXCEPT !.left = TRUE]
                [] Token = "0" -> [flags EXCEPT !.padc = 0]
                [] OTHER       -> flags
  /\ fi' = fi + 1
  /\ UNCHANGED << form, ai, inconv, out_text, reach >>

Width ==
  /\ More /\ inconv /\ Token \in {"3", "8"}
  /\ flags' = [flags EXCEPT !.fwidth = IF Token = "3" THEN 3 ELSE 8]
  /\ fi' = fi + 1
  /\ UNCHANGED << form, ai, inconv, out_text, reach >>

(* What is left of the flags after a conversion *)
Restored(f) == [Defaults EXCEPT !.sign = f.sign, !.left = f.left, !.unsig = f.unsig]

Padding(f, len) == [i \in 1 .. (IF f.fwidth > len THEN f.fwidth - len ELSE 0) |-> << f.padc >>]
Aligned(f, pieces, body) ==
  IF f.left THEN pieces \o Padding([f EXCEPT !.padc = BLANK], Len(body))
  ELSE Padding(f, Len(body)) \o pieces

Number(f, v) ==
  LET digits == IF f.unsig THEN utoa(Unsigned(v), f.base) ELSE itoa(SignedInt(v), f.base)
      plus == IF ~f.unsig /\ f.sign /\ SignedInt(v) >= 0 THEN << << PLUS >> >> ELSE << >>
  IN  Aligned(f, plus \o << digits >>, digits)

Pieces(c, f) ==
  CASE c \in {"d", "u", "x", "o"} ->
         LET g == [f EXCEPT !.base = CASE c = "x" -> 16 [] c = "o" -> 8 [] OTHER -> @,
                            !.unsig = @ \/ c \in {"u", "x"}]
             prefix == IF ~f.alt THEN << >>
                       ELSE CASE c = "x" -> << << 0, HEX >> >> [] c = "o" -> << << 0 >> >> [] OTHER -> << >>
         IN  prefix \o Number(g, Arg.num)
    [] c = "c" -> << << Arg.num >> >>
    [] c = "s" -> Aligned(f, << Arg.str >>, Arg.str)
    [] c = "n" -> << >>

Conversion ==
  /\ More /\ inconv /\ Token \in {"d", "u", "x", "o", "c", "s", "n"}
  /\ Output(Pieces(Token, flags))
  /\ flags' = Restored([flags EXCEPT !.unsig = @ \/ Token \in {"u", "x"}])
  /\ inconv' = FALSE
  /\ ai' = ai + 1 /\ fi' = fi + 1
  /\ UNCHANGED form

FormatNext == Percent \/ Plain \/ Flag \/ Width \/ Conversion
FormatDone == ~More

-----------------------------------------------------------------------------
(* The C standard's reading of the same format: every conversion has its    *)
(* own flags.  s.in is that a conversion has begun, s.f its flags.          *)
Value(c, v) == IF c = "d" THEN SignedInt(v) ELSE Unsigned(v)
Converted(c, f, arg) ==
  IF c = "n" THEN << >>
  ELSE IF c \in {"s", "c"}
  THEN LET body == IF c = "s" THEN arg.str ELSE << arg.num >>
           fill == [i \in 1 .. (IF f.width > Len(body) THEN f.width - Len(body) ELSE 0) |-> BLANK]
       IN  IF f.left THEN body \o fill ELSE fill \o body
  ELSE LET v == Value(c, arg.num)
           body == Digits(IF v < 0 THEN -v ELSE v, CASE c = "x" -> 16 [] c = "o" -> 8 [] OTHER -> 10)
           some == IF body = << >> THEN << 0 >> ELSE body
           front == IF v < 0 THEN << MINUS >>
                    ELSE IF c = "d" /\ f.sign THEN << PLUS >>
                    ELSE IF c = "x" /\ f.alt /\ v # 0 THEN << 0, HEX >>
                    ELSE IF c = "o" /\ f.alt /\ v # 0 THEN << 0 >> ELSE << >>
           missing == IF f.width > Len(front) + Len(some) THEN f.width - Len(front) - Len(some) ELSE 0
           fill == [i \in 1 .. missing |-> IF f.zero /\ ~f.left THEN 0 ELSE BLANK]
       IN  IF f.left THEN front \o some \o fill
           ELSE IF f.zero THEN front \o fill \o some ELSE fill \o front \o some

NoFlags == [width |-> 0, zero |-> FALSE, left |-> FALSE, sign |-> FALSE, alt |-> FALSE]
Meaning(g) ==
  FoldLeft(LAMBDA s, t :
      IF ~s.in THEN IF t = "%" THEN [s EXCEPT !.in = TRUE, !.f = NoFlags] ELSE [s EXCEPT !.out = Append(@, TEXT)]
      ELSE CASE t = "0" -> [s EXCEPT !.f.zero = TRUE]
             [] t \in {"3", "8"} -> [s EXCEPT !.f.width = IF t = "3" THEN 3 ELSE 8]
             [] t = "-" -> [s EXCEPT !.f.left = TRUE]
             [] t = "+" -> [s EXCEPT !.f.sign = TRUE]
             [] t = "#" -> [s EXCEPT !.f.alt = TRUE]
             [] t = "l" -> s
             [] t = "%" -> [s EXCEPT !.in = FALSE, !.out = Append(@, PERCENT)]
             [] OTHER   -> [s EXCEPT !.in = FALSE, !.out = @ \o Converted(t, s.f, g.args[s.n]), !.n = @ + 1],
    [in |-> FALSE, f |-> NoFlags, out |-> << >>, n |-> 1], g.fmt).out

FormatTypeOK ==
  /\ fi \in 1 .. Len(form.fmt) + 1 /\ ai <= Len(form.args) + 1 /\ inconv \in BOOLEAN

(* What is printed is what the format means, for any two conversions after  *)
(* one another, neither of which changes how the other is printed; and it   *)
(* stays inside of the buffer.  The conversions for which it is not so are  *)
(* left out of MCParts' KernelFormats, each in a set of its own.            *)
FormatRight ==
  /\ FormatTypeOK
  /\ FormatDone => out_text = Meaning(form)
  /\ form.sz > 0 => reach <= form.sz
=============================================================================
