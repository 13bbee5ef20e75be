-------------------------------- MODULE Clock -------------------------------
(***************************************************************************)
(* The time of day: the real-time clock is read once, register by register, *)
(* while it goes on (src/rtc.c), its time becomes start_time, and from then *)
(* on time is start_time and the ticks since (src/libc/time.c), which       *)
(* gmtime turns into a date again.                                          *)
(***************************************************************************)
EXTENDS Integers, Sequences, SequencesExt

CONSTANTS
  TICK_FREQ_HZ,
  Dates,      (* when the machine is switched on: [y, mon, d, h, min, s]    *)
  Window,     (* register accesses between the busy flag and the update     *)
  Period,     (* register accesses between two updates                      *)
  MaxTicks    (* bound: timer ticks                                         *)

ASSUME ClockAssumption ==
  /\ TICK_FREQ_HZ \in Nat \ {0} /\ MaxTicks \in Nat
  /\ Window \in 6 .. Period - 1 /\ Period \in Nat
  /\ \A t \in Dates : t.y \in 1970 .. 2037

MINSEC == 60
HOURSEC == 60 * MINSEC
DAYSEC == 24 * HOURSEC
EPOCH_WDAY == 4

Years == 1970 .. 2038
is_leap_year(yr) == yr % 400 = 0 \/ (yr % 100 # 0 /\ yr % 4 = 0)
mdays(yr) == << 31, IF is_leap_year(yr) THEN 29 ELSE 28, 31, 30, 31, 30, 31, 31, 30, 31, 30, 31 >>
YEARDAYS(yr) == IF is_leap_year(yr) THEN 366 ELSE 365

SumOf(s, n) == FoldLeft(LAMBDA x, y : x + y, 0, SubSeq(s, 1, n))

day_of_year(year, mon, day) == day + SumOf(mdays(year), mon)

(* months count from 0 and days from 1, as in struct tm *)
DaysBefore(year) == SumOf([i \in 1 .. year - 1970 |-> YEARDAYS(1969 + i)], year - 1970)

mktime(tm) ==
  (day_of_year(tm.y, tm.mon, tm.d - 1) + DaysBefore(tm.y)) * DAYSEC
    + tm.h * HOURSEC + tm.min * MINSEC + tm.s

gmtime(t) ==
  LET days == t \div DAYSEC
      rest == t % DAYSEC
      left[yr \in Years] ==    (* days that are left when the loop is at yr *)
        IF yr = 1970 THEN days ELSE left[yr - 1] - YEARDAYS(yr - 1)
      year == CHOOSE yr \in Years : left[yr] >= 0 /\ left[yr] < YEARDAYS(yr)
      mon  == CHOOSE m \in 0 .. 11 :
                /\ SumOf(mdays(year), m) <= left[year]
                /\ left[year] < SumOf(mdays(year), m + 1)
  IN  [y |-> year, mon |-> mon, d |-> left[year] - SumOf(mdays(year), mon) + 1,
       h |-> rest \div HOURSEC, min |-> (rest % HOURSEC) \div MINSEC, s |-> rest % MINSEC,
       wday |-> (days + EPOCH_WDAY) % 7, yday |-> left[year]]

-----------------------------------------------------------------------------
(* The clock chip: its date, its mode, and its registers *)
Fields == << "s", "min", "h", "d", "mon", "y" >>    (* as they are read *)
Modes == [bcd : BOOLEAN, h24 : BOOLEAN]
Pm == 128

NextSecond(t) ==
  IF t.s < 59 THEN [t EXCEPT !.s = @ + 1]
  ELSE IF t.min < 59 THEN [t EXCEPT !.s = 0, !.min = @ + 1]
  ELSE IF t.h < 23 THEN [t EXCEPT !.s = 0, !.min = 0, !.h = @ + 1]
  ELSE IF t.d < mdays(t.y)[t.mon + 1] THEN [t EXCEPT !.s = 0, !.min = 0, !.h = 0, !.d = @ + 1]
  ELSE IF t.mon < 11 THEN [t EXCEPT !.s = 0, !.min = 0, !.h = 0, !.d = 1, !.mon = @ + 1]
  ELSE [y |-> t.y + 1, mon |-> 0, d |-> 1, h |-> 0, min |-> 0, s |-> 0]

Coded(m, v) == IF m.bcd THEN 16 * (v \div 10) + (v % 10) ELSE v
Register(m, t, field) ==
  CASE field = "h" /\ ~m.h24 -> Coded(m, IF t.h % 12 = 0 THEN 12 ELSE t.h % 12)
                                  + (IF t.h >= 12 THEN Pm ELSE 0)
    [] field = "mon" -> Coded(m, t.mon + 1)
    [] field = "y"   -> Coded(m, t.y % 100)
    [] OTHER         -> Coded(m, t[field])

VARIABLES
  now, chip,     (* the chip's date, and its mode                           *)
  until,         (* register accesses until it goes on to the next second   *)
  ready,         (* read_rtc's loop on the busy flag is over                *)
  regs,          (* what it has read                                        *)
  seen,          (* history: the date when the loop was over                *)
  start_time, nticks

clockVars == << now, chip, until, ready, regs, seen, start_time, nticks >>

ClockInit(dates, modes, phases) ==
  /\ now \in dates /\ chip \in modes /\ until \in phases
  /\ ready = FALSE /\ regs = << >> /\ seen = now
  /\ start_time = -1 /\ nticks = 0

Busy == until <= Window

(* Reading a register takes time; the chip may go on meanwhile *)
Access ==
  IF until = 1 THEN until' = Period /\ now' = NextSecond(now)
  ELSE until' = until - 1 /\ UNCHANGED now

Reading == start_time = -1

(* while(read_reg(REG_STATA) & STATA_BUSY), which is not looked at again *)
BugStatusIgnored(busy) == TRUE
GoesOn(busy) == ~busy
ReadStatus ==
  /\ Reading /\ ~ready
  /\ Access
  /\ ready' = GoesOn(Busy)
  /\ seen' = now
  /\ UNCHANGED << chip, regs, start_time, nticks >>

read_reg ==
  /\ Reading /\ ready /\ Len(regs) < Len(Fields)
  /\ regs' = Append(regs, Register(chip, now, Fields[Len(regs) + 1]))
  /\ Access
  /\ UNCHANGED << chip, ready, seen, start_time, nticks >>

BCD_TO_BIN(x) == ((x \div 16) % 16) * 10 + (x % 16)

(* what read_rtc makes of the registers *)
tm_of(r, m) ==
  LET pm   == r[3] >= Pm
      raw  == [r EXCEPT ![3] = @ % Pm]
      bin  == IF m.bcd THEN [i \in DOMAIN raw |-> BCD_TO_BIN(raw[i])] ELSE raw
      h12  == IF bin[3] = 12 THEN 0 ELSE bin[3]
  IN  [s |-> bin[1], min |-> bin[2], d |-> bin[4], mon |-> bin[5] - 1,
       h |-> IF m.h24 THEN bin[3] ELSE IF pm THEN h12 + 12 ELSE h12,
       y |-> 1900 + (IF bin[6] < 100 THEN bin[6] + 100 ELSE bin[6] - 1900)]

init_rtc ==
  /\ Reading /\ Len(regs) = Len(Fields)
  /\ start_time' = mktime(tm_of(regs, chip))
  /\ UNCHANGED << now, chip, until, ready, regs, seen, nticks >>

(* timer_handler, on the chip's next tick *)
TickCounted ==
  /\ ~Reading /\ nticks < MaxTicks
  /\ nticks' = nticks + 1
  /\ UNCHANGED << now, chip, until, ready, regs, seen, start_time >>

ClockNext == ReadStatus \/ read_reg \/ init_rtc \/ TickCounted
ClockDone == ~Reading /\ nticks = MaxTicks

time == start_time + nticks \div TICK_FREQ_HZ

-----------------------------------------------------------------------------
Date(tm) == [f \in {"y", "mon", "d", "h", "min", "s"} |-> tm[f]]

(* The day of the week, and of the year, counted without the calendar above *)
WeekDay(t) ==
  LET shift == << 0, 3, 2, 5, 0, 3, 5, 1, 4, 6, 2, 4 >>
      y == IF t.mon < 2 THEN t.y - 1 ELSE t.y
  IN  (y + y \div 4 - y \div 100 + y \div 400 + shift[t.mon + 1] + t.d) % 7

LaterBy(t, secs) ==
  LET after[k \in 0 .. secs] == IF k = 0 THEN t ELSE NextSecond(after[k - 1])
  IN  after[secs]

ClockTypeOK ==
  /\ chip \in Modes /\ until \in 1 .. Period /\ ready \in BOOLEAN
  /\ Len(regs) <= Len(Fields) /\ nticks \in 0 .. MaxTicks /\ start_time >= -1

(* The time is the clock's, whatever second, midnight, month or year it     *)
(* crosses while its registers are read and while the ticks are counted,    *)
(* and in each of the chip's modes; gmtime's day of the week is right.      *)
ClockRight ==
  /\ ClockTypeOK
  /\ ~Reading =>
       LET is == gmtime(time)
           due == LaterBy(seen, nticks \div TICK_FREQ_HZ)
       IN  Date(is) = due /\ is.wday = WeekDay(due)
=============================================================================
