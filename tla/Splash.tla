------------------------------- MODULE Splash -------------------------------
(***************************************************************************)
(* The splash screen and the compiler that makes its sprites.               *)
(*                                                                          *)
(* tools/csprite/src/main.c makes the machine code that draws them: csprite *)
(* cuts each row of a tile into runs of skipped and of copied pixels, and   *)
(* writes for each run stores of four, two and one pixels relative to edx,  *)
(* and additions to edx.                                                    *)
(*                                                                          *)
(* src/splash: splash_screen takes its buffers and pictures one after the   *)
(* other, goes to the end when one is not to be had, draws a tunnel and     *)
(* then flames of particles (psys.c) until a key or the end of its time,    *)
(* lets the text interface run, and frees what it has.  The shell's start   *)
(* command runs it again.  Times are in milliseconds.  A block of memory is *)
(* the run that took it.                                                    *)
(***************************************************************************)
EXTENDS Integers, Sequences, FiniteSets, SequencesExt

CONSTANTS
  Tiles,      (* sequences of rows, each a sequence of xsz pixels           *)
  Margins     (* how much longer the rows of the sheet, and those of the    *)
              (* framebuffer, are than the tile's: [sheet, screen]          *)

VARIABLES
  tile, margin,
  sprite,          (* "cut", "translate" or "done"                          *)
  ops, opno,       (* the runs, and how many of them are translated         *)
  pptr,            (* the next pixel in the sheet                           *)
  code, skip_acc   (* the instructions, and what edx still has to skip      *)

spriteVars == << tile, margin, sprite, ops, opno, pptr, code, skip_acc >>

ckey == 0
cmap_offs == 64
ysz == Len(tile)
xsz == Len(tile[1])
scansz == xsz + margin.sheet
fbpitch == xsz + margin.screen

SpriteInit(tiles, margins) ==
  /\ tile \in tiles /\ margin \in margins
  /\ sprite = "cut" /\ ops = << >> /\ opno = 0 /\ pptr = 0 /\ code = << >> /\ skip_acc = 0

-----------------------------------------------------------------------------
(* The first loop: runs within a row, and ENDL between rows *)
Mode(pixel) == IF pixel = ckey THEN "SKIP" ELSE "COPY"
RunsOfRow(row) ==
  FoldLeft(LAMBDA runs, pixel :
             IF runs # << >> /\ Last(runs).op = Mode(pixel)
             THEN [runs EXCEPT ![Len(runs)].len = @ + 1]
             ELSE Append(runs, [op |-> Mode(pixel), len |-> 1]),
           << >>, row)
ENDL == [op |-> "ENDL", len |-> 0]
Cut ==
  /\ sprite = "cut"
  /\ ops' = FoldLeft(LAMBDA all, row : all \o (IF all = << >> THEN << >> ELSE << ENDL >>) \o RunsOfRow(row),
                     << >>, tile)
  /\ sprite' = "translate"
  /\ UNCHANGED << tile, margin, opno, pptr, code, skip_acc >>

(* The pixel at a place of the sheet; beside the tile are others           *)
Pixel(p) == IF p % scansz < xsz THEN tile[(p \div scansz) + 1][(p % scansz) + 1] ELSE 255
Packed(from, n) == [i \in 1 .. n |-> (Pixel(from + i - 1) + cmap_offs) % 256]
Add(n) == [op |-> "add", by |-> n]
Store(from, at, n) == [op |-> "mov", to |-> at, px |-> Packed(from + at, n)]

(* movl while there are four; then three are a movb and a movw              *)
Remainder(len) == CASE len % 4 = 3 -> << 1, 2 >> [] len % 4 = 2 -> << 2 >> [] len % 4 = 1 -> << 1 >> [] OTHER -> << >>
Stores(from, len) ==
  LET whole == len - (len % 4)
      rest == Remainder(len)
  IN  [k \in 1 .. len \div 4 |-> Store(from, 4 * (k - 1), 4)]
        \o [k \in DOMAIN rest |-> Store(from, whole + (IF k = 1 THEN 0 ELSE rest[1]), rest[k])]

Translate ==
  /\ sprite = "translate" /\ opno < Len(ops)
  /\ LET o == ops[opno + 1] IN
       CASE o.op = "SKIP" -> /\ skip_acc' = skip_acc + o.len /\ pptr' = pptr + o.len
                             /\ UNCHANGED code
         [] o.op = "ENDL" -> /\ skip_acc' = skip_acc + fbpitch - xsz /\ pptr' = pptr + scansz - xsz
                             /\ UNCHANGED code
         [] o.op = "COPY" -> /\ code' = code \o (IF skip_acc = 0 THEN << >> ELSE << Add(skip_acc) >>)
                                          \o Stores(pptr, o.len)
                             /\ skip_acc' = o.len /\ pptr' = pptr + o.len
  /\ opno' = opno + 1
  /\ UNCHANGED << tile, margin, sprite, ops >>

Ret ==
  /\ sprite = "translate" /\ opno = Len(ops)
  /\ sprite' = "done"
  /\ UNCHANGED << tile, margin, ops, opno, pptr, code, skip_acc >>

SpriteNext == Cut \/ Translate \/ Ret

-----------------------------------------------------------------------------
(* What the processor does with the code: the bytes it stores, by address   *)
Run_ ==
  FoldLeft(LAMBDA cpu, i :
             IF i.op = "add" THEN [cpu EXCEPT !.edx = @ + i.by]
             ELSE [cpu EXCEPT !.mem = @ \union { << cpu.edx + i.to + k - 1, i.px[k] >> : k \in DOMAIN i.px }],
           [edx |-> 0, mem |-> {}], code)

(* The code draws the tile: each pixel that is not the key's at its place   *)
(* in the framebuffer, with its colour moved, and nothing else.  The runs   *)
(* fit the array csprite took for them.                                     *)
SpriteRight ==
  /\ Len(ops) <= (xsz + 1) * ysz
  /\ sprite = "done" =>
       Run_.mem = UNION { { << (r - 1) * fbpitch + c - 1, (tile[r][c] + cmap_offs) % 256 >> :
                             c \in { c \in 1 .. xsz : tile[r][c] # ckey } } : r \in 1 .. ysz }

-----------------------------------------------------------------------------
CONSTANTS
  Pictures,      (* what the files of the pictures are: [ui, tex], each     *)
                 (* "missing", "8 bit" or "other"                           *)
  Frames,        (* times between two draws                                 *)
  pmax,          (* particles: 8192                                         *)
  Lives,         (* what rand makes of plife: from 750 to 1249              *)
  MaxRuns        (* bound: runs of the splash screen                        *)

ASSUME SplashAssumption ==
  pmax \in Nat \ {0} /\ Frames \subseteq Nat \ {0} /\ Lives \subseteq 750 .. 1249 /\ MaxRuns \in Nat \ {0}

TUN_DUR == 11000
FLAME_DUR == 4000
SPLASH_DUR == TUN_DUR + FLAME_DUR
HEADER == 17 * 320
FB_SIZE == 64000
BOSS_DELAY == FLAME_DUR \div 3
BOSS_SPEED == 128

VARIABLES
  pictures,
  splash, runs,                (* where splash_screen is; how often it ran  *)
  ptrs, live,                   (* its pointers, 0 or the run of the block;  *)
                               (* the blocks that are allocated             *)
  msec,                        (* of the last draw                          *)
  plist, spawn_acc, prev_upd,  (* particles: [life, max_life, col]          *)
  zeroed                       (* how far draw cleared the back buffer      *)

splashVars == << pictures, splash, runs, ptrs, live, msec, plist, spawn_acc, prev_upd, zeroed >>
Owned == {"fb", "tunlut", "ui", "tex", "plist"}
Dead == [life |-> 0, max_life |-> 0, col |-> 0]

SplashInit(files) ==
  /\ pictures \in files
  /\ splash = "off" /\ runs = 0 /\ ptrs = [w \in Owned |-> 0] /\ live = {}
  /\ msec = 0 /\ plist = [i \in 1 .. pmax |-> Dead] /\ spawn_acc = 0 /\ prev_upd = 0 /\ zeroed = 0

-----------------------------------------------------------------------------
GoTo_(stage) == splash' = stage
StateKept == UNCHANGED << pictures, runs, msec, plist, spawn_acc, prev_upd, zeroed >>
Take_(w, pointers) == ptrs' = [pointers EXCEPT ![w] = runs] /\ live' = live \union { << w, runs >> }
Without(w, pointers) == ptrs' = [pointers EXCEPT ![w] = 0] /\ UNCHANGED live

starts ==
  /\ splash = "off" /\ runs < MaxRuns
  /\ GoTo_("fb") /\ runs' = runs + 1
  /\ UNCHANGED << pictures, ptrs, live, msec, plist, spawn_acc, prev_upd, zeroed >>

TakeBuffer(memory) ==
  /\ splash = "fb"
  /\ IF memory THEN Take_("fb", [ptrs EXCEPT !["tunlut"] = 0, !["ui"] = 0, !["tex"] = 0]) /\ GoTo_("tunnel")
               ELSE Without("fb", ptrs) /\ GoTo_("end")
  /\ StateKept
precalc_tunnel(memory) ==
  /\ splash = "tunnel"
  /\ IF memory THEN Take_("tunlut", ptrs) /\ GoTo_("ui") ELSE Without("tunlut", ptrs) /\ GoTo_("end")
  /\ StateKept

(* load_image: the file is there, there is memory; then its depth is tested *)
load_image(w, next, memory) ==
  /\ splash = w
  /\ IF pictures[w] # "missing" /\ memory THEN Take_(w, ptrs) ELSE Without(w, ptrs)
  /\ GoTo_(IF pictures[w] = "8 bit" /\ memory THEN next ELSE "end")
  /\ StateKept

(* create_emitter, whose result is not looked at *)
create_emitter(memory) ==
  /\ splash = "emitter"
  /\ IF memory THEN Take_("plist", ptrs) ELSE Without("plist", ptrs)
  /\ plist' = [i \in 1 .. pmax |-> Dead]
  /\ GoTo_("loop") /\ msec' = 0
  /\ UNCHANGED << pictures, runs, spawn_acc, prev_upd, zeroed >>

-----------------------------------------------------------------------------
(* update_psys: as many new particles as the accumulated rate says, each in *)
(* the first free place if there is one; then all grow older                *)
FirstDead(list) ==
  LET dead == { i \in DOMAIN list : list[i].life <= 0 }
  IN  IF dead = {} THEN {} ELSE { CHOOSE i \in dead : \A j \in dead : i <= j }
Spawned(list, n, lives) ==
  LET after[k \in 0 .. n] ==
        IF k = 0 THEN list
        ELSE [i \in DOMAIN list |->
                IF i \in FirstDead(after[k - 1]) THEN [life |-> lives[i], max_life |-> lives[i], col |-> 63]
                ELSE after[k - 1][i]]
  IN  after[n]
BugAgedDead(p, dt) == [p EXCEPT !.life = @ - dt, !.col = (63 * (p.life - dt)) \div p.max_life]
Aged(p, dt) ==
  IF p.life <= 0 THEN p
  ELSE IF p.life - dt > 0 THEN [p EXCEPT !.life = @ - dt, !.col = (63 * (p.life - dt)) \div p.max_life]
  ELSE [p EXCEPT !.life = 0]
(* the quotient of C is rounded towards 0 *)
Quotient(a, b) == IF a < 0 THEN -((-a) \div b) ELSE a \div b

(* psys.spawn_rate, as draw sets it *)
Rate(t) == ((IF 9 * t > 12000 THEN 3000 ELSE (9 * t) \div 4) + 200) * 256

update_psys(t) ==
  IF prev_upd <= 0 THEN prev_upd' = t /\ UNCHANGED << plist, spawn_acc >>
  ELSE LET dt == t - prev_upd
           acc == spawn_acc + Quotient(Rate(t) * dt, 1000)
           n == IF acc >= 256 THEN acc \div 256 ELSE 0
       IN  /\ prev_upd' = t
           /\ spawn_acc' = acc - 256 * n
           /\ \E lives \in [1 .. pmax -> Lives] :
                LET all == Spawned(plist, IF n > pmax THEN pmax ELSE n, lives)
                IN  plist' = [i \in DOMAIN all |-> Aged(all[i], dt)]

(* One turn of the loop: no key, and a draw at the time it is               *)
Draw_(step) ==
  /\ splash = "loop" /\ msec < SPLASH_DUR
  /\ msec' = msec + step
  /\ IF msec' >= TUN_DUR /\ msec' < SPLASH_DUR
     THEN zeroed' = HEADER + FB_SIZE /\ update_psys(msec' - TUN_DUR)
     ELSE UNCHANGED << zeroed, plist, spawn_acc, prev_upd >>
  /\ UNCHANGED << pictures, splash, runs, ptrs, live >>
LoopEnds ==
  /\ splash = "loop"        (* a key, or the time is over *)
  /\ GoTo_("end")
  /\ StateKept /\ UNCHANGED << ptrs, live >>

(* textui has returned; free of what is no block panics *)
Held == { << w, ptrs[w] >> : w \in { w \in Owned : ptrs[w] # 0 } }
TheEnd ==
  /\ splash = "end"
  /\ GoTo_(IF Held \subseteq live THEN "off" ELSE "panic")
  /\ live' = live \ Held
  /\ UNCHANGED ptrs /\ StateKept

(* Memory that is short, is so for the first run *)
SplashSteps(memory) ==
  \/ TakeBuffer(memory) \/ precalc_tunnel(memory) \/ load_image("ui", "tex", memory)
  \/ load_image("tex", "emitter", memory)
SplashRest == starts \/ (\E step \in Frames : Draw_(step)) \/ LoopEnds \/ TheEnd
SplashNext == SplashSteps(TRUE) \/ (runs = 1 /\ SplashSteps(FALSE)) \/ create_emitter(TRUE) \/ SplashRest
SplashAny == SplashRest \/ \E memory \in BOOLEAN : SplashSteps(memory) \/ create_emitter(memory)

-----------------------------------------------------------------------------
(* evalcurve: the control points it looks at for t = k/n                    *)
num_cv == 33
ControlPoints(k, n) ==
  LET at == (k * (num_cv - 1)) \div n
      i == IF at > num_cv - 2 THEN num_cv - 2 ELSE at
  IN  { IF i <= 0 THEN i ELSE i - 1, i, i + 1, IF i + 1 >= num_cv - 1 THEN i + 1 ELSE i + 2 }

(* The sprites of the name: where they are after t milliseconds, and how    *)
(* large; each is made of a sheet of three                                  *)
bosx == << 111, 143, 175, 207 >>
bos_soffs_x == << 40, 30, 20, 15 >>
bos_soffs_y == << 64, 48, 32, 24 >>
SpritesAt(t) ==
  LET past(i) == LET p == t - i * BOSS_SPEED IN IF p > BOSS_SPEED THEN BOSS_SPEED ELSE p
      size(i) == LET f == past(i) \div (BOSS_SPEED \div 4) IN IF f > 3 THEN 4 ELSE f + 1
      shown == IF t \div BOSS_SPEED + 1 > 4 THEN 4 ELSE t \div BOSS_SPEED + 1
  IN  { [x |-> 160 + Quotient((bosx[i + 1] - 160) * past(i), BOSS_SPEED) - bos_soffs_x[size(i)],
         y |-> 64 + (96 * past(i)) \div BOSS_SPEED - bos_soffs_y[size(i)],
         w |-> 2 * bos_soffs_x[size(i)], h |-> 2 * bos_soffs_y[size(i)]] : i \in 0 .. shown - 1 }
OnScreen(s) == s.x >= 0 /\ s.y >= 0 /\ s.x + s.w <= 320 /\ s.y + s.h <= 200
FlameTime == msec - TUN_DUR - BOSS_DELAY

(* However far it gets, what it took is freed, once; the loop goes on only  *)
(* while all its blocks are allocated; in the first run the particles'      *)
(* lives and colours and what is left to spawn stay in their ranges; the    *)
(* points of the curve that are looked at are in its array, and the sprites *)
(* on the screen.  Where in a block the loop writes is not part of this:    *)
(* see StaysInBuffer; the particles have no positions here.                 *)
SplashRight ==
  /\ splash # "panic" /\ (splash = "off" => live = {})
  /\ splash = "loop" => \A w \in Owned : << w, ptrs[w] >> \in live
  /\ \A i \in DOMAIN plist : plist[i].life \in 0 .. plist[i].max_life /\ plist[i].col \in 0 .. 63
  /\ runs = 1 => spawn_acc \in 0 .. 255
  /\ splash = "end" => \A k \in 0 .. 64 : ControlPoints(k, 64) \subseteq 0 .. num_cv - 1
  /\ splash = "loop" /\ FlameTime >= 0 => \A s \in SpritesAt(FlameTime) : OnScreen(s)

(* Nothing is freed twice; only the back buffer is cleared; flames come up  *)
(* at once                                                                  *)
FreesOnce == splash # "panic"
StaysInBuffer == zeroed <= FB_SIZE
FlamesComeUp == spawn_acc >= 0
=============================================================================
