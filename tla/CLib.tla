-------------------------------- MODULE CLib --------------------------------
(***************************************************************************)
(* The C library's sorting, memory, strings and numbers.                    *)
(*                                                                          *)
(* qsort of src/libc/stdlib.c: segments of fewer than four elements are     *)
(* sorted by insertion, the others split around the middle one of their     *)
(* first, middle and last element.  An element is its key.                  *)
(*                                                                          *)
(* src/libc/string.c, string_asm.s and strtol of stdlib.c: the loops of the *)
(* functions, over bytes and words, against what the C standard says they   *)
(* do. A call is made once and returns.  Characters are numbers: the digits *)
(* are 0 to 15, other characters above.  A string is a sequence, without    *)
(* its final zero.                                                          *)
(***************************************************************************)
EXTENDS Integers, Sequences, SequencesExt

CONSTANT Arrays     (* what it is asked to sort *)

ASSUME SortAssumption == \A a \in Arrays : a \in Seq(Nat)

QSORT_THRESHOLD == 4
NoScan == [lo |-> 0, hi |-> 0, left |-> 0, right |-> 0]

VARIABLES
  given,   (* history: the array as it was                                  *)
  arr,
  todo,    (* the calls not begun, as segments [lo, hi], the next one first *)
  scan     (* the split that is going on                                    *)

sortVars == << given, arr, todo, scan >>

SortInit(arrays) ==
  /\ given \in arrays /\ arr = given
  /\ todo = << [lo |-> 1, hi |-> Len(given)] >> /\ scan = NoScan

Count(seg) == seg.hi - seg.lo + 1
Splitting == scan # NoScan

(* ins_sort: each element goes behind those that are not greater *)
Inserted(s) ==
  LET ins[k \in 0 .. Len(s)] ==
        IF k = 0 THEN << >>
        ELSE SelectSeq(ins[k - 1], LAMBDA y : y <= s[k]) \o << s[k] >>
               \o SelectSeq(ins[k - 1], LAMBDA y : y > s[k])
  IN  ins[Len(s)]

InsSort ==
  /\ ~Splitting /\ todo # << >> /\ Count(Head(todo)) < QSORT_THRESHOLD
  /\ LET seg == Head(todo) IN
       arr' = SubSeq(arr, 1, seg.lo - 1) \o Inserted(SubSeq(arr, seg.lo, seg.hi))
                \o SubSeq(arr, seg.hi + 1, Len(arr))
  /\ todo' = Tail(todo)
  /\ UNCHANGED << given, scan >>

BugSwap(a, i, j) == [a EXCEPT ![i] = a[j]]
SWAP(a, i, j) == [a EXCEPT ![i] = a[j], ![j] = a[i]]

(* the pivot goes to the first place, and one not less to the last *)
BugMedian(a, lo, mid, hi) == IF a[lo] < a[mid] THEN SWAP(a, lo, mid) ELSE a
Median(a, lo, mid, hi) ==
  LET b == IF a[lo] < a[mid] THEN SWAP(a, lo, mid) ELSE a
  IN  IF b[hi] < b[lo] THEN SWAP(b, lo, hi) ELSE b

Split ==
  /\ ~Splitting /\ todo # << >> /\ Count(Head(todo)) >= QSORT_THRESHOLD
  /\ LET seg == Head(todo) IN
       /\ arr' = Median(arr, seg.lo, seg.lo + Count(seg) \div 2, seg.hi)
       /\ scan' = [lo |-> seg.lo, hi |-> seg.hi, left |-> seg.lo + 1, right |-> seg.hi - 1]
  /\ todo' = Tail(todo)
  /\ UNCHANGED given

(* The two inner loops stop at the first element that is on the wrong side; *)
(* 0 and Len + 1 when there is none before the end of the array.            *)
Pivot == arr[scan.lo]
LeftStop ==
  LET stops == { i \in scan.left .. Len(arr) : arr[i] >= Pivot }
  IN  IF stops = {} THEN Len(arr) + 1 ELSE CHOOSE i \in stops : \A j \in stops : i <= j
RightStop ==
  LET stops == { i \in 1 .. scan.right : arr[i] <= Pivot }
  IN  IF stops = {} THEN 0 ELSE CHOOSE i \in stops : \A j \in stops : i >= j

Exchange ==
  /\ Splitting /\ LeftStop < RightStop
  /\ arr' = SWAP(arr, LeftStop, RightStop)
  /\ scan' = [scan EXCEPT !.left = LeftStop, !.right = RightStop]
  /\ UNCHANGED << given, todo >>

Separate ==
  /\ Splitting /\ LeftStop >= RightStop
  /\ arr' = SWAP(arr, scan.lo, RightStop)
  /\ todo' = << [lo |-> scan.lo, hi |-> RightStop - 1],
                [lo |-> RightStop + 1, hi |-> scan.hi] >> \o todo
  /\ scan' = NoScan
  /\ UNCHANGED given

SortNext == InsSort \/ Split \/ Exchange \/ Separate
SortDone == todo = << >> /\ ~Splitting

-----------------------------------------------------------------------------
SortTypeOK ==
  /\ arr \in Seq(Nat) /\ Len(arr) = Len(given)
  /\ \A i \in DOMAIN todo : todo[i] \in [lo : Nat, hi : Nat]
  /\ Splitting => scan.lo \in DOMAIN arr /\ scan.hi \in DOMAIN arr

SameElements(a, b) ==
  \A x \in ToSet(a) \union ToSet(b) :
    Len(SelectSeq(a, LAMBDA y : y = x)) = Len(SelectSeq(b, LAMBDA y : y = x))
Ascending(a) == \A i, j \in DOMAIN a : i < j => a[i] <= a[j]

(* qsort leaves the elements it was given, in order, and its inner loops,   *)
(* which look for no end, stop within the segment: the pivot is chosen so   *)
(* that there is an element to stop at on either side.                      *)
SortRight ==
  /\ SortTypeOK
  /\ SameElements(arr, given)
  /\ Splitting => LeftStop <= scan.hi /\ RightStop >= scan.lo
  /\ SortDone => Ascending(arr)

-----------------------------------------------------------------------------
CONSTANT LibCalls
  (* records: [fn |-> "memmove", mem, d, s, n], [fn |-> "memcmp", mem, a, b,  *)
  (* n] with addresses in mem, [fn |-> "strtol", str, base], [fn |->          *)
  (* "strcmp", s, t], [fn |-> "strncmp", s, t, n], [fn |-> "strstr", s, t],   *)
  (* [fn |-> "strrchr", s, c], [fn |-> "memset", mem, d, v, n], "memset16"   *)
  (* alike with a pair v of bytes, "memcpy" as "memmove"                    *)

ASSUME CLibAssumption ==
  \A k \in LibCalls : k.fn \in {"memset", "memset16", "memcpy", "memmove", "memcmp", "strtol", "strcmp",
                                "strncmp", "strstr", "strrchr"}

X_CHAR == 20
SPACE_CHAR == 21
MINUS_CHAR == 22
PLUS_CHAR == 23
NUL == -1
NoPtr == -1

VARIABLES
  lib,      (* the call                                                     *)
  libret    (* what it returned, or Calling                                 *)
libVars == << lib, libret >>
Calling == << >>

LibInit(calls) == lib \in calls /\ libret = Calling

-----------------------------------------------------------------------------
(* byte by byte, upwards if the destination is not above the source *)
CopyOrder(d, s, n) == IF d <= s THEN [i \in 1 .. n |-> i - 1] ELSE [i \in 1 .. n |-> n - i]
memmove(mem_, d, s, n) ==
  FoldLeft(LAMBDA m, i : [m EXCEPT ![d + i] = m[s + i]], mem_, CopyOrder(d, s, n))

(* n times the bytes of w from d on *)
Stored_(m, d, n, w) ==
  [x \in DOMAIN m |-> IF x - d \in 0 .. n * Len(w) - 1 THEN w[((x - d) % Len(w)) + 1] ELSE m[x]]

(* As many bytes as the address is beyond a word, then words, then the rest *)
(* below four.  Nothing compares the first number with n: when it is larger *)
(* the number of words is one below 2^30.                                   *)
Everywhere == 1000
memset(m, d, v, n) ==
  LET pre == d % 4
      words == IF n < pre THEN Everywhere ELSE (n - pre) \div 4
      first == Stored_(m, d, pre, << v >>)
      most == Stored_(first, d + pre, words, << v, v, v, v >>)
  IN  IF n = 0 THEN m ELSE IF pre > 0 /\ n = pre THEN first
      ELSE Stored_(most, d + pre + 4 * words, (n - pre) % 4, << v >>)

(* From an odd address on, the first byte and the last are stored and the   *)
(* bytes between them are the same pairs with their bytes swapped; one pair *)
(* to reach a word, then two at a time, and the last                        *)
memset16(m, d, v, n) ==
  LET odd == d % 2
      ends == IF odd = 0 THEN m ELSE [m EXCEPT ![d] = v[1], ![d + 2 * n - 1] = v[2]]
      w == IF odd = 0 THEN v ELSE << v[2], v[1] >>
      left == n - odd
      pre == IF d % 4 \in {1, 2} /\ left > 0 THEN 1 ELSE 0
      twos == (left - pre) \div 2
      from == d + odd + 2 * pre
      most == Stored_(Stored_(ends, d + odd, pre, w), from, twos, w \o w)
  IN  IF n = 0 THEN m ELSE Stored_(most, from + 4 * twos, (left - pre) % 2, w)

(* words upwards, then the bytes below four *)
Moved_(m, d, s, n) == [x \in DOMAIN m |-> IF x - d \in 0 .. n - 1 THEN m[s + x - d] ELSE m[x]]
memcpy(mem_, d, s, n) ==
  LET words == FoldLeft(LAMBDA m, k : Moved_(m, d + 4 * k - 4, s + 4 * k - 4, 4),
                        mem_, [k \in 1 .. n \div 4 |-> k])
  IN  FoldLeft(LAMBDA m, k : Moved_(m, d + n - (n % 4) + k - 1, s + n - (n % 4) + k - 1, 1),
               words, [k \in 1 .. n % 4 |-> k])

(* the first difference of the bytes from a and b on *)
CompareBytes(m, a, b, n) ==
  LET differ == { i \in 0 .. n - 1 : {a + i, b + i} \subseteq DOMAIN m /\ m[a + i] # m[b + i] }
      i == CHOOSE i \in differ : \A j \in differ : i <= j
  IN  IF differ = {} THEN 0 ELSE m[a + i] - m[b + i]

ToAligned(x) == (4 - (x % 4)) % 4
SameWord(m, a, b) == \A i \in 0 .. 3 : m[a + i] = m[b + i]
(* words are compared when both are at the same distance from one.  The     *)
(* loop that reaches the first word takes one from n before it looks        *)
(* whether none is left: from 0 it goes on to the first difference.         *)
memcmp(m, a, b, n) ==
  LET offs  == ToAligned(a)
      first == IF offs < n THEN offs ELSE n
      left  == n - first
      words == { w \in 0 .. left \div 4 :
                   \A v \in 0 .. w - 1 : SameWord(m, a + offs + 4 * v, b + offs + 4 * v) }
      same  == CHOOSE w \in words : \A v \in words : v <= w
  IN  IF offs # ToAligned(b) THEN CompareBytes(m, a, b, n)
      ELSE IF n = 0 /\ offs > 0 THEN CompareBytes(m, a, b, Everywhere)
      ELSE IF CompareBytes(m, a, b, first) # 0 \/ left = 0 THEN CompareBytes(m, a, b, first)
      ELSE CompareBytes(m, a + offs + 4 * same, b + offs + 4 * same, left - 4 * same)

-----------------------------------------------------------------------------
At_(s, i) == IF i \in DOMAIN s THEN s[i] ELSE NUL
SkipSpaces(s) ==
  LET others == { i \in DOMAIN s : s[i] # SPACE_CHAR }
  IN  IF others = {} THEN Len(s) + 1 ELSE CHOOSE i \in others : \A j \in others : i <= j

Base(s, i, base) ==
  IF base # 0 THEN base
  ELSE IF At_(s, i) # 0 THEN 10 ELSE IF At_(s, i + 1) = X_CHAR THEN 16 ELSE 8

strtol(s, base0) ==
  LET i     == SkipSpaces(s)
      base  == Base(s, i, base0)
      begin == IF At_(s, i) \in {MINUS_CHAR, PLUS_CHAR} THEN i + 1 ELSE i
      end   == FoldLeft(LAMBDA r, c : IF r.over \/ c >= base THEN [r EXCEPT !.over = TRUE]
                                      ELSE [r EXCEPT !.acc = @ * base + c, !.ptr = @ + 1],
                        [acc |-> 0, ptr |-> begin, over |-> FALSE], SubSeq(s, begin, Len(s)))
  IN  << IF At_(s, i) = MINUS_CHAR THEN -end.acc ELSE end.acc, IF end.ptr = begin THEN 1 ELSE end.ptr >>

(* the number of characters that the loops of the comparing functions pass *)
Passed(s, t, n) ==
  LET stops == { k \in 0 .. n : k = n \/ At_(s, k + 1) = NUL \/ At_(t, k + 1) = NUL \/ s[k + 1] # t[k + 1] }
  IN  CHOOSE k \in stops : \A l \in stops : k <= l
Long(s, t) == Len(s) + Len(t) + 1
strcmp(s, t) == LET k == Passed(s, t, Long(s, t)) IN At_(s, k + 1) - At_(t, k + 1)
(* n-- is taken once more when the loop ends *)
strncmp(s, t, n) ==
  LET k == Passed(s, t, n) IN IF n - k - 1 <= 0 THEN 0 ELSE At_(s, k + 1) - At_(t, k + 1)

strstr(s, t) ==
  LET hits == { i \in DOMAIN s : LET k == Passed(SubSeq(s, i, Len(s)), t, Long(s, t)) IN k = Len(t) }
  IN  IF hits = {} THEN NoPtr ELSE CHOOSE i \in hits : \A j \in hits : i <= j
strrchr(s, c) ==
  LET hits == { i \in DOMAIN s : s[i] = c }
  IN  IF hits = {} THEN NoPtr ELSE CHOOSE i \in hits : \A j \in hits : i >= j

Returns ==
  /\ libret = Calling
  /\ libret' = CASE lib.fn = "memset"  -> << memset(lib.mem, lib.d, lib.v, lib.n) >>
                 [] lib.fn = "memset16" -> << memset16(lib.mem, lib.d, lib.v, lib.n) >>
                 [] lib.fn = "memcpy"  -> << memcpy(lib.mem, lib.d, lib.s, lib.n) >>
                 [] lib.fn = "memmove" -> << memmove(lib.mem, lib.d, lib.s, lib.n) >>
                 [] lib.fn = "memcmp"  -> << memcmp(lib.mem, lib.a, lib.b, lib.n) >>
                 [] lib.fn = "strtol"  -> strtol(lib.str, lib.base)
                 [] lib.fn = "strcmp"  -> << strcmp(lib.s, lib.t) >>
                 [] lib.fn = "strncmp" -> << strncmp(lib.s, lib.t, lib.n) >>
                 [] lib.fn = "strstr"  -> << strstr(lib.s, lib.t) >>
                 [] lib.fn = "strrchr" -> << strrchr(lib.s, lib.c) >>
  /\ UNCHANGED lib

-----------------------------------------------------------------------------
(* The standard's meaning: s is less than t at the first place they differ  *)
SignOf(v) == IF v < 0 THEN -1 ELSE IF v > 0 THEN 1 ELSE 0
Order(s, t) ==
  IF s = t THEN 0
  ELSE IF IsPrefix(s, t) THEN -1 ELSE IF IsPrefix(t, s) THEN 1
  ELSE CHOOSE o \in {-1, 1} : \E k \in DOMAIN s \intersect DOMAIN t :
         SubSeq(s, 1, k - 1) = SubSeq(t, 1, k - 1) /\ s[k] # t[k] /\ o = SignOf(s[k] - t[k])
Bytes_(m, a, n) == [i \in 1 .. n |-> m[a + i - 1]]
Upto(s, n) == SubSeq(s, 1, IF n < Len(s) THEN n ELSE Len(s))

(* Spaces, a sign, 0x where the base allows it, and the longest number; the *)
(* whole string is left where there is none                                 *)
Number_(s, base) ==
  LET sp    == Cardinality({ i \in DOMAIN s : \A j \in 1 .. i : s[j] = SPACE_CHAR })
      sg    == IF At_(s, sp + 1) \in {MINUS_CHAR, PLUS_CHAR} THEN 1 ELSE 0
      hex   == /\ base \in {0, 16} /\ At_(s, sp + sg + 1) = 0 /\ At_(s, sp + sg + 2) = X_CHAR
               /\ At_(s, sp + sg + 3) \in 0 .. 15
      b     == IF base # 0 THEN base ELSE IF hex THEN 16 ELSE IF At_(s, sp + sg + 1) = 0 THEN 8 ELSE 10
      at    == sp + sg + (IF hex THEN 2 ELSE 0)
      len   == Cardinality({ i \in 1 .. Len(s) - at : \A j \in 1 .. i : s[at + j] < b })
      value == FoldFunction(+, 0, [i \in 1 .. len |-> s[at + i] * b ^ (len - i)])
  IN  IF len = 0 THEN << 0, 1 >>
      ELSE << IF At_(s, sp + 1) = MINUS_CHAR THEN -value ELSE value, at + len + 1 >>

(* What was called did what the standard says, for overlapping memory, for  *)
(* addresses of every alignment, and at the ends of strings: but for the    *)
(* calls that MCParts leaves out of MCLibCalls, each in a set of its own.   *)
CLibRight ==
  libret # Calling =>
    CASE lib.fn = "memset" ->
           libret[1] = [x \in DOMAIN lib.mem |-> IF x \in lib.d .. lib.d + lib.n - 1 THEN lib.v ELSE lib.mem[x]]
      [] lib.fn = "memset16" ->
           libret[1] = [x \in DOMAIN lib.mem |->
                          IF x \in lib.d .. lib.d + 2 * lib.n - 1 THEN lib.v[((x - lib.d) % 2) + 1] ELSE lib.mem[x]]
      [] lib.fn \in {"memmove", "memcpy"} ->
           libret[1] = [x \in DOMAIN lib.mem |->
                          IF x \in lib.d .. lib.d + lib.n - 1 THEN lib.mem[lib.s + x - lib.d] ELSE lib.mem[x]]
      [] lib.fn = "memcmp" -> SignOf(libret[1]) = Order(Bytes_(lib.mem, lib.a, lib.n), Bytes_(lib.mem, lib.b, lib.n))
      [] lib.fn = "strtol" -> libret = Number_(lib.str, lib.base)
      [] lib.fn = "strcmp" -> SignOf(libret[1]) = Order(lib.s, lib.t)
      [] lib.fn = "strncmp" -> SignOf(libret[1]) = Order(Upto(lib.s, lib.n), Upto(lib.t, lib.n))
      [] lib.fn = "strstr" ->
           IF libret[1] = NoPtr THEN ~\E i \in 1 .. Len(lib.s) + 1 : IsPrefix(lib.t, SubSeq(lib.s, i, Len(lib.s)))
           ELSE /\ IsPrefix(lib.t, SubSeq(lib.s, libret[1], Len(lib.s)))
                /\ \A i \in 1 .. libret[1] - 1 : ~IsPrefix(lib.t, SubSeq(lib.s, i, Len(lib.s)))
      [] lib.fn = "strrchr" ->
           IF lib.c = NUL THEN libret[1] = Len(lib.s) + 1
           ELSE IF libret[1] = NoPtr THEN lib.c \notin ToSet(lib.s)
           ELSE lib.s[libret[1]] = lib.c /\ lib.c \notin ToSet(SubSeq(lib.s, libret[1] + 1, Len(lib.s)))
=============================================================================
