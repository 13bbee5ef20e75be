------------------------------- MODULE MCParts ------------------------------
(***************************************************************************)
(* The parts that share no state with one another, of the kernel and of the *)
(* programs beside it (the boot loader and the sprite compiler): one of     *)
(* them works in each behaviour, the others have nothing to do and stay as  *)
(* they begin.                                                              *)
(***************************************************************************)
EXTENDS CLib, Clock, Part, TxView, CfgFile, TextUI, Shell, Serial, Mouse,
        FatDir, Format, Boot, ComRun, Mounts, Pci, Splash, Sound, TLC

VARIABLE busy    (* the part that works *)

Kernel == {"sort", "clock", "part", "dynarr", "view", "cfg", "ui", "console", "line",
           "serial", "mouse", "dir", "format", "lib", "boot", "run", "mounts", "pci", "sprite",
           "splash", "shell", "sound"}

-----------------------------------------------------------------------------
(* What they work on.  Elements that are equal are given to qsort in arrays *)
(* too short to be split only.                                              *)
Distinct == UNION { { f : f \in Permutations(1 .. n) } : n \in 4 .. 6 }
MCArrays == Distinct \union UNION { [1 .. n -> 1 .. 3] : n \in 0 .. 3 }
EqualArrays == [1 .. 4 -> 1 .. 2]

On(year, mon, d, h, minute, sec) == [y |-> year, mon |-> mon, d |-> d, h |-> h, min |-> minute, s |-> sec]
MCDates ==
  { On(2000, 1, 28, 23, 59, 58), On(2001, 1, 28, 23, 59, 58), On(2024, 1, 29, 23, 59, 58),
    On(2019, 11, 31, 23, 59, 58), On(2037, 11, 30, 23, 59, 58), On(2018, 8, 30, 12, 0, 58),
    On(2020, 5, 15, 11, 59, 58), On(2020, 5, 15, 0, 59, 58) }

(* One extended record, anywhere.  Chains as they should be, of records in  *)
(* either order; some that come back to a boot record (one without a link   *)
(* is read again); one with a gap.                                          *)
OneExtended == { m \in [1 .. 4 -> {"empty", "data", "ext"}] : \E e \in 1 .. 4 : { k \in 1 .. 4 : m[k] = "ext" } = {e} }
Ebr(from, p, q) == [at |-> from, recs |-> << p, q >>]
Volume_ == Record("data", 1)
LinkTo(from) == Record("ext", from)
NoRecord == Record("empty", 0)
MCDisks ==
  [mbr : [1 .. 4 -> {"empty", "data"}], ebrs : { << >> }] \union
  [mbr : OneExtended,
   ebrs : { << Ebr(0, Volume_, NoRecord) >>, << Ebr(0, NoRecord, NoRecord) >>,
            << Ebr(0, Volume_, LinkTo(30)), Ebr(30, Volume_, NoRecord) >>,
            << Ebr(0, Volume_, LinkTo(50)), Ebr(50, LinkTo(20), Volume_), Ebr(20, Volume_, NoRecord) >> }]
CyclicDisks ==
  [mbr : OneExtended,
   ebrs : { << Ebr(0, Volume_, Volume_) >>, << Ebr(0, Volume_, LinkTo(30)), Ebr(30, Volume_, LinkTo(0)) >> }]
GapDisks ==
  [mbr : OneExtended, ebrs : { << Ebr(0, NoRecord, LinkTo(30)), Ebr(30, Volume_, NoRecord) >> }]

MCTexts ==
  UNION { [1 .. n -> {"a", "cr", "lf"}] : n \in 0 .. 4 } \union
  { << "a", "tab", "b", "lf", "b", "c", "lf", "c" >>, << "a", "b", "c", "d", "e", "a", "lf", "tab", "tab", "b" >>,
    << "a", "cr", "lf", "lf", "a", "b", "cr", "a", "lf", "b", "lf" >>, << "a", "lf", "nul", "b", "a" >> }
TabTexts == { << "tab", "b", "lf", "a", "b", "c", "d", "e" >> }

Opt(key, val) == [key |-> key, val |-> val]
MCCfgFiles == { << >>, << Opt("k1", 1), Skipped, Opt("k2", 2) >> }

(* A root with a hidden file, a directory with one of its own, and a        *)
(* program; 0 is the dot.                                                   *)
Entry(name, type) == [name |-> name, type |-> type]
MCDirs ==
  "/" :> { Entry(<< 2 >>, "dir"), Entry(<< 0, 1 >>, "dir"), Entry(<< 1, 2 >>, "file"),
           Entry(<< 1 >>, "file"), Entry(<< 2, 1 >>, "com") }
    @@ "/b" :> { Entry(<< 1 >>, "file"), Entry(<< 1, 1 >>, "dir") } @@ "/b/aa" :> {}
MCChild == "/" :> (<< 2 >> :> "/b") @@ "/b" :> (<< 1, 1 >> :> "/b/aa") @@ "/b/aa" :> << >>
MCAbove == "/" :> "/" @@ "/b" :> "/" @@ "/b/aa" :> "/b"

MCMoves ==
  { [x |-> 200, y |-> -150, buttons |-> 1, ovf |-> FALSE], [x |-> -7, y |-> 3, buttons |-> 0, ovf |-> FALSE],
    [x |-> -256, y |-> 255, buttons |-> 2, ovf |-> FALSE], [x |-> 5, y |-> 5, buttons |-> 4, ovf |-> TRUE] }
MCBounds == { InitialBounds, [x0 |-> 10, y0 |-> 20, x1 |-> 100, y1 |-> 90] }

MCLongNames == { << 1 >>, << 1, 2 >>, << 1, 2, 1 >>, << 2, 1, 2, 1 >> }
MCShortNames == { [base |-> << 1 >>, ext |-> << 2 >>, attr |-> "file"],
                  [base |-> << 2 >>, ext |-> << >>, attr |-> "dir"] }

Conv(tokens, n, str) == [tokens |-> tokens, arg |-> [num |-> n, str |-> str]]
Literal == Conv(<< "text" >>, 0, << >>)
Convs ==
  { Conv(<< "%", "d" >>, -5, << >>), Conv(<< "%", "l", "d" >>, 0, << >>),
    Conv(<< "%", "3", "d" >>, 7, << >>), Conv(<< "%", "0", "3", "d" >>, 12, << >>),
    Conv(<< "%", "x" >>, 250, << >>), Conv(<< "%", "0", "3", "x" >>, 10, << >>),
    Conv(<< "%", "0", "8", "x" >>, -1, << >>), Conv(<< "%", "#", "x" >>, 17, << >>),
    Conv(<< "%", "l", "u" >>, -3, << >>), Conv(<< "%", "-", "8", "u" >>, 99, << >>),
    Conv(<< "%", "+", "d" >>, 4, << >>), Conv(<< "%", "o" >>, 9, << >>), Conv(<< "%", "#", "o" >>, 9, << >>), Conv(<< "%", "c" >>, 12, << >>),
    Conv(<< "%", "3", "s" >>, 0, << 10, 11 >>), Conv(<< "%", "-", "3", "s" >>, 0, << >>), Literal }
Call(p, q, sz) ==
  LET conv == SelectSeq(<< p, q >>, LAMBDA s : s # Literal)
  IN  [fmt |-> p.tokens \o q.tokens, args |-> [k \in DOMAIN conv |-> conv[k].arg], sz |-> sz]
(* the flags that no conversion resets are followed by one they do not touch *)
Sticks(p) == ToSet(p.tokens) \intersect {"-", "+", "x", "u"} # {}
Untouched(p, q) ==
  q.tokens \in { << "%", "x" >>, << "%", "0", "8", "x" >>, << "%", "c" >>, << "text" >> }
    /\ "-" \notin ToSet(p.tokens)
MCFormats == { Call(p, q, sz) : p \in Convs, q \in Convs, sz \in {0, 20} }
KernelFormats == UNION { { Call(pq[1], pq[2], sz) : sz \in {0, 20} } : pq \in
                           { pq \in Convs \X Convs : Sticks(pq[1]) => Untouched(pq[1], pq[2]) } }
ShortFormats == { Call(p, q, 3) : p \in {Literal}, q \in Convs }
OneFormat(tokens, n) == { Call(Conv(tokens, n, << >>), Literal, 0) }
NegativeFormats == OneFormat(<< "%", "0", "3", "d" >>, -5)
PercentFormats == OneFormat(<< "%", "%" >>, 0)
ZeroFormats == OneFormat(<< "%", "#", "x" >>, 0)
SignFormats == OneFormat(<< "%", "+", "3", "d" >>, 4)
PrefixFormats == OneFormat(<< "%", "#", "8", "x" >>, 17)
CharFormats == OneFormat(<< "%", "3", "c" >>, 12)

(* Memory moved onto itself and compared at every alignment; strings whose  *)
(* numbers and order the functions find.                                    *)
Strings(chars, max) == UNION { [1 .. n -> chars] : n \in 0 .. max }
Words == Strings({1, 2}, 3)
Sparse == { [x \in 0 .. 11 |-> IF x \in D THEN 2 - (x % 2) ELSE 0] :
              D \in kSubset(1, 0 .. 11) \union kSubset(2, 0 .. 11) }
Numbers(bases) == [fn : {"strtol"}, str : Strings({0, 1, 10, X_CHAR, MINUS_CHAR, SPACE_CHAR}, 4), base : bases]
Prefixed(s) == \E i \in 1 .. Len(s) - 1 : s[i] = 0 /\ s[i + 1] = X_CHAR
DifferFirstAt(s, t, n) == n > 0 /\ Upto(s, n - 1) = Upto(t, n - 1) /\ At_(s, n) # At_(t, n)
Compared == [fn : {"strncmp"}, s : Words, t : Words, n : 0 .. 4]
Zeros == [x \in 0 .. 15 |-> 0]
Fills == [fn : {"memset"}, mem : {Zeros}, d : 0 .. 3, v : {7}, n : 0 .. 10]
MemCompared == [fn : {"memcmp"}, mem : Sparse, a : 0 .. 3, b : 4 .. 8, n : 0 .. 7]
OfNothing(k) == k.n = 0 /\ k.a % 4 # 0 /\ k.a % 4 = k.b % 4
NothingCompared == { k \in MemCompared : OfNothing(k) }
Found == [fn : {"strstr"}, s : Words, t : Words]
EndSearched == [fn : {"strrchr"}, s : Words, c : {NUL}]
MCLibCalls ==
  { k \in [fn : {"memmove"}, mem : { [x \in 0 .. 5 |-> x] }, d : 0 .. 5, s : 0 .. 5, n : 0 .. 6] :
      k.d + k.n <= 6 /\ k.s + k.n <= 6 } \union
  { k \in MemCompared : k.b + k.n <= 12 /\ ~OfNothing(k) } \union
  { k \in Numbers({8, 10, 16}) : k.base = 16 => ~Prefixed(k.str) } \union
  { k \in Numbers({0}) : ~Prefixed(k.str) /\ MINUS_CHAR \notin ToSet(k.str) } \union
  { k \in Compared : ~DifferFirstAt(k.s, k.t, k.n) } \union [fn : {"strcmp"}, s : Words, t : Words] \union
  { k \in Found : k.s # << >> \/ k.t # << >> } \union [fn : {"strrchr"}, s : Words, c : {1, 2}] \union
  { k \in Fills : k.n = 0 \/ k.n >= k.d % 4 } \union
  [fn : {"memset16"}, mem : {Zeros}, d : 0 .. 3, v : { << 7, 8 >> }, n : 0 .. 6] \union
  [fn : {"memcpy"}, mem : { [x \in 0 .. 15 |-> x] }, d : 0 .. 1, s : 8 .. 9, n : 0 .. 7]

(* Drives with fewer and more sectors and heads than the loader assumes, and *)
(* with one cylinder's worth; memory with holes, regions of other types,    *)
(* empty ones and ones beyond 4GB                                           *)
Geometry(spt, heads) == [spt |-> spt, heads |-> heads]
MCDefaultDrive == Geometry(3, 2)
MCBootDrives == {MCDefaultDrive, Geometry(2, 4), Geometry(7, 1), Geometry(4, 4)}
OddDrives == {MCDefaultDrive, Geometry(2, 3)}
Region(base, sz, type) == [base |-> base, size |-> sz, type |-> type]
MCMemoryMaps ==
  { << Region(0, 2, 1), Region(2, 2, 2), Region(4, 3, 1) >>, << Region(0, 1, 1), Region(1, 1, 2), Region(2, 20, 1) >>,
    << Region(2, 3, 1), Region(5, 0, 1), Region(7, 2, 1), Region(12, 5, 1) >>, << Region(0, 20, 1) >>, << >>,
    << Region(0, 2, 1), Region(2, 1, 1) >> }

Partition(fs, label, holds) == [fs |-> fs, label |-> label, data |-> holds]
MCVolumes ==
  { Partition(FALSE, << >>, FALSE), Partition(TRUE, << "a" >>, TRUE), Partition(TRUE, << "b" >>, FALSE),
    Partition(TRUE, Unprintable, TRUE) }
UnnamedVolumes == { Partition(TRUE, << >>, FALSE), Partition(TRUE, << "a" >>, TRUE) }
AllDrives == UNION { [1 .. n -> Volumes] : n \in 0 .. MaxPart }
(* no two volumes have the same label, but those that cannot be names *)
MCPartitions ==
  { v \in AllDrives : \A i, j \in DOMAIN v : i # j /\ v[i].fs /\ v[j].fs /\ v[i].label = v[j].label
                                             => v[i].label = Unprintable }

(* Functions 0, 2 and 3 of a device with several, a function 1 that only    *)
(* one device says to have, and devices on another bus                      *)
Func(bus, dev, func, multi, class, subclass) ==
  [bus |-> bus, dev |-> dev, func |-> func, multi |-> multi, class |-> class, subclass |-> subclass]
MCBoards ==
  SUBSET { Func(0, 0, 0, TRUE, 6, 0), Func(0, 0, 2, FALSE, 1, 1), Func(0, 0, 3, FALSE, 12, 3),
           Func(1, 1, 0, FALSE, 3, 0), Func(1, 1, 1, FALSE, 4, 1), Func(1, 0, 0, TRUE, 6, 9),
           Func(0, 1, 1, TRUE, 2, 128), Func(1, 2, 0, FALSE, 7, 3) }
FifthBoards == { {Func(0, 0, 0, TRUE, 6, 0), Func(0, 0, 5, FALSE, 1, 1)} }
SignalBoards == { {Func(0, 0, 0, TRUE, 15, 4)} }

(* Rows of every pattern of pixels; the colours go around the end of a byte *)
PixelRow(copied, w) == [i \in 1 .. w |-> IF i \in copied THEN 186 + i ELSE 0]
MCTiles ==
  { << PixelRow(m, 7), PixelRow(n, 7) >> : m \in SUBSET (1 .. 7), n \in { {}, 1 .. 7, {7}, 2 .. 4 } } \union
  { << PixelRow(m, 3), PixelRow(n, 3), PixelRow(o, 3) >> :
      m \in SUBSET (1 .. 3), n \in SUBSET (1 .. 3), o \in { 1 .. 3, {1, 3} } }
MCMargins == { [sheet |-> 0, screen |-> 0], [sheet |-> 2, screen |-> 5] }

(* Lines of up to five characters, and some that reach the limit of argv,   *)
(* that have options, wrong names, or several directories or files          *)
Chars(cs, max) == UNION { [1 .. n -> cs] : n \in 0 .. max }
MCCommandLines ==
  Chars({" ", "ls", "d"}, 5) \union Chars({" ", "cat", "f"}, 4) \union
  { << "ls", " ", "d", " ", " ", "e", " ", "d" >>, << "ls", " ", "-", "l", " ", "d" >>, << "ls", " ", "-", "x" >>,
    << "ls", " ", "e", " ", "-", " ", "d" >>, << "ls", " ", "d", " ", "x" >>, << "ls", " ", "-", "l" >>,
    << "cat", " ", "f", " ", "f" >>, << "cat", " ", "f", " ", "x" >>,
    << "echo", " ", "d", "e", " ", "f" >>, << "echo" >>,
    << "cd", " ", "d" >>, << "cd" >>, << "mkdir", " ", "d", " ", "e" >>, << "run" >>, << "run", " ", "f" >>,
    << "memdbg" >>, << "memdbg", " ", "pages" >>, << "vbe", " ", "edid" >>, << "vbe", " ", "help" >>, << "vbe" >>,
    << "start" >>, << "start", " ", "text" >>, << "start", " ", "x" >>, << "help", " ", "x" >>, << "help", "x" >> }
MCListings == << "." >> :> << "d", "e" >> @@ << "d" >> :> << >> @@ << "e" >> :> << "f", "g" >>
MCContents == << "f" >> :> << "a", "b" >>

(* No card, one that selects nothing, some that select the lines they use,  *)
(* and one whose lines cannot be set; an old one                            *)
Card(at_port, major, irqsel, dmasel, settable) ==
  [port |-> at_port, major |-> major, irqsel |-> irqsel, dmasel |-> dmasel, settable |-> settable]
MCCards ==
  { Card(6, 4, {}, {}, TRUE), Card(0, 4, {}, {}, TRUE), Card(5, 4, {1, 2}, {1, 5}, FALSE),
    Card(3, 4, {3}, {0, 3, 7}, FALSE),
    Card(1, 4, {}, {1}, TRUE), Card(2, 4, {0}, {5}, TRUE), Card(2, 4, {0}, {5}, FALSE), Card(1, 3, {1}, {1}, FALSE) }
ThirdCards == { Card(1, 4, {1}, {3}, TRUE) }

PictureFile == {"missing", "8 bit", "other"}
MCPictures == [ui : PictureFile, tex : PictureFile]

-----------------------------------------------------------------------------
One(all) == CHOOSE x \in all : TRUE
Some ==
  [arrays |-> One(Arrays), dates |-> One(Dates), modes |-> One(Modes), phases |-> 1, disks |-> One(Disks),
   sizes |-> One(TableSizes), cfgs |-> One(CfgFiles), texts |-> One(Texts), beyond |-> One(Beyond),
   labels |-> One(Labels), formats |-> One(Formats), calls |-> One(LibCalls),
   drives |-> DefaultDrive, maps |-> One(MemoryMaps), programs |-> One(Sizes), partitions |-> << >>,
   boards |-> One(Boards), tiles |-> One(Tiles), margins |-> One(Margins), pictures |-> One(Pictures),
   lines |-> One(CommandLines), cards |-> One(Cards)]
Given(part, all, some) == IF busy = part THEN all ELSE {some}

Init ==
  /\ busy \in Kernel
  /\ SortInit(Given("sort", Arrays, Some.arrays))
  /\ ClockInit(Given("clock", Dates, Some.dates), Given("clock", Modes, Some.modes),
               Given("clock", 1 .. Period, Some.phases))
  /\ PartInit(Given("part", Disks, Some.disks), Given("part", TableSizes, Some.sizes))
  /\ DynInit /\ CfgInit(Given("cfg", CfgFiles, Some.cfgs))
  /\ ViewInit(Given("view", Texts, Some.texts), Given("view", Beyond, Some.beyond)) /\ TxInit
  /\ UiInit /\ ConInit /\ LineInit /\ SerialInit /\ MouseInit
  /\ DirInit(Given("dir", Labels, Some.labels)) /\ FormatInit(Given("format", Formats, Some.formats))
  /\ LibInit(Given("lib", LibCalls, Some.calls))
  /\ BootInit(Given("boot", Drives, Some.drives), Given("boot", MemoryMaps, Some.maps),
              Given("boot", { {"kbd"}, {"fast"} }, {"fast"}),
              Given("boot", SUBSET {"chs", "e820", "e801", "88"}, {"88"}))
  /\ ComInit(Given("run", Sizes, Some.programs))
  /\ MountsInit(Given("mounts", Partitions, Some.partitions))
  /\ PciInit(Given("pci", Boards, Some.boards), Given("pci", BOOLEAN, FALSE), Given("pci", SUBSET {1, 2}, {}))
  /\ SpriteInit(Given("sprite", Tiles, Some.tiles), Given("sprite", Margins, Some.margins))
  /\ SplashInit(Given("splash", Pictures, Some.pictures))
  /\ EvalInit(Given("shell", CommandLines, Some.lines)) /\ SoundInit(Given("sound", Cards, Some.cards))

Only(part) ==
  /\ busy = part /\ UNCHANGED busy
  /\ IF part = "sort"    THEN TRUE ELSE UNCHANGED sortVars
  /\ IF part = "clock"   THEN TRUE ELSE UNCHANGED clockVars
  /\ IF part = "part"    THEN TRUE ELSE UNCHANGED partVars
  /\ IF part = "dynarr"  THEN TRUE ELSE UNCHANGED dynVars
  /\ IF part = "view"    THEN TRUE ELSE UNCHANGED << viewVars, txVars >>
  /\ IF part = "cfg"     THEN TRUE ELSE UNCHANGED cfgVars
  /\ IF part = "ui"      THEN TRUE ELSE UNCHANGED uiVars
  /\ IF part = "console" THEN TRUE ELSE UNCHANGED conVars
  /\ IF part = "line"    THEN TRUE ELSE UNCHANGED lineVars
  /\ IF part = "serial"  THEN TRUE ELSE UNCHANGED serialVars
  /\ IF part = "mouse"   THEN TRUE ELSE UNCHANGED mouseVars
  /\ IF part = "dir"     THEN TRUE ELSE UNCHANGED dirVars
  /\ IF part = "format"  THEN TRUE ELSE UNCHANGED formatVars
  /\ IF part = "lib"     THEN TRUE ELSE UNCHANGED libVars
  /\ IF part = "boot"    THEN TRUE ELSE UNCHANGED bootVars
  /\ IF part = "run"     THEN TRUE ELSE UNCHANGED comVars
  /\ IF part = "mounts"  THEN TRUE ELSE UNCHANGED mountVars
  /\ IF part = "pci"     THEN TRUE ELSE UNCHANGED pciVars
  /\ IF part = "sprite"  THEN TRUE ELSE UNCHANGED spriteVars
  /\ IF part = "splash"  THEN TRUE ELSE UNCHANGED splashVars
  /\ IF part = "shell"   THEN TRUE ELSE UNCHANGED evalVars
  /\ IF part = "sound"   THEN TRUE ELSE UNCHANGED soundVars

Sorts == Only("sort") /\ SortNext
TellsTime == Only("clock") /\ ClockNext
FindsPartitions == Only("part") /\ PartNext
Grows == Only("dynarr") /\ DynNext
CutsLines == Only("view") /\ ViewNext /\ UNCHANGED txVars
Scrolls == Only("view") /\ TxNext
Configures == Only("cfg") /\ CfgNext
ShowsFiles == Only("ui") /\ UiNext
Writes == Only("console") /\ \E ch \in {"a", "lf", "cr", "tab", "bs", "clear", "on", "off"} : Calls(<< ch >>)
EditsLine == Only("line") /\ LineNext
Receives == Only("serial") /\ SerialNext
Points == Only("mouse") /\ MouseNext
ReadsDir == Only("dir") /\ DirNext
Prints == Only("format") /\ FormatNext
Computes == Only("lib") /\ Returns
Boots == Only("boot") /\ BootNext
RunsProgram == Only("run") /\ ComNext
MountsVolumes == Only("mounts") /\ MountsNext
FindsDevices == Only("pci") /\ PciNext
CompilesSprite == Only("sprite") /\ SpriteNext
Splashes == Only("splash") /\ SplashNext
Evaluates == Only("shell") /\ EvalNext
Plays_ == Only("sound") /\ SoundNext

Next ==
  \/ Sorts \/ TellsTime \/ FindsPartitions \/ Grows \/ CutsLines \/ Scrolls \/ Configures
  \/ ShowsFiles \/ Writes \/ EditsLine \/ Receives \/ Points \/ ReadsDir \/ Prints \/ Computes
  \/ Boots \/ RunsProgram \/ MountsVolumes \/ FindsDevices \/ CompilesSprite \/ Splashes
  \/ Evaluates \/ Plays_

vars == << busy, sortVars, clockVars, partVars, dynVars, viewVars, txVars, cfgVars, uiVars, conVars,
           lineVars, serialVars, mouseVars, dirVars, formatVars, libVars, bootVars, comVars, mountVars,
           pciVars, spriteVars, splashVars, evalVars, soundVars >>
(* Code that runs on once it is called *)
Fairness ==
  /\ WF_sortVars(busy = "sort" /\ SortNext)
  /\ WF_partVars(busy = "part" /\ PartNext)
  /\ WF_viewVars(busy = "view" /\ ViewNext)
  /\ WF_bootVars(busy = "boot" /\ BootNext)
  /\ WF_comVars(busy = "run" /\ (rm_keyb_intr \/ OwnHandler))
Spec == Init /\ [][Next]_vars /\ Fairness

(* One part alone, where more may happen to it than in Next *)
SerialSpec == Init /\ [][Only("serial") /\ AnySerialNext]_vars
LineSpec == Init /\ [][Only("line") /\ LineAnyKey]_vars
MouseSpec == Init /\ [][Only("mouse") /\ MouseBios]_vars
UiShortSpec == Init /\ [][Only("ui") /\ UiShort]_vars
AllLibCalls == Numbers({0, 16}) \union Compared
ComSpec == Init /\ [][Only("run") /\ ComAny]_vars /\ Fairness
ViewShortSpec == Init /\ [][Only("view") /\ ViewShort /\ UNCHANGED txVars]_vars
MountsSpec == Init /\ [][Only("mounts") /\ MountsAny]_vars
SoundAgainSpec == Init /\ [][Only("sound") /\ SoundAgain]_vars
SoundStopSpec == Init /\ [][Only("sound") /\ SoundStop]_vars
SoundSlowSpec == Init /\ [][Only("sound") /\ SoundSlow]_vars
SplashSpec == Init /\ [][Only("splash") /\ SplashAny]_vars

-----------------------------------------------------------------------------
(* The growing array of src/dynarr.c holds what was pushed and not popped,  *)
(* and the list of src/cfgfile.c what was set and not removed.              *)
ListsRight == DynRight /\ CfgRight

(* qsort sorts, printf formats, and the functions on memory, strings and    *)
(* numbers do what the standard says they do, for the arrays, formats and   *)
(* calls of MCArrays, KernelFormats and MCLibCalls.  The others, for which  *)
(* the code departs from the standard, have sets of their own above.        *)
StdlibRight == SortRight /\ CLibRight /\ FormatRight

(* The partitions of a drive whose extended boot records are as they should *)
(* be are found (src/part.c), and their volumes are found under their names *)
(* when mount_boot_fs is through.                                           *)
VolumesRight == PartRight /\ MountsRight

(* What the viewer and the file list have drawn is what they stand for.     *)
ScreensRight == ScreenTrue /\ TxRight

(* What is typed at the debug shell is what it evaluates, its commands do   *)
(* what their words say, and the console shows what was written to it.      *)
ShellRight == ConRight /\ LineRight /\ EvalRight

(* The bytes of the serial ports and of the mouse arrive, in their order    *)
(* and as what they mean.                                                   *)
BytesRight == SerialRight /\ PointerRight

(* The devices of the PCI bus are found, and the sound card plays what it   *)
(* is given.                                                                *)
DevicesRight == PciRight /\ SoundRight

(* The splash screen: the code compiled for a sprite draws its tile, and    *)
(* the blocks and pictures of the animation are there while it runs and     *)
(* freed once.                                                              *)
PicturesRight == SpriteRight /\ SplashRight

(* qsort, read_partitions, fv_open and the boot loader return: their loops, *)
(* whose ends depend on what they work on, end for distinct elements, disks *)
(* whose extended boot records form a chain with an end, and every file,    *)
(* drive and memory map given above (not for EqualArrays and CyclicDisks).  *)
(* A DOS program ends at ESC, and the bytes of the keyboard controller are  *)
(* taken while one runs.                                                    *)
CallsEnd ==
  /\ <>(busy = "sort" => SortDone)
  /\ <>(busy = "part" => PartDone)
  /\ <>(busy = "view" => fv \notin {"closed", "scanning"})
  /\ <>(busy = "boot" => BootDone)
  /\ EscEnds /\ ByteTaken
=============================================================================
