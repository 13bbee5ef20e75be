----------------------------- MODULE PartsProofs ----------------------------
(***************************************************************************)
(* Proofs about parts of MCParts: programs that are run (ComRun), the boot  *)
(* loader (Boot), the serial ports (Serial), the mouse (Mouse), the growing *)
(* array (TxView), the list of options (CfgFile), the PCI bus (Pci) and     *)
(* sound (Sound), for every size, drive, memory map, bound, number of       *)
(* bytes, bus, card and sequence of chunks.  One part works in each         *)
(* behaviour, so that an invariant of a part's own steps is one of Spec     *)
(* (Alone).  Each part has an inductive invariant: RunInv, BootInv,         *)
(* SerialInv, MouseInv, DynInv, CfgInv, PciInv, SoundInv.                   *)
(***************************************************************************)
EXTENDS MCParts, FiniteSetTheorems, SequenceTheorems, WellFoundedInduction, TLAPS

(* One part works, and the others' variables stay as they are *)
StepOf(vs, steps) == steps \/ UNCHANGED vs
LEMMA Alone ==
  ASSUME Next
  PROVE /\ StepOf(comVars, ComNext) /\ StepOf(bootVars, BootNext)
        /\ StepOf(serialVars, SerialNext) /\ StepOf(mouseVars, MouseNext)
        /\ StepOf(pciVars, PciNext) /\ StepOf(soundVars, SoundNext)
        /\ StepOf(dynVars, DynNext) /\ StepOf(cfgVars, CfgNext)
<1>0. ASSUME NEW part, Only(part)
      PROVE /\ part # "run" => UNCHANGED comVars
            /\ part # "boot" => UNCHANGED bootVars
            /\ part # "serial" => UNCHANGED serialVars
            /\ part # "mouse" => UNCHANGED mouseVars
            /\ part # "pci" => UNCHANGED pciVars
            /\ part # "sound" => UNCHANGED soundVars
            /\ part # "dynarr" => UNCHANGED dynVars
            /\ part # "cfg" => UNCHANGED cfgVars
  BY <1>0 DEF Only
<1>1. CASE Sorts \/ TellsTime \/ FindsPartitions \/ Grows \/ CutsLines \/ Scrolls \/ Configures
           \/ ShowsFiles \/ Writes \/ EditsLine
  BY <1>0, <1>1 DEF StepOf, Sorts, TellsTime, FindsPartitions, Grows, CutsLines, Scrolls, Configures,
                    ShowsFiles, Writes, EditsLine
<1>2. CASE ReadsDir \/ Prints \/ Computes \/ MountsVolumes \/ CompilesSprite \/ Splashes \/ Evaluates
  BY <1>0, <1>2 DEF StepOf, ReadsDir, Prints, Computes, MountsVolumes, CompilesSprite, Splashes, Evaluates
<1>3. CASE RunsProgram \/ Boots \/ Receives \/ Points \/ FindsDevices \/ Plays_
  BY <1>0, <1>3 DEF StepOf, RunsProgram, Boots, Receives, Points, FindsDevices, Plays_
<1>4. QED
  BY <1>1, <1>2, <1>3 DEF Next

(* A set of natural numbers has a least one *)
LEMMA Least ==
  ASSUME NEW T \in SUBSET Nat, T # {}
  PROVE  \E m \in T : \A n \in T : m <= n
<1> DEFINE R == OpToRel(<, Nat)
<1>1. IsWellFoundedOn(R, Nat)
  BY NatLessThanWellFounded, Zenon
<1>2. \A x, y \in Nat : y < x => << y, x >> \in R
  BY Zenon DEF OpToRel
<1> HIDE DEF R
<1>3. \E x \in T : \A y \in T : ~(<< y, x >> \in R)
  BY <1>1, WFMin, Zenon
<1>4. PICK x \in T : \A y \in T : ~(<< y, x >> \in R)
  BY <1>3
<1>5. ASSUME NEW y \in T
      PROVE  x <= y
  <2>1. x \in Nat /\ y \in Nat
    OBVIOUS
  <2>2. ~(y < x)
    BY <1>2, <1>4, <2>1
  <2>3. QED
    BY <2>1, <2>2
<1>6. QED
  BY <1>5

-----------------------------------------------------------------------------
(* Programs.  As much as was read lies behind the first 256 bytes, in one   *)
(* round of fread if the program fits a cluster; run_com_entry has a copy   *)
(* of the stack pointer.                                                    *)
Units == 0 .. PSP + com_size + CLUSTER
RunTypeOK ==
  /\ who \in {"kernel", "loading", "program"} /\ com_size \in Sizes
  /\ low_mem_buffer = [u \in Units |-> low_mem_buffer[u]]
Loading ==
  who # "kernel" =>
    /\ loaded = 0 \/ loaded = com_size
    /\ unread = "all" => \A i \in 0 .. loaded - 1 : low_mem_buffer[PSP + i] = i
Stacks ==
  /\ who = "program" => (loaded = com_size \/ unread = "short") /\ saved_sp = BIOS_TOP - 6
  /\ who # "program" => sp = BIOS_TOP /\ offs = 32
  /\ who = "kernel" => iflag = wanted
RunInv == RunTypeOK /\ Loading /\ Stacks

LEMMA RunStarts == Init => RunInv
<1>1. SUFFICES ASSUME Init PROVE RunInv
  OBVIOUS
<1>2. Some.programs = One(Sizes) /\ One(Sizes) \in Sizes
  BY ComAssumption DEF Some, One
<1>3. Given("run", Sizes, Some.programs) \subseteq Sizes
  BY <1>2 DEF Given
<1>4. ComInit(Given("run", Sizes, Some.programs))
  BY <1>1 DEF Init
<1>5. QED
  BY <1>3, <1>4 DEF ComInit, RunInv, RunTypeOK, Loading, Stacks, Units

LEMMA RunStep ==
  ASSUME RunInv, ComNext, \A s \in Sizes : s <= CLUSTER
  PROVE  RunInv'
<1> USE DEF RunInv, RunTypeOK, Units
<1>0. com_size \in Nat \ {0} /\ CLUSTER \in Nat \ {0} /\ com_size <= CLUSTER
  BY ComAssumption
<1>1. CASE load_com_binary
  BY <1>0, <1>1 DEF load_com_binary, Loading, Stacks, stackVars
<1>2. CASE ReadsCluster
  <2>1. loaded = 0 /\ who = "loading"
    BY <1>0, <1>2 DEF ReadsCluster, Loading
  <2> DEFINE t == [u \in DOMAIN low_mem_buffer |-> IF u < CLUSTER THEN loaded + u ELSE low_mem_buffer[u]]
  <2>2. low_mem_buffer' = CopyTo(t, PSP + loaded, com_size) /\ loaded' = loaded + com_size
    BY <1>0, <1>2, <2>1 DEF ReadsCluster
  <2>3. DOMAIN t = Units
    BY <1>0
  <2> HIDE DEF t
  <2>4. low_mem_buffer' = [u \in Units |-> IF u - PSP \in 0 .. com_size - 1 THEN u - PSP ELSE t[u]]
    BY <1>0, <2>1, <2>2, <2>3 DEF CopyTo, PSP
  <2>5. \A i \in 0 .. com_size - 1 : low_mem_buffer'[PSP + i] = i
    <3>1. TAKE i \in 0 .. com_size - 1
    <3>2. PSP + i \in Units /\ PSP + i - PSP \in 0 .. com_size - 1 /\ PSP + i - PSP = i
      BY <1>0 DEF PSP
    <3> DEFINE u == PSP + i
    <3>3. u \in Units /\ u - PSP \in 0 .. com_size - 1 /\ u - PSP = i
      BY <3>2 DEF PSP
    <3> HIDE DEF u
    <3>4. low_mem_buffer'[u] = i
      BY <2>4, <3>3
    <3>5. QED
      BY <3>4 DEF u
  <2>6. UNCHANGED << who, com_size, unread, picVars, ivt, stackVars >>
    BY <1>2 DEF ReadsCluster
  <2>7. RunTypeOK'
    BY <2>4, <2>6
  <2>8. Loading'
    BY <1>0, <2>1, <2>2, <2>5, <2>6 DEF Loading
  <2>9. QED
    BY <2>1, <2>6, <2>7, <2>8 DEF Stacks, picVars, stackVars
<1>10. CASE ReadFailed
  <2>1. loaded = 0 /\ who = "loading"
    BY <1>0, <1>10 DEF ReadFailed, Loading
  <2>2. /\ unread' # "all" /\ (loaded' = com_size \/ loaded' = 0)
        /\ UNCHANGED << who, com_size, picVars, ivt, stackVars >>
    BY <1>0, <1>10, <2>1 DEF ReadFailed
  <2>3. low_mem_buffer' = [u \in Units |-> low_mem_buffer'[u]]
    BY <1>10, <2>2 DEF ReadFailed
  <2>4. RunTypeOK'
    BY <2>2, <2>3
  <2>5. Loading'
    BY <2>2 DEF Loading
  <2>6. QED
    BY <2>1, <2>2, <2>4, <2>5 DEF Stacks, picVars, stackVars
<1>3. CASE run_com_binary
  <2>1. low_mem_buffer' = [low_mem_buffer EXCEPT ![0] = -1] /\ UNCHANGED << com_size, loaded, unread >>
        /\ who' = "program" /\ who = "loading" /\ (loaded = com_size \/ unread = "short")
        /\ saved_sp' = sp - 6
    BY <1>3 DEF run_com_binary
  <2>2. unread = "all" => \A i \in 0 .. loaded - 1 : low_mem_buffer'[PSP + i] = i
    <3>1. HAVE unread = "all"
    <3>2. TAKE i \in 0 .. loaded - 1
    <3> DEFINE u == PSP + i
    <3>3. u \in Units /\ u # 0
      BY <1>0, <2>1, <3>1 DEF PSP
    <3>4. low_mem_buffer[u] = i
      BY <2>1, <3>1 DEF Loading
    <3> HIDE DEF u
    <3>5. low_mem_buffer'[u] = i
      BY <2>1, <3>3, <3>4
    <3>6. QED
      BY <3>5 DEF u
  <2>3. RunTypeOK'
    BY <2>1
  <2>4. Loading'
    BY <2>1, <2>2 DEF Loading
  <2>5. QED
    BY <2>1, <2>3, <2>4 DEF Stacks
<1>4. ASSUME BackToKernel, who = "program"
      PROVE  RunInv'
  BY <1>4 DEF BackToKernel, StackBack, Loading, Stacks, BIOS_TOP
<1>5. CASE ProgramEnds
  BY <1>4, <1>5 DEF ProgramEnds, InProgram
<1>6. CASE Pushes \/ setvect \/ dos_int29h
  BY <1>6 DEF Pushes, setvect, dos_int29h, InProgram, loadVars, picVars, stackVars, Loading, Stacks
<1>7. CASE rm_keyb_intr
  BY <1>4, <1>7 DEF rm_keyb_intr, InProgram, loadVars, picVars, stackVars, Loading, Stacks
<1>8. CASE KeyByte \/ OwnHandler \/ KernelIntr
  BY <1>8 DEF KeyByte, OwnHandler, KernelIntr, loadVars, picVars, stackVars, Loading, Stacks
<1>9. QED
  BY <1>1, <1>2, <1>3, <1>5, <1>6, <1>7, <1>8, <1>10 DEF ComNext

(* A program that fits a cluster is run as it is in its file, if fread got  *)
(* all of it.  What runs may be anything otherwise, but however it ends (by *)
(* returning, by its DOS call, or by ESC in the keyboard's interrupt, at    *)
(* any depth of its stack), the kernel's stack, interrupt flag and          *)
(* interrupt controllers are as run_com_binary found them.                  *)
THEOREM ProgramsRunAndEnd ==
  ASSUME \A s \in Sizes : s <= CLUSTER
  PROVE  Spec => []RunRight
<1>1. RunInv /\ [Next]_vars => RunInv'
  <2>1. RunInv /\ UNCHANGED comVars => RunInv'
    BY DEF comVars, loadVars, picVars, stackVars, RunInv, RunTypeOK, Loading, Stacks, Units
  <2>2. UNCHANGED vars => UNCHANGED comVars
    BY DEF vars
  <2>3. QED
    BY <2>1, <2>2, Alone, RunStep DEF StepOf
<1>2. RunInv => RunRight
  BY DEF RunInv, Loading, Stacks, RunRight, ProgramWhole
<1>3. QED
  BY <1>1, <1>2, RunStarts, PTL DEF Spec
-----------------------------------------------------------------------------
(* The boot loader.  The sectors of the second stage are read one after the *)
(* other to where es and bx point; then the tracks of the kernel            *)
BootStages == {"chs", "boot2", "halted", "a20", "e820", "e801", "88", "load", "main", "kernel"}
Powers == {1, 2, 4, 8, 16, 32, 64, 128, 256}

DriveKnown ==
  /\ {drive, geom} \subseteq Drives /\ regions \in MemoryMaps /\ stage \in BootStages
  /\ stage = "chs" => geom = DefaultDrive
  /\ stage # "chs" /\ GeometryKnown => geom = drive
SecondStage ==
  /\ nsect \in 0 .. Boot2Sectors /\ bx \in 0 .. CHUNK - 1 /\ es \in Nat /\ es + bx = nsect
  /\ low = [i \in 0 .. Boot2Sectors |-> low[i]]
  /\ GeometryKnown => \A i \in 0 .. nsect - 1 : low[i] = 1 + i
  /\ stage \notin {"chs", "boot2", "halted"} => nsect = Boot2Sectors
A20On == stage \in {"e820", "e801", "88", "load", "main", "kernel"} => a20

(* What the BIOS has told of memory so far is in the map, and nothing else  *)
HasRAM(r, a) == r.type = 1 /\ a \in r.base .. r.base + r.size - 1
InMap(map, a) == \E i \in DOMAIN map : a \in map[i].start .. map[i].start + map[i].size - 1
OnlyRAM(map) == \A a \in 0 .. LIMIT - 1 : InMap(map, a) => a \in RAM
AllOf(map, r) == \A a \in 0 .. LIMIT - 2 : HasRAM(r, a) => InMap(map, a)
NoRAM == RAM \subseteq {LIMIT - 1}
MemoryMap ==
  /\ region \in 0 .. Len(regions) /\ boot_mem_map \in Seq([start : Nat, size : Nat])
  /\ region > 0 => "e820" \in works
  /\ stage \in {"chs", "boot2", "a20"} => region = 0 /\ boot_mem_map = << >>
  /\ stage = "e820" => /\ OnlyRAM(boot_mem_map)
                       /\ \A j \in 1 .. region : AllOf(boot_mem_map, regions[j])
  /\ stage \in {"e801", "88"} => (region > 0 => NoRAM)
  /\ stage \in {"load", "main", "kernel"} => MapRight

Kernel_ ==
  /\ high = [i \in 0 .. MainSectors + 7 |-> high[i]]
  /\ stage = "main" =>
       /\ cur_track \in Nat /\ trk_sect \in 0 .. geom.spt - 1 /\ dest_ptr \in Nat
       /\ cur_track * geom.spt + trk_sect = FirstSector + dest_ptr
       /\ sect_left = MainSectors - dest_ptr
       /\ GeometryKnown => \A i \in 0 .. MainSectors + 7 : i < dest_ptr => high[i] = FirstSector + i
  /\ stage = "kernel" /\ GeometryKnown => \A i \in 0 .. MainSectors - 1 : high[i] = FirstSector + i
BootInv == DriveKnown /\ SecondStage /\ A20On /\ MemoryMap /\ Kernel_
(* heads_mask keeps the remainder if the number of heads is a power of two, *)
(* whatever is cut off the track's number                                   *)
LEMMA MaskIsRemainder ==
  ASSUME NEW m \in Powers, NEW t \in Nat
  PROVE  AndBytes(t % 256, m - 1) = t % m
<1> DEFINE x == t % 256
<1>0. x \in 0 .. 255
  OBVIOUS
<1>x. x % m = t % m
  BY DEF Powers
<1> HIDE DEF x
<1>1. AndBytes(x, 0) = x % 1
  BY <1>0 DEF AndBytes, CommonBit
<1>2. AndBytes(x, 1) = x % 2
  BY <1>0 DEF AndBytes, CommonBit
<1>3. AndBytes(x, 3) = x % 4
  BY <1>0 DEF AndBytes, CommonBit
<1>4. AndBytes(x, 7) = x % 8
  BY <1>0 DEF AndBytes, CommonBit
<1>5. AndBytes(x, 15) = x % 16
  BY <1>0 DEF AndBytes, CommonBit
<1>6. AndBytes(x, 31) = x % 32
  BY <1>0 DEF AndBytes, CommonBit
<1>7. AndBytes(x, 63) = x % 64
  BY <1>0 DEF AndBytes, CommonBit
<1>8. AndBytes(x, 127) = x % 128
  BY <1>0 DEF AndBytes, CommonBit
<1>9. AndBytes(x, 255) = x % 256
  BY <1>0 DEF AndBytes, CommonBit
<1>10. AndBytes(x, m - 1) = x % m
  BY <1>1, <1>2, <1>3, <1>4, <1>5, <1>6, <1>7, <1>8, <1>9 DEF Powers
<1>11. QED
  BY <1>x, <1>10 DEF x

LEMMA Quotients ==
  ASSUME NEW m \in Nat \ {0}, NEW t \in Nat
  PROVE  (t \div m) * m + (t % m) = t /\ t \div m \in Nat /\ t % m \in 0 .. m - 1
OBVIOUS

(* The longest piece of RAM from an address on *)
LEMMA ContiguousIsRAM ==
  ASSUME NEW a \in Nat, NEW most \in Nat
  PROVE  /\ Contiguous(a, most) \in 0 .. most
         /\ a .. a + Contiguous(a, most) - 1 \subseteq RAM
<1> DEFINE Bad == { n \in 0 .. most : a + n \notin RAM }
           P(n) == a .. a + n - 1 \subseteq RAM /\ (n = most \/ a + n \notin RAM)
<1>1. \E n \in 0 .. most : P(n)
  <2>1. CASE Bad = {}
    <3>1. \A b \in a .. a + most - 1 : b - a \in 0 .. most /\ a + (b - a) = b
      OBVIOUS
    <3>2. \A b \in a .. a + most - 1 : b \in RAM
      BY <2>1, <3>1
    <3>3. P(most) /\ most \in 0 .. most
      BY <3>2
    <3>4. QED
      BY <3>3
  <2>2. CASE Bad # {}
    <3>0. Bad \in SUBSET Nat
      OBVIOUS
    <3>1. PICK n \in Bad : \A k \in Bad : n <= k
      <4> HIDE DEF Bad
      <4>1. QED
        BY <2>2, <3>0, Least
    <3>2. \A b \in a .. a + n - 1 : b \in RAM
      <4>1. TAKE b \in a .. a + n - 1
      <4>2. b - a \in 0 .. most /\ b - a < n /\ a + (b - a) = b
        BY <3>1
      <4>3. QED
        BY <3>1, <4>2
    <3>3. QED
      BY <3>1, <3>2
  <2>3. QED
    BY <2>1, <2>2
<1>2. Contiguous(a, most) = CHOOSE n \in 0 .. most : P(n)
  BY DEF Contiguous
<1> HIDE DEF P
<1>3. Contiguous(a, most) \in 0 .. most /\ P(Contiguous(a, most))
  BY <1>1, <1>2
<1>4. QED
  BY <1>3 DEF P

LEMMA RoundedUp ==
  ASSUME NEW n \in Nat
  PROVE  (n + SECT - 1) \div SECT \in Nat
<1>1. SECT \in Nat \ {0} /\ n + SECT - 1 \in Nat
  BY BootAssumption
<1>2. QED
  BY <1>1, Quotients

LEMMA SectorCounts == Boot2Sectors \in Nat /\ MainSectors \in Nat /\ FirstSector \in Nat
<1>1. Boot2Size \in Nat /\ MainSize \in Nat /\ SECT \in Nat \ {0} /\ Boot2Size % SECT = 0
  BY BootAssumption
<1>2. Boot2Size \div SECT \in Nat
  BY <1>1, Quotients
<1>3. QED
  BY <1>1, <1>2, RoundedUp DEF Boot2Sectors, MainSectors, FirstSector

LEMMA BootStarts == Init => BootInv
<1>1. SUFFICES ASSUME Init PROVE BootInv
  OBVIOUS
<1>2. Some.maps = One(MemoryMaps) /\ One(MemoryMaps) \in MemoryMaps /\ Some.drives = DefaultDrive
  BY BootAssumption DEF Some, One
<1>3. Given("boot", Drives, Some.drives) \subseteq Drives /\ Given("boot", MemoryMaps, Some.maps) \subseteq MemoryMaps
  BY <1>2, BootAssumption DEF Given
<1>4. BootInit(Given("boot", Drives, Some.drives), Given("boot", MemoryMaps, Some.maps),
               Given("boot", { {"kbd"}, {"fast"} }, {"fast"}),
               Given("boot", SUBSET {"chs", "e820", "e801", "88"}, {"88"}))
  BY <1>1 DEF Init
<1> HIDE DEF Given
<1>5. DriveKnown /\ A20On /\ Kernel_
  BY <1>3, <1>4, BootAssumption DEF BootInit, DriveKnown, A20On, Kernel_, BootStages
<1>6. SecondStage
  BY <1>4, BootAssumption, SectorCounts DEF BootInit, SecondStage
<1>7. MemoryMap
  BY <1>4, <1>3, BootAssumption DEF BootInit, MemoryMap
<1>8. QED
  BY <1>5, <1>6, <1>7 DEF BootInv
LEMMA ReadsOneSector ==
  ASSUME BootInv, read_sector, \A d \in Drives : d.heads \in Powers
  PROVE  BootInv'
<1> DEFINE index == nsect + 1
           track == index \div geom.spt
           cyl == track \div geom.heads
           h == HeadOf(track)
           s == (index % geom.spt) + 1
<1>1. /\ stage = "boot2" /\ nsect < Boot2Sectors /\ low' = [low EXCEPT ![es + bx] = NumberOf(cyl, h, s)]
      /\ bx' = (bx + 1) % CHUNK /\ es' = (IF bx + 1 = CHUNK THEN es + CHUNK ELSE es) /\ nsect' = nsect + 1
      /\ UNCHANGED << stage, geom, a20, machine, memVars, trackVars >>
  BY DEF read_sector
<1>2. (GeometryKnown => geom = drive) /\ geom.spt \in Nat \ {0} /\ geom.heads \in Nat \ {0}
      /\ geom.heads \in Powers /\ CHUNK \in Nat \ {0} /\ Boot2Sectors \in Nat
  BY <1>1, BootAssumption, SectorCounts DEF BootInv, DriveKnown
<1>3. nsect \in Nat /\ bx \in 0 .. CHUNK - 1 /\ es \in Nat /\ es + bx = nsect
  BY <1>1, <1>2 DEF BootInv, SecondStage
<1>4. ASSUME GeometryKnown
      PROVE  NumberOf(cyl, h, s) = index
  <2>1. index \in Nat
    BY <1>3
  <2>2. track \in Nat /\ (track * geom.spt) + (index % geom.spt) = index /\ index % geom.spt \in Nat
    <3> DEFINE d == geom.spt
    <3>1. d \in Nat \ {0}
      BY <1>2
    <3> HIDE DEF d, index
    <3>2. (index \div d) * d + (index % d) = index /\ index \div d \in Nat /\ index % d \in 0 .. d - 1
      BY <2>1, <3>1, Quotients
    <3>3. index % d \in Nat
      BY <3>1, <3>2
    <3>4. QED
      BY <3>2, <3>3 DEF d
  <2>3. (cyl * geom.heads) + (track % geom.heads) = track
    BY <1>2, <2>2, Quotients
  <2>4. h = track % geom.heads
    BY <1>2, <2>2, MaskIsRemainder DEF HeadOf
  <2>5. NumberOf(cyl, h, s) = (track * geom.spt) + s - 1
    BY <1>2, <1>4, <2>3, <2>4 DEF NumberOf
  <2>6. s = (index % geom.spt) + 1
    OBVIOUS
  <2> DEFINE m == index % geom.spt
             t == track * geom.spt
  <2>7. m \in Nat /\ t + m = index /\ s = m + 1 /\ NumberOf(cyl, h, s) = t + s - 1
    BY <2>2, <2>5, <2>6
  <2>8. t \in Nat
    BY <1>2, <2>2
  <2> HIDE DEF m, t, s, track, index, cyl, h
  <2>9. QED
    BY <2>7, <2>8
<1> HIDE DEF cyl, h, s, track
<1> DEFINE read == NumberOf(cyl, h, s)
<1>5. low' = [low EXCEPT ![nsect] = read] /\ (GeometryKnown => read = nsect + 1)
      /\ GeometryKnown' = GeometryKnown
  BY <1>1, <1>3, <1>4 DEF GeometryKnown, machine
<1> HIDE DEF read
<1>6. nsect' \in 0 .. Boot2Sectors /\ bx' \in 0 .. CHUNK - 1 /\ es' \in Nat /\ es' + bx' = nsect'
  <2>1. CASE bx + 1 = CHUNK
    BY <1>1, <1>2, <1>3, <2>1
  <2>2. CASE bx + 1 # CHUNK
    <3>1. (bx + 1) % CHUNK = bx + 1
      BY <1>2, <1>3, <2>2
    <3>2. QED
      BY <1>1, <1>2, <1>3, <2>2, <3>1
  <2>3. QED
    BY <2>1, <2>2
<1>7. SecondStage'
  <2>1. low' = [i \in 0 .. Boot2Sectors |-> low'[i]]
    BY <1>5 DEF BootInv, SecondStage
  <2>2. ASSUME GeometryKnown
        PROVE  \A i \in 0 .. nsect' - 1 : low'[i] = 1 + i
    <3>1. TAKE i \in 0 .. nsect' - 1
    <3>2. i \in 0 .. Boot2Sectors /\ (i # nsect => i \in 0 .. nsect - 1)
      BY <1>1, <1>2, <1>3
    <3>3. low'[i] = IF i = nsect THEN nsect + 1 ELSE low[i]
      BY <1>5, <2>2, <3>2 DEF BootInv, SecondStage
    <3>4. i # nsect => low[i] = 1 + i
      BY <2>2, <3>2 DEF BootInv, SecondStage
    <3>5. QED
      BY <1>3, <3>3, <3>4
  <2>3. QED
    BY <1>1, <1>5, <1>6, <2>1, <2>2, SectorCounts DEF SecondStage
<1>8. (DriveKnown /\ A20On /\ MemoryMap /\ Kernel_)'
  BY <1>1, <1>5 DEF BootInv, DriveKnown, A20On, MemoryMap, Kernel_, machine, memVars, trackVars
<1>9. QED
  BY <1>7, <1>8 DEF BootInv
LEMMA ReadsOneTrack ==
  ASSUME BootInv, read_track
  PROVE  BootInv'
<1> DEFINE cyl == cur_track \div geom.heads
           h == cur_track % geom.heads
           n == geom.spt - trk_sect
           at0 == NumberOf(cyl, h, trk_sect + 1)
<1>1. /\ stage = "main" /\ dest_ptr' = dest_ptr + n /\ sect_left' = sect_left - n
      /\ high' = [i \in DOMAIN high |-> IF i - dest_ptr \in 0 .. n - 1 THEN at0 + i - dest_ptr ELSE high[i]]
      /\ stage' = IF sect_left > n THEN "main" ELSE "kernel"
      /\ cur_track' = cur_track + 1 /\ trk_sect' = 0
      /\ UNCHANGED << geom, a20, machine, readVars, memVars >>
  BY DEF read_track, NextFrom
<1>2. (GeometryKnown => geom = drive) /\ geom.spt \in Nat \ {0} /\ geom.heads \in Nat \ {0}
      /\ MainSectors \in Nat /\ FirstSector \in Nat
  BY <1>1, BootAssumption, SectorCounts DEF BootInv, DriveKnown
<1>3. /\ cur_track \in Nat /\ trk_sect \in 0 .. geom.spt - 1 /\ dest_ptr \in Nat
      /\ cur_track * geom.spt + trk_sect = FirstSector + dest_ptr
      /\ sect_left = MainSectors - dest_ptr
  BY <1>1 DEF BootInv, Kernel_
<1>4. ASSUME GeometryKnown
      PROVE  at0 = FirstSector + dest_ptr
  <2>1. (cyl * geom.heads) + h = cur_track
    <3> DEFINE d == geom.heads
    <3>1. d \in Nat \ {0}
      BY <1>2
    <3> HIDE DEF d
    <3>2. (cur_track \div d) * d + (cur_track % d) = cur_track
      BY <1>3, <3>1, Quotients
    <3>3. QED
      BY <3>2 DEF d
  <2>2. at0 = (cur_track * geom.spt) + (trk_sect + 1) - 1
    BY <1>2, <1>4, <2>1 DEF NumberOf
  <2> DEFINE t == cur_track * geom.spt
  <2>3. t \in Nat /\ at0 = t + (trk_sect + 1) - 1 /\ t + trk_sect = FirstSector + dest_ptr /\ trk_sect \in Nat
    BY <1>2, <1>3, <2>2
  <2> HIDE DEF t, at0
  <2>4. QED
    BY <2>3
<1>5. n \in Nat \ {0} /\ (cur_track + 1) * geom.spt = FirstSector + (dest_ptr + n)
  <2> DEFINE d == geom.spt
             t == cur_track * d
  <2>1. d \in Nat \ {0} /\ t \in Nat /\ (cur_track + 1) * d = t + d /\ t + trk_sect = FirstSector + dest_ptr
        /\ trk_sect \in 0 .. d - 1 /\ n = d - trk_sect
    BY <1>2, <1>3
  <2> HIDE DEF t, d, n
  <2>2. n \in Nat \ {0} /\ (cur_track + 1) * d = FirstSector + (dest_ptr + n)
    BY <1>2, <1>3, <2>1
  <2>3. QED
    BY <2>2 DEF d
<1> HIDE DEF at0, n, cyl, h
<1>12. GeometryKnown' = GeometryKnown
  BY <1>1 DEF GeometryKnown, machine
<1>6. ASSUME GeometryKnown, NEW i \in 0 .. MainSectors + 7, i < dest_ptr + n
      PROVE  high'[i] = FirstSector + i
  <2>1. high'[i] = IF i - dest_ptr \in 0 .. n - 1 THEN at0 + i - dest_ptr ELSE high[i]
    BY <1>1 DEF BootInv, Kernel_
  <2>2. CASE i < dest_ptr
    <3>1. high[i] = FirstSector + i
      BY <1>1, <1>6, <2>2 DEF BootInv, Kernel_
    <3>2. QED
      BY <1>3, <1>5, <2>1, <2>2, <3>1
  <2>3. CASE ~(i < dest_ptr)
    BY <1>2, <1>3, <1>4, <1>5, <1>6, <2>1, <2>3
  <2>4. QED
    BY <2>2, <2>3
<1>7. Kernel_'
  <2>1. high' = [i \in 0 .. MainSectors + 7 |-> high'[i]]
    BY <1>1 DEF BootInv, Kernel_
  <2>2. CASE sect_left > n
    <3>1. GeometryKnown => \A i \in 0 .. MainSectors + 7 : i < dest_ptr' => high'[i] = FirstSector + i
      BY <1>1, <1>6
    <3>2. cur_track' \in Nat /\ trk_sect' \in 0 .. geom.spt - 1 /\ dest_ptr' \in Nat
          /\ cur_track' * geom.spt + trk_sect' = FirstSector + dest_ptr'
      <4>1. cur_track' \in Nat /\ trk_sect' = 0 /\ dest_ptr' = dest_ptr + n /\ dest_ptr' \in Nat
        BY <1>1, <1>3, <1>5
      <4> DEFINE p == cur_track' * geom.spt
      <4>2. p = FirstSector + dest_ptr'
        BY <1>1, <1>5
      <4> HIDE DEF p
      <4>3. p + trk_sect' = FirstSector + dest_ptr'
        BY <1>2, <4>1, <4>2
      <4>4. QED
        BY <1>2, <4>1, <4>3 DEF p
    <3>3. sect_left' = MainSectors - dest_ptr'
      BY <1>1, <1>2, <1>3, <1>5
    <3>4. stage' = "main" /\ geom' = geom
      BY <1>1, <2>2
    <3>5. QED
      BY <1>12, <2>1, <3>1, <3>2, <3>3, <3>4 DEF Kernel_
  <2>3. CASE ~(sect_left > n)
    <3>1. ASSUME GeometryKnown
          PROVE  \A i \in 0 .. MainSectors - 1 : high'[i] = FirstSector + i
      <4>1. TAKE i \in 0 .. MainSectors - 1
      <4>2. i \in 0 .. MainSectors + 7 /\ i < dest_ptr + n
        BY <1>2, <1>3, <1>5, <2>3
      <4>3. QED
        BY <1>6, <3>1, <4>2
    <3>2. stage' = "kernel"
      BY <1>1, <2>3
    <3>3. QED
      BY <1>12, <2>1, <3>1, <3>2 DEF Kernel_
  <2>4. QED
    BY <2>2, <2>3
<1>8. stage' \in {"main", "kernel"}
  BY <1>1
<1>9. MemoryMap'
  <2>1. RAM' = RAM /\ Covered' = Covered
    BY <1>1 DEF RAM, Covered, machine, memVars
  <2>2. MapRight' = MapRight
    BY <1>1, <2>1 DEF MapRight, memVars
  <2>3. QED
    BY <1>1, <1>8, <2>2 DEF BootInv, MemoryMap, machine, memVars
<1>10. (DriveKnown /\ A20On /\ SecondStage)'
  BY <1>1, <1>8, <1>12 DEF BootInv, DriveKnown, A20On, SecondStage, BootStages, machine, readVars
<1>11. QED
  BY <1>7, <1>9, <1>10 DEF BootInv
(* What the map covers, address by address *)
LEMMA CoveredIsInMap == \A a : a \in Covered <=> InMap(boot_mem_map, a)
BY DEF Covered, InMap

LEMMA MapRightFrom ==
  ASSUME OnlyRAM(boot_mem_map), region > 0 => RAM \ {LIMIT - 1} \subseteq Covered
  PROVE  MapRight
BY CoveredIsInMap DEF MapRight, OnlyRAM

LEMMA AllRegionsOf ==
  ASSUME NEW map, regions \in Seq([base : Nat, size : Nat, type : Nat]), LIMIT \in Nat,
         \A j \in 1 .. Len(regions) : AllOf(map, regions[j])
  PROVE  \A a \in RAM \ {LIMIT - 1} : InMap(map, a)
<1>1. TAKE a \in RAM \ {LIMIT - 1}
<1>2. a \in 0 .. LIMIT - 2
  <2>1. a \in 0 .. LIMIT - 1 /\ a # LIMIT - 1
    BY DEF RAM
  <2>2. QED
    BY <2>1
<1>3. PICK j \in DOMAIN regions : HasRAM(regions[j], a)
  BY DEF RAM, HasRAM
<1>4. j \in 1 .. Len(regions)
  OBVIOUS
<1>5. QED
  BY <1>2, <1>3, <1>4 DEF AllOf

(* A region that is taken into the map *)
LEMMA TakesRegion ==
  ASSUME NEW r \in [base : Nat, size : Nat, type : Nat], NEW map \in Seq([start : Nat, size : Nat]),
         LIMIT \in Nat, Usable(r)
  PROVE  /\ Append(map, Taken(r)) \in Seq([start : Nat, size : Nat])
         /\ \A a : InMap(map, a) => InMap(Append(map, Taken(r)), a)
         /\ AllOf(Append(map, Taken(r)), r)
         /\ \A a : InMap(Append(map, Taken(r)), a) => InMap(map, a) \/ HasRAM(r, a)
<1> DEFINE t == Taken(r)
           m2 == Append(map, t)
<1>0. LIMIT - 1 \in Nat /\ r.base < LIMIT /\ r.type = 1 /\ r.size \in Nat /\ r.base \in Nat
  BY DEF Usable
<1>1. t \in [start : Nat, size : Nat] /\ t.start = r.base
      /\ t.size = IF r.size >= LIMIT THEN LIMIT - 1 ELSE r.size
  BY <1>0 DEF Taken
<1> HIDE DEF t
<1>2. m2 \in Seq([start : Nat, size : Nat]) /\ DOMAIN m2 = 1 .. Len(map) + 1 /\ DOMAIN map = 1 .. Len(map)
      /\ Len(map) \in Nat /\ m2[Len(map) + 1] = t /\ \A i \in DOMAIN map : m2[i] = map[i]
  BY <1>1, AppendProperties
<1> HIDE DEF m2
<1>3. ASSUME NEW a, InMap(map, a)
      PROVE  InMap(m2, a)
  <2>1. PICK i \in DOMAIN map : a \in map[i].start .. map[i].start + map[i].size - 1
    BY <1>3 DEF InMap
  <2>2. i \in DOMAIN m2 /\ m2[i] = map[i]
    BY <1>2
  <2>3. QED
    BY <2>1, <2>2 DEF InMap
<1>4. ASSUME NEW a, a \in t.start .. t.start + t.size - 1
      PROVE  InMap(m2, a)
  <2>1. Len(map) + 1 \in DOMAIN m2
    BY <1>2
  <2>2. QED
    BY <1>2, <1>4, <2>1 DEF InMap
<1>5. AllOf(m2, r)
  <2>1. SUFFICES ASSUME NEW a \in 0 .. LIMIT - 2, HasRAM(r, a)
                 PROVE  InMap(m2, a)
    BY DEF AllOf
  <2>2. a \in t.start .. t.start + t.size - 1
    BY <1>0, <1>1, <2>1 DEF HasRAM
  <2>3. QED
    BY <1>4, <2>2
<1>6. ASSUME NEW a, InMap(m2, a)
      PROVE  InMap(map, a) \/ HasRAM(r, a)
  <2>1. PICK i \in DOMAIN m2 : a \in m2[i].start .. m2[i].start + m2[i].size - 1
    BY <1>6 DEF InMap
  <2>2. CASE i \in DOMAIN map
    BY <1>2, <2>1, <2>2 DEF InMap
  <2>3. CASE i = Len(map) + 1
    <3>1. a \in t.start .. t.start + t.size - 1
      BY <1>2, <2>1, <2>3
    <3>2. a \in r.base .. r.base + r.size - 1
      BY <1>0, <1>1, <3>1
    <3>3. QED
      BY <1>0, <3>2 DEF HasRAM
  <2>4. QED
    BY <1>2, <2>2, <2>3
<1>7. QED
  BY <1>2, <1>3, <1>5, <1>6 DEF m2, t

(* A region that is not taken has no RAM below 4GB *)
LEMMA SkipsRegion ==
  ASSUME NEW r \in [base : Nat, size : Nat, type : Nat], NEW map, LIMIT \in Nat, ~Usable(r)
  PROVE  AllOf(map, r)
<1>1. ASSUME NEW a \in 0 .. LIMIT - 2, HasRAM(r, a)
      PROVE  FALSE
  BY <1>1 DEF Usable, HasRAM
<1>2. QED
  BY <1>1 DEF AllOf
MapType == Seq([start : Nat, size : Nat])
Regions_ == Seq([base : Nat, size : Nat, type : Nat])

LEMMA AsksE820 ==
  ASSUME BootInv, detect_mem_e820
  PROVE  MemoryMap'
<1>1. stage = "e820" /\ UNCHANGED machine
  BY DEF detect_mem_e820
<1>2. /\ regions \in Regions_ /\ LIMIT \in Nat /\ Len(regions) \in Nat /\ region \in 0 .. Len(regions)
      /\ boot_mem_map \in MapType /\ RAM' = RAM
      /\ OnlyRAM(boot_mem_map) /\ \A j \in 1 .. region : AllOf(boot_mem_map, regions[j])
  <2>1. regions \in Regions_ /\ LIMIT \in Nat /\ Len(regions) \in Nat
    BY BootAssumption DEF BootInv, DriveKnown, Regions_
  <2>2. RAM' = RAM
    BY <1>1 DEF RAM, machine
  <2>3. QED
    BY <1>1, <2>1, <2>2 DEF BootInv, MemoryMap, MapType
<1>3. CASE "e820" \in works /\ region < Len(regions)
  <2> DEFINE r == regions[region + 1]
             m == boot_mem_map'
  <2>1. r \in [base : Nat, size : Nat, type : Nat] /\ region + 1 \in DOMAIN regions
    <3> DEFINE k == region + 1
    <3>1. k \in 1 .. Len(regions)
      BY <1>2, <1>3
    <3> DEFINE R == [base : Nat, size : Nat, type : Nat]
    <3>2. regions \in Seq(R)
      BY <1>2 DEF Regions_
    <3> HIDE DEF k, R
    <3>3. regions[k] \in R /\ k \in DOMAIN regions
      BY <3>1, <3>2, ElementOfSeq
    <3>4. QED
      BY <3>3 DEF k, R
  <2>2. /\ region' = region + 1 /\ m = IF Usable(r) THEN Append(boot_mem_map, Taken(r)) ELSE boot_mem_map
        /\ stage' = "e820" \/ (region' = Len(regions) /\ stage' = "load")
    BY <1>3 DEF detect_mem_e820
  <2>3. \A a \in 0 .. LIMIT - 1 : HasRAM(r, a) => a \in RAM
    BY <2>1 DEF RAM, HasRAM
  <2> HIDE DEF r
  <2>4. /\ m \in MapType /\ \A a : InMap(boot_mem_map, a) => InMap(m, a)
        /\ AllOf(m, r) /\ \A a : InMap(m, a) => InMap(boot_mem_map, a) \/ HasRAM(r, a)
    <3>1. CASE Usable(r)
      BY <1>2, <2>1, <2>2, <3>1, TakesRegion DEF MapType
    <3>2. CASE ~Usable(r)
      BY <1>2, <2>1, <2>2, <3>2, SkipsRegion DEF MapType
    <3>3. QED
      BY <3>1, <3>2
  <2> HIDE DEF m
  <2>5. OnlyRAM(m)
    BY <1>2, <2>3, <2>4 DEF OnlyRAM
  <2>6. \A j \in 1 .. region + 1 : AllOf(m, regions[j])
    <3>1. TAKE j \in 1 .. region + 1
    <3>2. CASE j = region + 1
      BY <2>4, <3>2 DEF r
    <3>3. CASE j # region + 1
      <4>1. AllOf(boot_mem_map, regions[j])
        BY <1>2, <3>3
      <4>2. QED
        BY <2>4, <4>1 DEF AllOf
    <3>4. QED
      BY <3>2, <3>3
  <2>7. region' \in 0 .. Len(regions) /\ UNCHANGED << works, regions >>
    BY <1>1, <1>2, <1>3, <2>2 DEF machine
  <2>8. CASE stage' = "e820"
    <3>1. OnlyRAM(boot_mem_map)' /\ \A j \in 1 .. region' : AllOf(boot_mem_map, regions[j])'
      BY <1>2, <2>2, <2>5, <2>6, <2>7 DEF m, OnlyRAM, AllOf, InMap
    <3>2. QED
      BY <1>3, <2>2, <2>4, <2>7, <2>8, <3>1 DEF MemoryMap, MapType, m
  <2>9. CASE region' = Len(regions) /\ stage' = "load"
    <3>1. \A a \in RAM \ {LIMIT - 1} : InMap(m, a)
      <4> DEFINE k == region + 1
      <4>1. k = Len(regions) /\ \A j \in 1 .. k : AllOf(m, regions[j])
        BY <2>2, <2>6, <2>9
      <4> HIDE DEF k
      <4>2. \A j \in 1 .. Len(regions) : AllOf(m, regions[j])
        BY <4>1
      <4>3. QED
        BY <1>2, <4>2, AllRegionsOf DEF Regions_
    <3>2. \A a : a \in Covered' <=> InMap(m, a)
      BY DEF Covered, InMap, m
    <3>3. MapRight'
      BY <1>2, <2>5, <3>1, <3>2 DEF MapRight, OnlyRAM
    <3>4. QED
      BY <1>3, <2>2, <2>4, <2>7, <2>9, <3>3 DEF MemoryMap, MapType, m
  <2>10. QED
    BY <2>2, <2>8, <2>9
<1>4. CASE ~("e820" \in works /\ region < Len(regions))
  <2>1. stage' = AfterE820(boot_mem_map) /\ UNCHANGED << region, boot_mem_map, works, regions >>
    BY <1>1, <1>4 DEF detect_mem_e820, machine
  <2>2. region > 0 => region = Len(regions)
    BY <1>1, <1>2, <1>4 DEF BootInv, MemoryMap
  <2>3. region > 0 => \A a \in RAM \ {LIMIT - 1} : InMap(boot_mem_map, a)
    BY <1>2, <2>2, AllRegionsOf DEF Regions_
  <2>4. MemoryMap' \/ boot_mem_map # << >>
    <3>1. SUFFICES ASSUME boot_mem_map = << >> PROVE MemoryMap'
      OBVIOUS
    <3>2. region > 0 => NoRAM
      BY <2>3, <3>1 DEF NoRAM, InMap
    <3>3. stage' = "e801" /\ NoRAM' = NoRAM
      BY <1>2, <2>1, <3>1 DEF AfterE820, NoRAM
    <3>4. QED
      BY <1>1, <2>1, <3>2, <3>3 DEF BootInv, MemoryMap
  <2>5. MemoryMap' \/ boot_mem_map = << >>
    <3>1. SUFFICES ASSUME boot_mem_map # << >> PROVE MemoryMap'
      OBVIOUS
    <3>2. MapRight
      BY <1>2, <2>3, MapRightFrom, CoveredIsInMap
    <3>3. stage' = "load" /\ Covered' = Covered
      BY <2>1, <3>1 DEF AfterE820, Covered
    <3>4. MapRight'
      BY <1>2, <2>1, <3>2, <3>3 DEF MapRight
    <3>5. QED
      BY <1>1, <2>1, <3>3, <3>4 DEF BootInv, MemoryMap
  <2>6. QED
    BY <2>4, <2>5
<1>5. QED
  BY <1>3, <1>4
LEMMA AsksE801 ==
  ASSUME BootInv, detect_mem_e801
  PROVE  MemoryMap'
<1> DEFINE lo == Contiguous(M1, M16 - M1)
           hi == Contiguous(M16, LIMIT - M16)
           below == << [start |-> M1, size |-> lo] >>
           above == IF hi = 0 THEN << >> ELSE << [start |-> M16, size |-> hi] >>
<1>1. stage = "e801" /\ UNCHANGED << machine, region >>
  BY DEF detect_mem_e801
<1>2. IF "e801" \in works /\ lo # 0
      THEN boot_mem_map' = below \o above /\ stage' = "load"
      ELSE stage' = "88" /\ UNCHANGED boot_mem_map
  BY DEF detect_mem_e801
<1>3. M1 \in Nat /\ M16 \in Nat /\ M16 - M1 \in Nat /\ LIMIT - M16 \in Nat
  BY BootAssumption
<1>4. lo \in Nat /\ hi \in Nat /\ M1 .. M1 + lo - 1 \subseteq RAM /\ M16 .. M16 + hi - 1 \subseteq RAM
  <2> DEFINE p == M16 - M1
             q == LIMIT - M16
  <2>1. p \in Nat /\ q \in Nat
    BY <1>3
  <2> HIDE DEF p, q
  <2>2. /\ Contiguous(M1, p) \in 0 .. p /\ M1 .. M1 + Contiguous(M1, p) - 1 \subseteq RAM
        /\ Contiguous(M16, q) \in 0 .. q /\ M16 .. M16 + Contiguous(M16, q) - 1 \subseteq RAM
    BY <1>3, <2>1, ContiguousIsRAM
  <2>3. Contiguous(M1, p) \in Nat /\ Contiguous(M16, q) \in Nat
    BY <2>1, <2>2
  <2>4. QED
    BY <2>2, <2>3 DEF p, q
<1>5. RAM' = RAM /\ (region > 0 => NoRAM) /\ region \in 0 .. Len(regions) /\ boot_mem_map \in MapType
      /\ (region > 0 => "e820" \in works) /\ UNCHANGED << works, regions, region >>
  BY <1>1 DEF RAM, machine, BootInv, MemoryMap, MapType
<1> HIDE DEF lo, hi
<1>6. CASE "e801" \in works /\ lo # 0
  <2> DEFINE m == below \o above
  <2>1. /\ m \in MapType
        /\ \A i \in DOMAIN m : m[i] = [start |-> M1, size |-> lo] \/ m[i] = [start |-> M16, size |-> hi]
    <3> DEFINE e == [start |-> M1, size |-> lo]
               f == [start |-> M16, size |-> hi]
               E == [start : Nat, size : Nat]
    <3>1. e \in E /\ f \in E
      BY <1>3, <1>4
    <3>2. m = << e >> \/ m = << e >> \o << f >>
      <4>1. CASE hi = 0
        <5>1. m = << e >> \o << >>
          BY <4>1
        <5>2. << e >> \in Seq({e})
          OBVIOUS
        <5>3. QED
          BY <5>1, <5>2, ConcatEmptySeq
      <4>2. CASE hi # 0
        BY <4>2
      <4>3. QED
        BY <4>1, <4>2
    <3>3. m \in Seq(E) /\ \A i \in DOMAIN m : m[i] = e \/ m[i] = f
      <4> HIDE DEF m, e, f, E
      <4>1. << e >> \in Seq(E) /\ << f >> \in Seq(E) /\ << e >>[1] = e /\ << f >>[1] = f
            /\ Len(<< e >>) = 1 /\ Len(<< f >>) = 1
        BY <3>1
      <4>2. CASE m = << e >>
        BY <4>1, <4>2
      <4>3. CASE m = << e >> \o << f >>
        BY <4>1, <4>3, ConcatProperties
      <4>4. QED
        BY <3>2, <4>2, <4>3
    <3>4. QED
      BY <3>3 DEF MapType
  <2>2. boot_mem_map' = m /\ stage' = "load"
    BY <1>2, <1>6
  <2> HIDE DEF m
  <2>3. \A a : InMap(m, a) => a \in RAM
    BY <1>4, <2>1 DEF InMap
  <2>4. \A a : a \in Covered' => a \in RAM
    BY <2>2, <2>3 DEF Covered, InMap
  <2>5. MapRight'
    BY <1>5, <2>4 DEF MapRight, NoRAM
  <2>6. QED
    BY <1>5, <2>1, <2>2, <2>5 DEF MemoryMap, MapType
<1>7. CASE ~("e801" \in works /\ lo # 0)
  <2>1. stage' = "88" /\ boot_mem_map' = boot_mem_map /\ NoRAM' = NoRAM
    BY <1>2, <1>5, <1>7 DEF NoRAM
  <2>2. QED
    BY <1>5, <2>1 DEF MemoryMap, MapType
<1>8. QED
  BY <1>6, <1>7

LEMMA Asks88 ==
  ASSUME BootInv, detect_mem_88
  PROVE  MemoryMap'
<1> DEFINE n == Contiguous(M1, LIMIT - M1)
<1>1. stage = "88" /\ UNCHANGED << machine, region >>
  BY DEF detect_mem_88
<1>2. IF "88" \in works /\ n # 0
      THEN boot_mem_map' = << [start |-> M1, size |-> n] >> /\ stage' = "load"
      ELSE stage' = "halted" /\ UNCHANGED boot_mem_map
  BY DEF detect_mem_88
<1>3. M1 \in Nat /\ LIMIT - M1 \in Nat
  BY BootAssumption
<1>4. n \in Nat /\ M1 .. M1 + n - 1 \subseteq RAM
  BY <1>3, ContiguousIsRAM
<1>5. RAM' = RAM /\ (region > 0 => NoRAM) /\ region \in 0 .. Len(regions) /\ boot_mem_map \in MapType
      /\ (region > 0 => "e820" \in works) /\ UNCHANGED << works, regions, region >>
  BY <1>1 DEF RAM, machine, BootInv, MemoryMap, MapType
<1> HIDE DEF n
<1>6. CASE "88" \in works /\ n # 0
  <2> DEFINE m == << [start |-> M1, size |-> n] >>
  <2>1. m \in MapType /\ \A i \in DOMAIN m : m[i] = [start |-> M1, size |-> n]
    BY <1>3, <1>4 DEF MapType
  <2>2. boot_mem_map' = m /\ stage' = "load"
    BY <1>2, <1>6
  <2> HIDE DEF m
  <2>3. \A a : InMap(m, a) => a \in RAM
    BY <1>4, <2>1 DEF InMap
  <2>4. \A a : a \in Covered' => a \in RAM
    BY <2>2, <2>3 DEF Covered, InMap
  <2>5. MapRight'
    BY <1>5, <2>4 DEF MapRight, NoRAM
  <2>6. QED
    BY <1>5, <2>1, <2>2, <2>5 DEF MemoryMap, MapType
<1>7. CASE ~("88" \in works /\ n # 0)
  BY <1>2, <1>5, <1>7 DEF MemoryMap, MapType
<1>8. QED
  BY <1>6, <1>7

LEMMA BootKeeps ==
  ASSUME BootInv, UNCHANGED << machine, region, boot_mem_map >>
  PROVE  (stage' = stage \/ {stage, stage'} \subseteq {"load", "main", "kernel"} => MemoryMap')
<1>1. RAM' = RAM /\ Covered' = Covered
  BY DEF RAM, Covered, machine
<1>2. MapRight' = MapRight /\ NoRAM' = NoRAM
  BY <1>1, UNCHANGED region, UNCHANGED boot_mem_map DEF MapRight, NoRAM
<1>3. OnlyRAM(boot_mem_map)' = OnlyRAM(boot_mem_map)
      /\ \A j \in 1 .. region : AllOf(boot_mem_map, regions[j])' = AllOf(boot_mem_map, regions[j])
  BY <1>1 DEF OnlyRAM, AllOf, InMap, machine
<1>4. QED
  BY <1>2, <1>3 DEF BootInv, MemoryMap, machine

LEMMA BootStep ==
  ASSUME BootInv, BootNext, \A d \in Drives : d.heads \in Powers
  PROVE  BootInv'
<1>1. CASE get_drive_chs
  <2>1. stage = "chs" /\ stage' = "boot2" /\ (IF "chs" \in works THEN geom' = drive ELSE geom' = geom)
        /\ UNCHANGED << tries, a20, machine, readVars, memVars, trackVars >>
    BY <1>1 DEF get_drive_chs
  <2>2. QED
    BY <2>1 DEF GeometryKnown, BootInv, DriveKnown, SecondStage, A20On, MemoryMap, Kernel_, BootStages,
                machine, readVars, memVars, trackVars
<1>2. CASE SectorFails
  <2>1. /\ stage \in {"boot2", "main"} /\ stage' \in {stage, "halted"}
        /\ UNCHANGED << geom, a20, machine, readVars, memVars, trackVars >>
    BY <1>2 DEF SectorFails
  <2>2. (DriveKnown /\ SecondStage /\ A20On /\ Kernel_)'
    BY <2>1 DEF BootInv, DriveKnown, SecondStage, A20On, Kernel_, BootStages, GeometryKnown,
                machine, readVars, memVars, trackVars
  <2>3. MemoryMap'
    <3>1. CASE stage' = stage
      BY <2>1, <3>1, BootKeeps DEF memVars
    <3>2. CASE stage' = "halted"
      BY <2>1, <3>2 DEF BootInv, MemoryMap, machine, memVars
    <3>3. QED
      BY <2>1, <3>1, <3>2
  <2>4. QED
    BY <2>2, <2>3 DEF BootInv
<1>3. CASE read_sector
  BY <1>3, ReadsOneSector
<1>4. CASE JumpToBoot2
  <2>1. /\ stage = "boot2" /\ nsect = Boot2Sectors /\ stage' = "a20"
        /\ UNCHANGED << geom, a20, machine, readVars, memVars, trackVars >>
    BY <1>4 DEF JumpToBoot2
  <2>2. QED
    BY <2>1 DEF BootInv, DriveKnown, SecondStage, A20On, MemoryMap, Kernel_, BootStages, GeometryKnown,
                machine, readVars, memVars, trackVars
<1>5. CASE enable_a20
  <2>1. /\ stage = "a20" /\ (stage' = "a20" \/ (a20 /\ a20' = a20 /\ stage' = "e820"))
        /\ UNCHANGED << geom, machine, readVars, memVars, trackVars >>
    BY <1>5 DEF enable_a20
  <2>2. (DriveKnown /\ SecondStage /\ A20On /\ Kernel_)'
    BY <2>1 DEF BootInv, DriveKnown, SecondStage, A20On, Kernel_, BootStages, GeometryKnown,
                machine, readVars, memVars, trackVars
  <2>3. OnlyRAM(<< >>)' /\ region = 0 /\ boot_mem_map = << >>
    BY <2>1 DEF BootInv, MemoryMap, OnlyRAM, InMap
  <2>4. MemoryMap'
    BY <2>1, <2>3 DEF BootInv, MemoryMap, machine, memVars
  <2>5. QED
    BY <2>2, <2>4 DEF BootInv
<1>6. CASE detect_mem_e820 \/ detect_mem_e801 \/ detect_mem_88
  <2>1. MemoryMap'
    BY <1>6, AsksE820, AsksE801, Asks88
  <2>2. /\ stage \in {"e820", "e801", "88"} /\ stage' \in {"e820", "e801", "88", "load", "halted"}
        /\ UNCHANGED << geom, a20, machine, readVars, trackVars >>
    BY <1>6 DEF detect_mem_e820, detect_mem_e801, detect_mem_88, AfterE820
  <2>3. (DriveKnown /\ SecondStage /\ A20On /\ Kernel_)'
    BY <2>2 DEF BootInv, DriveKnown, SecondStage, A20On, Kernel_, BootStages, GeometryKnown,
                machine, readVars, trackVars
  <2>4. QED
    BY <2>1, <2>3 DEF BootInv
<1>7. CASE load_main
  <2>1. /\ stage = "load" /\ stage' = "main" /\ sect_left' = MainSectors /\ dest_ptr' = 0
        /\ cur_track' = FirstSector \div geom.spt /\ trk_sect' = FirstSector % geom.spt
        /\ UNCHANGED << geom, a20, machine, readVars, memVars, high >>
    BY <1>7 DEF load_main
  <2>2. (DriveKnown /\ SecondStage /\ A20On)'
    BY <2>1 DEF BootInv, DriveKnown, SecondStage, A20On, BootStages, GeometryKnown, machine, readVars, memVars
  <2>3. MemoryMap'
    BY <2>1, BootKeeps DEF memVars
  <2>4. Kernel_'
    <3> DEFINE d == geom.spt
    <3>1. d \in Nat \ {0} /\ FirstSector \in Nat /\ MainSectors \in Nat
      BY <2>1, BootAssumption, SectorCounts DEF BootInv, DriveKnown
    <3>2. cur_track' = FirstSector \div d /\ trk_sect' = FirstSector % d /\ geom'.spt = d
      BY <2>1
    <3> HIDE DEF d
    <3>3. cur_track' \in Nat /\ trk_sect' \in 0 .. d - 1 /\ cur_track' * d + trk_sect' = FirstSector
      BY <3>1, <3>2, Quotients
    <3> DEFINE t == cur_track' * d
    <3>4. t \in Nat
      <4> DEFINE k == cur_track'
      <4>1. k \in Nat /\ d \in Nat
        BY <3>1, <3>3
      <4> HIDE DEF k
      <4>2. k * d \in Nat
        BY <4>1
      <4>3. QED
        BY <4>2 DEF k
    <3> HIDE DEF t
    <3>5. t + trk_sect' = FirstSector
      BY <3>3 DEF t
    <3>6. t + trk_sect' = FirstSector + dest_ptr' /\ sect_left' = MainSectors - dest_ptr' /\ dest_ptr' \in Nat
          /\ \A i \in 0 .. MainSectors + 7 : ~(i < dest_ptr')
      BY <2>1, <3>1, <3>4, <3>5
    <3>7. high' = [i \in 0 .. MainSectors + 7 |-> high'[i]]
      BY <2>1 DEF BootInv, Kernel_
    <3>8. QED
      BY <2>1, <3>2, <3>3, <3>6, <3>7 DEF Kernel_, t
  <2>5. QED
    BY <2>2, <2>3, <2>4 DEF BootInv
<1>8. CASE read_track
  BY <1>8, ReadsOneTrack
<1>9. QED
  BY <1>1, <1>2, <1>3, <1>4, <1>5, <1>6, <1>7, <1>8 DEF BootNext

(* Whichever of the BIOS's calls fail, and after any reads that do, the     *)
(* kernel is read and run with the address line on, and with a memory map   *)
(* that tells of RAM only (and of all of it that the BIOS reported).        *)
(* From a drive with 2^k heads, whose geometry the BIOS tells or which is   *)
(* the one assumed otherwise, the second stage and the kernel are run when  *)
(* every sector of them is at its place.                                    *)
THEOREM BootLoaderLoads ==
  ASSUME \A d \in Drives : d.heads \in Powers
  PROVE  Spec => []BootRight
<1>1. BootInv /\ [Next]_vars => BootInv'
  <2>1. BootInv /\ UNCHANGED bootVars => BootInv'
    <3>1. SUFFICES ASSUME BootInv, UNCHANGED bootVars PROVE BootInv'
      OBVIOUS
    <3>2. MemoryMap'
      BY <3>1, BootKeeps DEF bootVars, memVars
    <3>3. (DriveKnown /\ SecondStage /\ A20On /\ Kernel_)'
      BY <3>1 DEF BootInv, DriveKnown, SecondStage, A20On, Kernel_, GeometryKnown, bootVars, machine, readVars,
                  memVars, trackVars
    <3>4. QED
      BY <3>2, <3>3 DEF BootInv
  <2>2. UNCHANGED vars => UNCHANGED bootVars
    BY DEF vars
  <2>3. QED
    BY <2>1, <2>2, Alone, BootStep DEF StepOf
<1>2. BootInv => BootRight
  BY SectorCounts DEF BootInv, DriveKnown, SecondStage, A20On, MemoryMap, Kernel_, BootRight, SectorsRight, BootStages
<1>3. QED
  BY <1>1, <1>2, BootStarts, PTL DEF Spec

-----------------------------------------------------------------------------
(* The serial ports.  Byte number k that is not read is at Place(r, k) of   *)
(* the ring.  Between Take and Advance an interrupt may have moved r, but   *)
(* only when the ring overran, and then it is full.                         *)
Place(r, k) == (r + k - 1) % RING
RingOK(s) ==
  /\ s = [buf |-> s.buf, r |-> s.r, w |-> s.w, open |-> s.open]
  /\ s.buf \in [0 .. RING - 1 -> Nat]
  /\ s.r \in 0 .. RING - 1 /\ s.w \in 0 .. RING - 1 /\ s.open \in BOOLEAN
UartOK(u) ==
  /\ u = [fifo |-> u.fifo, enabled |-> u.enabled, irq |-> u.irq]
  /\ u.fifo \in Seq(Nat) /\ u.enabled \in BOOLEAN /\ u.irq \in BOOLEAN
RingsOK == port = [p \in Ports |-> port[p]] /\ \A p \in Ports : RingOK(port[p])
UartsOK == uart = [p \in Ports |-> uart[p]] /\ \A p \in Ports : UartOK(uart[p])
CountsOK ==
  /\ got \in [Ports -> Seq(Nat)] /\ sent \in [Ports -> Nat] /\ first \in [Ports -> Nat]
  /\ overran \in [Ports -> BOOLEAN]
CallOK ==
  /\ pc \in {"client", "opening", "advance", "getline"} /\ fd \in Ports
  /\ reg \in 0 .. RING - 1 /\ c \in Nat /\ forline \in BOOLEAN
PortsOK == RingsOK /\ UartsOK /\ CountsOK /\ CallOK
OpenCount == (IF port[0].open THEN 1 ELSE 0) + (IF port[1].open THEN 1 ELSE 0)
OpenPorts ==
  /\ num_open = OpenCount
  /\ \A p \in Ports : port[p].open => uart[p].enabled
  /\ pc \in {"advance", "getline"} => port[fd].open
  /\ pc = "opening" =>
       /\ port[fd] = Closed /\ got[fd] = << >>
       /\ overran[fd] = FALSE /\ uart[fd].enabled = FALSE

(* The bytes given (g), in the ring s and in the UART (fifo) are numbered   *)
(* on from the f that came before the port was opened to the n sent         *)
Holds(s, fifo, g, n, f) ==
  /\ n = f + Len(g) + Unread(s) + Len(fifo)
  /\ \A k \in 1 .. Len(g) : g[k] = f + k
  /\ \A k \in 1 .. Unread(s) : s.buf[Place(s.r, k)] = f + Len(g) + k
  /\ \A k \in 1 .. Len(fifo) : fifo[k] = f + Len(g) + Unread(s) + k
Numbered(p) == Holds(port[p], uart[p].fifo, got[p], sent[p], first[p])
InOrder == \A p \in Ports : port[p].open /\ ~overran[p] => Numbered(p)
Taking ==
  pc = "advance" /\ ~overran[fd] =>
    reg = port[fd].r /\ reg # port[fd].w /\ c = port[fd].buf[reg]
Requested == \A p \in Ports : uart[p].enabled /\ uart[p].fifo # << >> => uart[p].irq
LinesOK ==
  /\ linebuf \in Seq(Nat) /\ gotlines \in Seq(Nat) /\ forlines \in Seq(Nat)
  /\ gotlines \o linebuf = forlines

(* Every byte taken for a line was sent, even when the ring overruns: a     *)
(* stale index makes one that the ring has counted once more, but then the  *)
(* ring was full                                                            *)
Stale == pc = "advance" /\ fd = 0 /\ reg # port[0].r
Counted ==
  /\ Stale => Unread(port[0]) = RING - 1
  /\ Len(forlines) + Unread(port[0]) + Len(uart[0].fifo) + (IF Stale THEN 1 ELSE 0) <= sent[0]
  /\ pc = "advance" /\ fd = 0 /\ ~Stale => port[0].r # port[0].w
  /\ sent[0] + sent[1] <= MaxSent
ForLine == (pc = "advance" /\ forline => fd = 0) /\ (pc = "getline" => fd = 0 /\ forline)
SerialInv ==
  PortsOK /\ OpenPorts /\ InOrder /\ Taking /\ Requested /\ LinesOK /\ Counted /\ ForLine

(* Remainders *)
LEMMA ModRange ==
  ASSUME NEW x \in Int, NEW b \in Nat \ {0}
  PROVE  x % b \in 0 .. b - 1 /\ x \div b \in Int /\ x = (x \div b) * b + (x % b)
OBVIOUS

(* a multiple of b that lies between -b and b is 0 *)
LEMMA SmallMultiple ==
  ASSUME NEW q \in Int, NEW b \in Nat \ {0}, q * b < b, q * b > -b
  PROVE  q = 0
<1>1. CASE q >= 1
  <2>1. (q - 1) * b >= 0
    BY <1>1
  <2>2. (q - 1) * b = q * b - b
    OBVIOUS
  <2>3. q * b \in Int
    OBVIOUS
  <2>. QED BY <2>1, <2>2, <2>3
<1>2. CASE q <= -1
  <2>1. (-1 - q) * b >= 0
    BY <1>2
  <2>2. (-1 - q) * b = -b - q * b
    OBVIOUS
  <2>3. q * b \in Int
    OBVIOUS
  <2>. QED BY <2>1, <2>2, <2>3
<1>. QED BY <1>1, <1>2

LEMMA ModUnique ==
  ASSUME NEW b \in Nat \ {0}, NEW x \in Int, NEW q \in Int, NEW r \in 0 .. b - 1, x = q * b + r
  PROVE  x % b = r
<1> DEFINE d == x \div b
           m == x % b
<1>1. m \in 0 .. b - 1 /\ d \in Int /\ x = d * b + m
  BY ModRange
<1> HIDE DEF d, m
<1>2. (q - d) * b = q * b - d * b
  BY <1>1
<1>3. q * b \in Int /\ d * b \in Int
  BY <1>1
<1>4. (q - d) * b = m - r
  BY <1>1, <1>2, <1>3
<1>5. m - r < b /\ m - r > -b
  BY <1>1
<1>6. q - d = 0
  BY <1>1, <1>4, <1>5, SmallMultiple
<1>7. m = r
  BY <1>1, <1>3, <1>6
<1>. QED BY <1>7 DEF m

LEMMA Wrap ==
  ASSUME NEW x \in Int, x >= -RING, x < 2 * RING
  PROVE  x % RING = IF x < 0 THEN x + RING ELSE IF x < RING THEN x ELSE x - RING
<1>0. RING \in Nat \ {0}
  BY SerialAssumption
<1>1. CASE x < 0
  <2>1. x + RING \in 0 .. RING - 1 /\ x = (-1) * RING + (x + RING) /\ -1 \in Int
    BY <1>0, <1>1
  <2>2. x % RING = x + RING
    BY <1>0, <2>1, ModUnique
  <2>3. QED
    BY <1>1, <2>2
<1>2. CASE x >= 0 /\ x < RING
  <2>1. x \in 0 .. RING - 1 /\ x = 0 * RING + x /\ 0 \in Int
    BY <1>0, <1>2
  <2>2. x % RING = x
    BY <1>0, <2>1, ModUnique
  <2>3. QED
    BY <1>2, <2>2
<1>3. CASE x >= RING
  <2>1. x - RING \in 0 .. RING - 1 /\ x = 1 * RING + (x - RING) /\ 1 \in Int
    BY <1>0, <1>3
  <2>2. x % RING = x - RING
    BY <1>0, <2>1, ModUnique
  <2>3. QED
    BY <1>0, <1>3, <2>2
<1>4. QED
  BY <1>0, <1>1, <1>2, <1>3

LEMMA PlaceIs ==
  ASSUME NEW r \in 0 .. RING - 1, NEW k \in 1 .. RING
  PROVE  Place(r, k) = IF r + k - 1 < RING THEN r + k - 1 ELSE r + k - 1 - RING
<1> DEFINE x == r + k - 1
<1>0. RING \in Nat \ {0} /\ x \in Int /\ x >= 0 /\ x < 2 * RING
  BY SerialAssumption
<1>1. Place(r, k) = x % RING
  BY DEF Place
<1> HIDE DEF x
<1>2. x % RING = IF x < RING THEN x ELSE x - RING
  BY <1>0, Wrap
<1>3. QED
  BY <1>0, <1>1, <1>2 DEF x

LEMMA NextIs ==
  ASSUME NEW x \in 0 .. RING - 1
  PROVE  BNEXT(x) = IF x + 1 < RING THEN x + 1 ELSE 0
<1> DEFINE y == x + 1
<1>0. RING \in Nat \ {0} /\ y \in Int /\ y >= 0 /\ y <= RING /\ y < 2 * RING
  BY SerialAssumption
<1>1. BNEXT(x) = y % RING
  BY DEF BNEXT
<1> HIDE DEF y
<1>2. y % RING = IF y < RING THEN y ELSE y - RING
  BY <1>0, Wrap
<1>3. QED
  BY <1>0, <1>1, <1>2 DEF y

(* How far w is from r, which is what the remainder says *)
Dist(r, w) == IF w < r THEN w - r + RING ELSE w - r
LEMMA UnreadIs ==
  ASSUME NEW s, s.r \in 0 .. RING - 1, s.w \in 0 .. RING - 1
  PROVE  /\ Unread(s) = Dist(s.r, s.w)
         /\ Unread(s) \in 0 .. RING - 1
<1> DEFINE x == s.w - s.r
<1>0. RING \in Nat \ {0} /\ x \in Int /\ x >= -RING /\ x < RING /\ x < 2 * RING
  BY SerialAssumption
<1>1. Unread(s) = x % RING
  BY DEF Unread
<1> HIDE DEF x
<1>2. x % RING = IF x < 0 THEN x + RING ELSE x
  BY <1>0, Wrap
<1>3. QED
  BY <1>0, <1>1, <1>2 DEF x, Dist

(* What became of a ring s when the first m of the bytes were stored *)
StoredTo(s, t, bytes, m) ==
  /\ RingOK(t) /\ t.open = s.open
  /\ Unread(s) <= Unread(t) /\ Unread(t) <= Unread(s) + m
  /\ t.r # s.r => Unread(t) = RING - 1 /\ Unread(s) + m >= RING
  /\ Unread(s) + m < RING =>
       /\ Unread(t) = Unread(s) + m
       /\ \A k \in 1 .. Unread(s) : t.buf[Place(s.r, k)] = s.buf[Place(s.r, k)]
       /\ \A k \in 1 .. m : t.buf[Place(s.r, Unread(s) + k)] = bytes[k]

(* One byte goes to the place behind those that are not read; in a full     *)
(* ring the first of them gives way.                                        *)
LEMMA StoredFields ==
  ASSUME NEW s, RingOK(s), NEW b \in Nat
  PROVE  /\ Stored(s, b).open = s.open
         /\ Stored(s, b).w = BNEXT(s.w)
         /\ Stored(s, b).r = IF BNEXT(s.w) = s.r THEN BNEXT(s.r) ELSE s.r
         /\ Stored(s, b).buf = [s.buf EXCEPT ![s.w] = b]
         /\ RingOK(Stored(s, b))
<1> DEFINE t == Stored(s, b)
           u == [s EXCEPT !.buf = [s.buf EXCEPT ![s.w] = b]]
           v == [u EXCEPT !.w = BNEXT(s.w)]
           n == IF BNEXT(s.w) = s.r THEN BNEXT(s.r) ELSE s.r
           x == [v EXCEPT !.r = n]
<1>1. s = [buf |-> s.buf, r |-> s.r, w |-> s.w, open |-> s.open]
  BY DEF RingOK
<1>2. t = x
  BY <1>1 DEF Stored
<1>3. x = [buf |-> [s.buf EXCEPT ![s.w] = b], r |-> n, w |-> BNEXT(s.w), open |-> s.open]
  <2> HIDE DEF n
  <2>1. u = [buf |-> [s.buf EXCEPT ![s.w] = b], r |-> s.r, w |-> s.w, open |-> s.open]
    BY <1>1
  <2> HIDE DEF u
  <2>2. v = [buf |-> [s.buf EXCEPT ![s.w] = b], r |-> s.r, w |-> BNEXT(s.w), open |-> s.open]
    BY <2>1
  <2> HIDE DEF v
  <2>3. QED
    BY <2>2
<1> HIDE DEF x, t
<1>4. t = [buf |-> t.buf, r |-> t.r, w |-> t.w, open |-> t.open]
  BY <1>2, <1>3
<1>5. /\ t.open = s.open /\ t.w = BNEXT(s.w)
      /\ t.r = IF BNEXT(s.w) = s.r THEN BNEXT(s.r) ELSE s.r
      /\ t.buf = [s.buf EXCEPT ![s.w] = b]
  BY <1>2, <1>3
<1>6. BNEXT(s.w) \in 0 .. RING - 1 /\ BNEXT(s.r) \in 0 .. RING - 1
  <2> DEFINE i == s.w
             j == s.r
  <2>1. i \in 0 .. RING - 1 /\ j \in 0 .. RING - 1
    BY DEF RingOK
  <2> HIDE DEF i, j
  <2>2. BNEXT(i) \in 0 .. RING - 1 /\ BNEXT(j) \in 0 .. RING - 1
    BY <2>1, NextIs, SerialAssumption
  <2>3. QED
    BY <2>2 DEF i, j
<1>7. t.buf \in [0 .. RING - 1 -> Nat]
  BY <1>5 DEF RingOK
<1>8. RingOK(t)
  BY <1>4, <1>5, <1>6, <1>7 DEF RingOK
<1>9. QED
  BY <1>5, <1>8 DEF t

RingFacts(r, w, U) ==
  /\ U \in 0 .. RING - 1
  /\ BNEXT(w) = r <=> U + 1 = RING
  /\ U + 1 < RING => Dist(r, BNEXT(w)) = U + 1 /\ Place(r, U + 1) = w
  /\ U + 1 = RING => Dist(BNEXT(r), BNEXT(w)) = RING - 1
  /\ U > 0 => Dist(BNEXT(r), w) = U - 1
LEMMA RingArith ==
  ASSUME NEW r \in 0 .. RING - 1, NEW w \in 0 .. RING - 1
  PROVE  RingFacts(r, w, Dist(r, w))
<1> DEFINE U == Dist(r, w)
<1>0. RING \in Nat /\ RING > 1
  BY SerialAssumption
<1>1. U \in 0 .. RING - 1
  BY <1>0 DEF Dist
<1>2. BNEXT(w) = (IF w + 1 < RING THEN w + 1 ELSE 0)
  BY NextIs
<1>3. BNEXT(r) = (IF r + 1 < RING THEN r + 1 ELSE 0)
  BY NextIs
<1>4. BNEXT(w) = r <=> U + 1 = RING
  BY <1>0, <1>2 DEF Dist
<1>5. ASSUME U + 1 < RING
      PROVE  Dist(r, BNEXT(w)) = U + 1 /\ Place(r, U + 1) = w
  <2> DEFINE j == U + 1
  <2>1. j \in 1 .. RING /\ j = U + 1
    BY <1>0, <1>1, <1>5
  <2> HIDE DEF j
  <2>2. Place(r, j) = IF r + j - 1 < RING THEN r + j - 1 ELSE r + j - 1 - RING
    BY <2>1, PlaceIs
  <2>3. Place(r, j) = w
    BY <1>0, <1>1, <1>5, <2>1, <2>2 DEF Dist
  <2>4. Dist(r, BNEXT(w)) = U + 1
    BY <1>0, <1>2, <1>5 DEF Dist
  <2>5. QED
    BY <2>1, <2>3, <2>4
<1>7. U + 1 = RING => Dist(BNEXT(r), BNEXT(w)) = RING - 1
  BY <1>0, <1>2, <1>3 DEF Dist
<1>8. U > 0 => Dist(BNEXT(r), w) = U - 1
  BY <1>0, <1>3 DEF Dist
<1>9. QED
  BY <1>1, <1>4, <1>5, <1>7, <1>8 DEF RingFacts

LEMMA PlacesUnread ==
  ASSUME NEW r \in 0 .. RING - 1, NEW w \in 0 .. RING - 1, NEW k \in 1 .. Dist(r, w)
  PROVE  Place(r, k) # w /\ Place(r, k) \in 0 .. RING - 1
<1>0. RING \in Nat /\ RING > 1
  BY SerialAssumption
<1>1. k \in 1 .. RING
  BY <1>0 DEF Dist
<1>2. Place(r, k) = IF r + k - 1 < RING THEN r + k - 1 ELSE r + k - 1 - RING
  BY <1>1, PlaceIs
<1>3. QED
  BY <1>0, <1>1, <1>2 DEF Dist

LEMMA StoredFacts ==
  ASSUME NEW s, RingOK(s), NEW b \in Nat, NEW U, U = Unread(s), NEW t, t = Stored(s, b)
  PROVE  /\ U \in 0 .. RING - 1
         /\ U + 1 < RING =>
              /\ t.r = s.r /\ Unread(t) = U + 1
              /\ t.buf[Place(s.r, U + 1)] = b
              /\ \A k \in 1 .. U : t.buf[Place(s.r, k)] = s.buf[Place(s.r, k)]
         /\ U + 1 = RING => Unread(t) = RING - 1
<1>1. /\ t.w = BNEXT(s.w)
      /\ t.r = IF BNEXT(s.w) = s.r THEN BNEXT(s.r) ELSE s.r
      /\ t.buf = [s.buf EXCEPT ![s.w] = b]
      /\ RingOK(t)
  BY StoredFields
<1>2. /\ s.r \in 0 .. RING - 1 /\ s.w \in 0 .. RING - 1 /\ s.buf \in [0 .. RING - 1 -> Nat]
      /\ t.r \in 0 .. RING - 1 /\ t.w \in 0 .. RING - 1
  BY <1>1 DEF RingOK
<1>3. U = Dist(s.r, s.w)
  BY <1>2, UnreadIs
<1>4. Unread(t) = Dist(t.r, t.w)
  BY <1>2, UnreadIs
<1>r. RING \in Nat
  BY SerialAssumption
<1> DEFINE r == s.r
           w == s.w
<1>5. r \in 0 .. RING - 1 /\ w \in 0 .. RING - 1 /\ U = Dist(r, w)
  BY <1>2, <1>3
<1>6. t.w = BNEXT(w) /\ t.r = (IF BNEXT(w) = r THEN BNEXT(r) ELSE r) /\ t.buf = [s.buf EXCEPT ![w] = b]
  BY <1>1
<1>b. s.buf \in [0 .. RING - 1 -> Nat]
  BY <1>2
<1>c. s.r = r
  OBVIOUS
<1> HIDE DEF r, w
<1>7. /\ U \in 0 .. RING - 1
      /\ BNEXT(w) = r <=> U + 1 = RING
      /\ U + 1 < RING => Dist(r, BNEXT(w)) = U + 1 /\ Place(r, U + 1) = w
      /\ U + 1 = RING => Dist(BNEXT(r), BNEXT(w)) = RING - 1
  <2>1. RingFacts(r, w, Dist(r, w))
    BY <1>5, RingArith
  <2>2. RingFacts(r, w, U)
    BY <1>5, <2>1
  <2>3. QED
    BY <2>2 DEF RingFacts
<1>8. CASE U + 1 < RING
  <2>1. t.r = r
    BY <1>6, <1>7, <1>8, <1>r
  <2>2. Unread(t) = U + 1
    BY <1>4, <1>6, <1>7, <1>8, <2>1
  <2>3. t.buf[Place(r, U + 1)] = b
    BY <1>5, <1>6, <1>7, <1>8, <1>b
  <2>4. ASSUME NEW k \in 1 .. U
        PROVE  t.buf[Place(r, k)] = s.buf[Place(r, k)]
    <3>1. Place(r, k) # w /\ Place(r, k) \in 0 .. RING - 1
      BY <1>5, PlacesUnread
    <3>2. QED
      BY <1>6, <1>b, <3>1
  <2>5. QED
    BY <1>7, <1>8, <1>c, <1>r, <2>1, <2>2, <2>3, <2>4
<1>9. CASE U + 1 = RING
  <2>1. Unread(t) = RING - 1
    BY <1>4, <1>6, <1>7, <1>9
  <2>2. QED
    BY <1>7, <1>9, <1>r, <2>1
<1>10. QED
  BY <1>7, <1>8, <1>9, <1>r
(* All the bytes, one after the other *)
StoreSteps(g, s, bytes) ==
  \A k \in 0 .. Len(bytes) : g[k] = IF k = 0 THEN s ELSE Stored(g[k - 1], bytes[k])
LEMMA StoreAllRun ==
  ASSUME NEW bytes \in Seq(Nat), NEW s
  PROVE  \E g : StoreSteps(g, s, bytes) /\ StoreAll(s, bytes) = g[Len(bytes)]
<1> DEFINE Turn(g, k) == IF k = 0 THEN s ELSE Stored(g[k - 1], bytes[k])
           Goes(g, m) == g = [k \in 0 .. m |-> Turn(g, k)]
           F == CHOOSE g : Goes(g, Len(bytes))
<1>0. Len(bytes) \in Nat
  OBVIOUS
<1>1. StoreAll(s, bytes) = F[Len(bytes)]
  BY DEF StoreAll
<1>2. ASSUME NEW m \in Nat, \E g : m # 0 => Goes(g, m - 1)
      PROVE  \E g : Goes(g, m)
  <2>1. PICK g : m # 0 => Goes(g, m - 1)
    BY <1>2
  <2> DEFINE h == [k \in 0 .. m |-> IF k = m THEN Turn(g, m) ELSE g[k]]
  <2>2. ASSUME NEW k \in 0 .. m
        PROVE  h[k] = Turn(h, k)
    <3>1. k # 0 => k - 1 \in 0 .. m /\ k - 1 # m
      OBVIOUS
    <3>2. k # 0 => h[k - 1] = g[k - 1]
      BY <3>1
    <3>3. Turn(h, k) = Turn(g, k)
      <4> HIDE DEF h
      <4>. QED BY <3>2
    <3>4. CASE k = m
      <4> HIDE DEF Turn
      <4>1. h[k] = Turn(g, m)
        BY <3>4
      <4> HIDE DEF h
      <4>. QED BY <3>3, <3>4, <4>1
    <3>5. CASE k # m
      <4>1. k \in 0 .. m - 1 /\ m # 0
        BY <3>5
      <4> HIDE DEF Turn
      <4>2. g[k] = Turn(g, k)
        BY <2>1, <4>1
      <4>3. h[k] = g[k]
        BY <3>5
      <4> HIDE DEF h
      <4>. QED BY <3>3, <4>2, <4>3
    <3>. QED BY <3>4, <3>5
  <2>3. h = [k \in 0 .. m |-> h[k]]
    OBVIOUS
  <2> HIDE DEF h, Turn
  <2>4. Goes(h, m)
    BY <2>2, <2>3
  <2> HIDE DEF Goes
  <2>. QED BY <2>4
<1> HIDE DEF Goes
<1>3. \E g : Goes(g, Len(bytes))
  <2> DEFINE T == { m \in Nat : ~\E g : Goes(g, m) }
  <2>1. SUFFICES ASSUME T # {} PROVE FALSE
    BY <1>0
  <2>2. T \in SUBSET Nat
    OBVIOUS
  <2>3. PICK m \in T : \A j \in T : m <= j
    BY <2>1, <2>2, Least
  <2>4. m # 0 => m - 1 \in Nat /\ ~(m <= m - 1)
    OBVIOUS
  <2>5. m # 0 => m - 1 \notin T
    BY <2>3, <2>4
  <2>6. m # 0 => \E g : Goes(g, m - 1)
    BY <2>4, <2>5
  <2>. QED BY <1>2, <2>6
<1>4. Goes(F, Len(bytes))
  BY <1>3
<1>5. \A k \in 0 .. Len(bytes) : F[k] = Turn(F, k)
  <2> HIDE DEF F, Turn
  <2>. QED BY <1>4 DEF Goes
<1> HIDE DEF F
<1>. QED BY <1>1, <1>5 DEF StoreSteps

LEMMA StoreMore ==
  ASSUME NEW s, RingOK(s), NEW bytes \in Seq(Nat), NEW m \in 1 .. Len(bytes),
         NEW t, StoredTo(s, t, bytes, m - 1), NEW u, u = Stored(t, bytes[m])
  PROVE  StoredTo(s, u, bytes, m)
<1>0. RING \in Nat /\ RING > 1 /\ m \in Nat /\ m - 1 \in Nat
  BY SerialAssumption
<1> DEFINE b == bytes[m]
           U == Unread(s)
           V == Unread(t)
<1>1. b \in Nat
  OBVIOUS
<1>2. RingOK(t) /\ t.open = s.open
  BY DEF StoredTo
<1>3. /\ U \in 0 .. RING - 1 /\ V \in 0 .. RING - 1
  BY <1>2, UnreadIs DEF RingOK
<1>a. u = Stored(t, b)
  OBVIOUS
<1> HIDE DEF b
<1>4. RingOK(u) /\ u.open = s.open
  <2>1. RingOK(Stored(t, b)) /\ Stored(t, b).open = t.open
    BY <1>1, <1>2, StoredFields
  <2>2. QED
    BY <1>2, <1>a, <2>1
<1>v. V = Unread(t)
  OBVIOUS
<1> HIDE DEF V
<1>5. V + 1 < RING =>
        /\ u.r = t.r /\ Unread(u) = V + 1
        /\ u.buf[Place(t.r, V + 1)] = b
        /\ \A k \in 1 .. V : u.buf[Place(t.r, k)] = t.buf[Place(t.r, k)]
  BY <1>1, <1>2, <1>a, <1>v, StoredFacts
<1>6. V + 1 = RING => Unread(u) = RING - 1
  BY <1>1, <1>2, <1>a, <1>v, StoredFacts
<1>7. U <= V /\ V <= U + (m - 1)
  BY <1>v DEF StoredTo
<1>8. t.r # s.r => V = RING - 1 /\ U + (m - 1) >= RING
  BY <1>v DEF StoredTo
<1>9. U + (m - 1) < RING =>
        /\ V = U + (m - 1)
        /\ \A k \in 1 .. U : t.buf[Place(s.r, k)] = s.buf[Place(s.r, k)]
        /\ \A k \in 1 .. m - 1 : t.buf[Place(s.r, U + k)] = bytes[k]
  BY <1>v DEF StoredTo
<1>10. U <= Unread(u) /\ Unread(u) <= U + m
  BY <1>0, <1>3, <1>5, <1>6, <1>7
<1>11. u.r # s.r => Unread(u) = RING - 1 /\ U + m >= RING
  <2>1. CASE V + 1 < RING
    BY <1>0, <1>3, <1>5, <1>8, <2>1
  <2>2. CASE V + 1 = RING
    BY <1>0, <1>3, <1>6, <1>7, <2>2
  <2>3. QED
    BY <1>0, <1>3, <2>1, <2>2
<1>12. ASSUME U + m < RING
       PROVE  /\ Unread(u) = U + m
              /\ \A k \in 1 .. U : u.buf[Place(s.r, k)] = s.buf[Place(s.r, k)]
              /\ \A k \in 1 .. m : u.buf[Place(s.r, U + k)] = bytes[k]
  <2>1. U + (m - 1) < RING /\ V = U + (m - 1) /\ V + 1 < RING /\ V + 1 = U + m
    BY <1>0, <1>3, <1>9, <1>12
  <2>2. t.r = s.r
    BY <1>0, <1>3, <1>8, <1>12
  <2>3. Unread(u) = U + m
    BY <1>5, <2>1
  <2>4. ASSUME NEW k \in 1 .. U
        PROVE  u.buf[Place(s.r, k)] = s.buf[Place(s.r, k)]
    <3>1. k \in 1 .. V
      BY <1>0, <1>3, <2>1
    <3>2. t.buf[Place(s.r, k)] = s.buf[Place(s.r, k)]
      BY <1>9, <2>1
    <3>3. u.buf[Place(t.r, k)] = t.buf[Place(t.r, k)]
      BY <1>5, <2>1, <3>1
    <3>4. QED
      BY <2>2, <3>2, <3>3
  <2>5. ASSUME NEW k \in 1 .. m
        PROVE  u.buf[Place(s.r, U + k)] = bytes[k]
    <3>1. CASE k = m
      <4>1. u.buf[Place(s.r, U + m)] = b
        BY <1>5, <2>1, <2>2
      <4>2. QED
        BY <3>1, <4>1 DEF b
    <3>2. CASE k # m
      <4>1. k \in 1 .. m - 1
        BY <1>0, <3>2
      <4>2. U + k \in 1 .. V
        <5>1. U \in Nat /\ m \in Nat /\ V = U + (m - 1)
          BY <1>0, <1>3, <2>1
        <5> HIDE DEF U, V
        <5>2. QED
          BY <4>1, <5>1
      <4>3. t.buf[Place(s.r, U + k)] = bytes[k]
        BY <1>9, <2>1, <4>1
      <4> DEFINE j == U + k
      <4>4. j \in 1 .. V /\ t.buf[Place(s.r, j)] = bytes[k]
        BY <4>2, <4>3
      <4> HIDE DEF j
      <4>5. u.buf[Place(t.r, j)] = t.buf[Place(t.r, j)]
        BY <1>5, <2>1, <4>4
      <4>6. u.buf[Place(s.r, j)] = bytes[k]
        BY <2>2, <4>4, <4>5
      <4>7. QED
        BY <4>6 DEF j
    <3>3. QED
      BY <3>1, <3>2
  <2>6. QED
    BY <2>3, <2>4, <2>5
<1>13. QED
  BY <1>4, <1>10, <1>11, <1>12 DEF StoredTo

LEMMA StoreAllFacts ==
  ASSUME NEW s, RingOK(s), NEW bytes \in Seq(Nat)
  PROVE  StoredTo(s, StoreAll(s, bytes), bytes, Len(bytes))
<1>0. Len(bytes) \in Nat /\ RING \in Nat /\ RING > 1
  BY SerialAssumption
<1>1. PICK g : StoreSteps(g, s, bytes) /\ StoreAll(s, bytes) = g[Len(bytes)]
  BY StoreAllRun
<1> DEFINE T == { m \in 0 .. Len(bytes) : ~StoredTo(s, g[m], bytes, m) }
<1>2. SUFFICES ASSUME T # {} PROVE FALSE
  BY <1>0, <1>1
<1>3. T \in SUBSET Nat
  BY <1>0
<1>4. PICK m \in T : \A j \in T : m <= j
  BY <1>2, <1>3, Least
<1>5. m \in 0 .. Len(bytes) /\ ~StoredTo(s, g[m], bytes, m)
  OBVIOUS
<1>6. g[m] = IF m = 0 THEN s ELSE Stored(g[m - 1], bytes[m])
  BY <1>1, <1>5 DEF StoreSteps
<1>7. CASE m = 0
  <2>1. Unread(s) \in 0 .. RING - 1
    BY UnreadIs DEF RingOK
  <2>2. StoredTo(s, s, bytes, 0)
    BY <1>0, <2>1 DEF StoredTo
  <2>3. QED
    BY <1>5, <1>6, <1>7, <2>2
<1>8. CASE m # 0
  <2>1. m \in 1 .. Len(bytes) /\ m - 1 \in 0 .. Len(bytes) /\ ~(m <= m - 1)
    BY <1>0, <1>5, <1>8
  <2>2. m - 1 \notin T
    BY <1>4, <2>1
  <2> DEFINE t == g[m - 1]
  <2>3. StoredTo(s, t, bytes, m - 1) /\ g[m] = Stored(t, bytes[m])
    BY <1>6, <1>8, <2>1, <2>2
  <2> HIDE DEF t
  <2> DEFINE u == g[m]
  <2>a. u = Stored(t, bytes[m])
    BY <2>3
  <2> HIDE DEF u
  <2>4. StoredTo(s, u, bytes, m)
    BY <2>1, <2>3, <2>a, StoreMore
  <2>5. QED
    BY <1>5, <2>4 DEF u
<1>9. QED
  BY <1>7, <1>8
(* A ring with another first place, or opened or closed *)
LEMMA WithR ==
  ASSUME NEW s, RingOK(s), NEW x \in 0 .. RING - 1, NEW t, t = [s EXCEPT !.r = x]
  PROVE  RingOK(t) /\ t.buf = s.buf /\ t.r = x /\ t.w = s.w /\ t.open = s.open
<1>1. s = [buf |-> s.buf, r |-> s.r, w |-> s.w, open |-> s.open]
  BY DEF RingOK
<1>2. t = [buf |-> s.buf, r |-> x, w |-> s.w, open |-> s.open]
  BY <1>1
<1>3. t.buf = s.buf /\ t.r = x /\ t.w = s.w /\ t.open = s.open
  BY <1>2
<1>4. t = [buf |-> t.buf, r |-> t.r, w |-> t.w, open |-> t.open]
  BY <1>2, <1>3
<1>5. QED
  BY <1>3, <1>4 DEF RingOK

LEMMA WithOpen ==
  ASSUME NEW s, RingOK(s), NEW x \in BOOLEAN, NEW t, t = [s EXCEPT !.open = x]
  PROVE  RingOK(t) /\ t.buf = s.buf /\ t.r = s.r /\ t.w = s.w /\ t.open = x
<1>1. s = [buf |-> s.buf, r |-> s.r, w |-> s.w, open |-> s.open]
  BY DEF RingOK
<1>2. t = [buf |-> s.buf, r |-> s.r, w |-> s.w, open |-> x]
  BY <1>1
<1>3. t.buf = s.buf /\ t.r = s.r /\ t.w = s.w /\ t.open = x
  BY <1>2
<1>4. t = [buf |-> t.buf, r |-> t.r, w |-> t.w, open |-> t.open]
  BY <1>2, <1>3
<1>5. QED
  BY <1>3, <1>4 DEF RingOK

LEMMA WithUart ==
  ASSUME NEW u, UartOK(u), NEW x
  PROVE  /\ [u EXCEPT !.fifo = x] = [fifo |-> x, enabled |-> u.enabled, irq |-> u.irq]
         /\ [u EXCEPT !.enabled = x] = [fifo |-> u.fifo, enabled |-> x, irq |-> u.irq]
         /\ [u EXCEPT !.irq = x] = [fifo |-> u.fifo, enabled |-> u.enabled, irq |-> x]
<1>1. u = [fifo |-> u.fifo, enabled |-> u.enabled, irq |-> u.irq]
  BY DEF UartOK
<1> QED
  BY <1>1

LEMMA ClosedIsEmpty ==
  /\ RingOK(Closed) /\ Unread(Closed) = 0
  /\ Closed.open = FALSE /\ Closed.r = 0 /\ Closed.w = 0
<1>1. RING \in Nat /\ RING > 1 /\ 0 \in 0 .. RING - 1
  BY SerialAssumption
<1>2. Closed.open = FALSE /\ Closed.r = 0 /\ Closed.w = 0
  BY DEF Closed
<1>3. RingOK(Closed)
  BY <1>1 DEF Closed, RingOK
<1>4. Unread(Closed) = Dist(0, 0)
  BY <1>1, <1>2, UnreadIs
<1>5. QED
  BY <1>2, <1>3, <1>4 DEF Dist

(* What keeps the bytes in order: a port is opened, *)
LEMMA HoldsAtOpen ==
  ASSUME NEW s, s.buf = Closed.buf, s.r = 0, s.w = 0, NEW n \in Nat
  PROVE  Holds(s, << >>, << >>, n, n)
<1>1. 0 \in 0 .. RING - 1
  BY SerialAssumption
<1>2. Unread(s) = Dist(0, 0)
  BY <1>1, UnreadIs
<1>3. Unread(s) = 0
  BY <1>2 DEF Dist
<1>4. QED
  BY <1>3 DEF Holds

(* a byte comes, *)
LEMMA HoldsReceived ==
  ASSUME NEW s, RingOK(s), NEW F \in Seq(Nat), NEW g \in Seq(Nat), NEW n \in Nat, NEW f \in Nat,
         Holds(s, F, g, n, f)
  PROVE  Holds(s, Append(F, n + 1), g, n + 1, f)
<1> DEFINE U == Unread(s)
           E == Append(F, n + 1)
           G == Len(g)
<1>1. U \in 0 .. RING - 1 /\ RING \in Nat
  BY UnreadIs, SerialAssumption DEF RingOK
<1>2. Len(E) = Len(F) + 1 /\ Len(F) \in Nat /\ G \in Nat
  OBVIOUS
<1>3. n = f + G + U + Len(F)
  BY DEF Holds
<1>4. \A k \in 1 .. Len(F) : F[k] = f + G + U + k
  BY DEF Holds
<1>5. ASSUME NEW k \in 1 .. Len(E)
      PROVE  E[k] = f + G + U + k
  <2>1. CASE k = Len(F) + 1
    <3>1. E[k] = n + 1
      BY <2>1
    <3> HIDE DEF E, U, G
    <3>2. QED
      BY <1>1, <1>2, <1>3, <2>1, <3>1
  <2>2. CASE k # Len(F) + 1
    <3>1. k \in 1 .. Len(F)
      BY <1>2, <2>2
    <3>2. E[k] = F[k]
      BY <3>1
    <3> HIDE DEF E, U, G
    <3>3. QED
      BY <1>4, <3>1, <3>2
  <2>3. QED
    BY <2>1, <2>2
<1>6. n + 1 = f + G + U + Len(E)
  <2> HIDE DEF E, U, G
  <2> QED BY <1>1, <1>2, <1>3
<1>7. /\ \A k \in 1 .. G : g[k] = f + k
      /\ \A k \in 1 .. U : s.buf[Place(s.r, k)] = f + G + k
  BY DEF Holds
<1>8. QED
  BY <1>5, <1>6, <1>7 DEF Holds

(* the UART is emptied into the ring, *)
LEMMA HoldsStored ==
  ASSUME NEW s, RingOK(s), NEW F \in Seq(Nat), NEW g \in Seq(Nat), NEW n \in Nat, NEW f \in Nat,
         Holds(s, F, g, n, f), Unread(s) + Len(F) < RING
  PROVE  Holds(StoreAll(s, F), << >>, g, n, f)
<1> DEFINE U == Unread(s)
           t == StoreAll(s, F)
           G == Len(g)
           L == Len(F)
<1>1. U \in 0 .. RING - 1 /\ RING \in Nat /\ L \in Nat /\ G \in Nat
  <2>1. U \in 0 .. RING - 1 /\ RING \in Nat
    BY UnreadIs, SerialAssumption DEF RingOK
  <2>2. QED
    BY <2>1
<1>2. StoredTo(s, t, F, L)
  BY StoreAllFacts
<1> HIDE DEF t
<1>3. RingOK(t) /\ Unread(t) \in 0 .. RING - 1
  BY <1>2, UnreadIs DEF StoredTo, RingOK
<1>4. t.r = s.r
  BY <1>1, <1>2 DEF StoredTo
<1>5. /\ Unread(t) = U + L
      /\ \A k \in 1 .. U : t.buf[Place(s.r, k)] = s.buf[Place(s.r, k)]
      /\ \A k \in 1 .. L : t.buf[Place(s.r, U + k)] = F[k]
  BY <1>2 DEF StoredTo
<1>6. /\ n = f + G + U + L
      /\ \A k \in 1 .. G : g[k] = f + k
      /\ \A k \in 1 .. U : s.buf[Place(s.r, k)] = f + G + k
      /\ \A k \in 1 .. L : F[k] = f + G + U + k
  BY DEF Holds
<1> HIDE DEF U, G, L
<1>7. ASSUME NEW k \in 1 .. U + L
      PROVE  t.buf[Place(t.r, k)] = f + G + k
  <2>1. CASE k <= U
    <3>1. k \in 1 .. U
      BY <1>1, <2>1
    <3>2. QED
      BY <1>4, <1>5, <1>6, <3>1
  <2>2. CASE k > U
    <3> DEFINE j == k - U
    <3>1. j \in 1 .. L /\ U + j = k /\ f + G + U + j = f + G + k
      BY <1>1, <2>2
    <3> HIDE DEF j
    <3>2. t.buf[Place(s.r, U + j)] = F[j] /\ F[j] = f + G + U + j
      BY <1>5, <1>6, <3>1
    <3>3. QED
      BY <1>4, <3>1, <3>2
  <2>3. QED
    BY <1>1, <2>1, <2>2
<1>8. n = f + G + Unread(t) + 0
  BY <1>1, <1>5, <1>6
<1>9. Len(<< >>) = 0
  OBVIOUS
<1>10. Holds(t, << >>, g, n, f)
  BY <1>5, <1>6, <1>7, <1>8, <1>9 DEF Holds, G
<1>11. QED
  BY <1>10 DEF t

(* and a byte is taken. *)
LEMMA HoldsTaken ==
  ASSUME NEW s, RingOK(s), NEW F \in Seq(Nat), NEW g \in Seq(Nat), NEW n \in Nat, NEW f \in Nat,
         Holds(s, F, g, n, f), s.r # s.w,
         NEW t, t.buf = s.buf, t.r = BNEXT(s.r), t.w = s.w, NEW b, b = s.buf[s.r]
  PROVE  Holds(t, F, Append(g, b), n, f)
<1> DEFINE r == s.r
           w == s.w
           U == Unread(s)
           G == Len(g)
           h == Append(g, b)
<1>1. RING \in Nat /\ RING > 1 /\ G \in Nat /\ Len(F) \in Nat
  BY SerialAssumption
<1>2. r \in 0 .. RING - 1 /\ w \in 0 .. RING - 1 /\ U \in 0 .. RING - 1 /\ U = Dist(r, w)
  BY UnreadIs DEF RingOK
<1>3. t.r = BNEXT(r) /\ t.w = w /\ r # w /\ b = s.buf[r]
  OBVIOUS
<1>4. /\ n = f + G + U + Len(F)
      /\ \A k \in 1 .. G : g[k] = f + k
      /\ \A k \in 1 .. U : s.buf[Place(r, k)] = f + G + k
      /\ \A k \in 1 .. Len(F) : F[k] = f + G + U + k
  BY DEF Holds
<1>a. b \in Nat
  BY DEF RingOK
<1>5. h \in Seq(Nat) /\ Len(h) = G + 1
  BY <1>a
<1>h. \A k \in 1 .. G + 1 : h[k] = IF k = G + 1 THEN b ELSE g[k]
  BY <1>1
<1> HIDE DEF r, w, U, G
<1>6. U > 0
  BY <1>1, <1>2, <1>3 DEF Dist
<1>7. BNEXT(r) \in 0 .. RING - 1
  <2>1. BNEXT(r) = IF r + 1 < RING THEN r + 1 ELSE 0
    BY <1>2, NextIs
  <2>2. QED
    BY <1>1, <1>2, <2>1
<1>8. RingFacts(r, w, U)
  BY <1>2, RingArith
<1>9. Unread(t) = U - 1
  <2>1. Unread(t) = Dist(BNEXT(r), w)
    BY <1>2, <1>3, <1>7, UnreadIs
  <2>2. QED
    BY <1>6, <1>8, <2>1 DEF RingFacts
<1>10. Place(r, 1) = r
  <2>1. Place(r, 1) = IF r + 1 - 1 < RING THEN r + 1 - 1 ELSE r + 1 - 1 - RING
    BY <1>1, <1>2, PlaceIs
  <2>2. QED
    BY <1>1, <1>2, <2>1
<1>11. b = f + G + 1
  <2>1. 1 \in 1 .. U
    BY <1>1, <1>2, <1>6
  <2>2. s.buf[Place(r, 1)] = f + G + 1
    BY <1>4, <2>1
  <2>3. QED
    BY <1>3, <1>10, <2>2
<1>12. ASSUME NEW k \in 1 .. Len(h)
       PROVE  h[k] = f + k
  <2>1. k \in 1 .. G + 1
    BY <1>5
  <2>2. CASE k = G + 1
    BY <1>1, <1>11, <1>h, <2>1, <2>2
  <2>3. CASE k # G + 1
    <3>1. k \in 1 .. G
      BY <1>1, <2>1, <2>3
    <3>2. QED
      BY <1>4, <1>h, <2>1, <2>3, <3>1
  <2>4. QED
    BY <2>2, <2>3
<1>13. ASSUME NEW k \in 1 .. U - 1
       PROVE  t.buf[Place(t.r, k)] = f + Len(h) + k
  <2> DEFINE j == k + 1
  <2>1. j \in 1 .. U /\ j \in 1 .. RING /\ k \in 1 .. RING /\ j = k + 1 /\ k \in Nat
    BY <1>1, <1>2
  <2> HIDE DEF j
  <2>2. Place(r, j) = IF r + j - 1 < RING THEN r + j - 1 ELSE r + j - 1 - RING
    BY <1>2, <2>1, PlaceIs
  <2> DEFINE x == BNEXT(r)
  <2>3. x \in 0 .. RING - 1 /\ x = IF r + 1 < RING THEN r + 1 ELSE 0
    BY <1>2, <1>7, NextIs
  <2> HIDE DEF x
  <2>4. Place(x, k) = IF x + k - 1 < RING THEN x + k - 1 ELSE x + k - 1 - RING
    BY <2>1, <2>3, PlaceIs
  <2>5. Place(x, k) = Place(r, j)
    BY <1>1, <1>2, <2>1, <2>2, <2>3, <2>4
  <2>6. s.buf[Place(r, j)] = f + G + j
    BY <1>4, <2>1
  <2>7. t.buf[Place(t.r, k)] = f + G + j
    BY <1>3, <2>5, <2>6 DEF x
  <2>8. QED
    BY <1>1, <1>5, <2>1, <2>7
<1>14. /\ n = f + Len(h) + Unread(t) + Len(F)
       /\ \A k \in 1 .. Len(F) : F[k] = f + Len(h) + Unread(t) + k
  <2> DEFINE L == Len(F)
             H == Len(h)
             V == Unread(t)
  <2>1. L \in Nat /\ H = G + 1 /\ V = U - 1 /\ n = f + G + U + L
    BY <1>1, <1>4, <1>5, <1>9
  <2>2. \A k \in 1 .. L : F[k] = f + G + U + k
    BY <1>4
  <2> HIDE DEF L, H, V
  <2>3. n = f + H + V + L
    BY <1>1, <1>2, <2>1
  <2>4. ASSUME NEW k \in 1 .. L
        PROVE  F[k] = f + H + V + k
    <3>1. f + G + U + k = f + H + V + k
      BY <1>1, <1>2, <2>1
    <3>2. QED
      BY <2>2, <3>1
  <2>5. QED
    BY <2>3, <2>4 DEF L, H, V
<1>15. Holds(t, F, h, n, f)
  BY <1>9, <1>12, <1>13, <1>14 DEF Holds
<1>16. QED
  BY <1>15
(* So a port gives what was sent to it *)
LEMMA HoldsGives ==
  ASSUME NEW s, RingOK(s), NEW F \in Seq(Nat), NEW g \in Seq(Nat), NEW n \in Nat, NEW f \in Nat,
         Holds(s, F, g, n, f)
  PROVE  g \o InRing(s) \o F = [k \in 1 .. n - f |-> f + k]
<1> DEFINE U == Unread(s)
           R == InRing(s)
           G == Len(g)
           L == Len(F)
           Q == g \o R
           W == Q \o F
           N == [k \in 1 .. n - f |-> f + k]
<1>1. U \in Nat
  <2>1. U \in 0 .. RING - 1
    BY UnreadIs DEF RingOK
  <2> HIDE DEF U
  <2>2. QED
    BY <2>1, SerialAssumption
<1>2. R = [k \in 1 .. U |-> s.buf[Place(s.r, k)]]
  BY DEF InRing, Place
<1>3. /\ n = f + G + U + L
      /\ \A k \in 1 .. G : g[k] = f + k
      /\ \A k \in 1 .. U : s.buf[Place(s.r, k)] = f + G + k
      /\ \A k \in 1 .. L : F[k] = f + G + U + k
  BY DEF Holds
<1>4. G \in Nat /\ L \in Nat
  OBVIOUS
<1> HIDE DEF R, U
<1>5. R = [k \in 1 .. U |-> f + G + k]
  BY <1>2, <1>3
<1>6. R \in Seq(Nat) /\ Len(R) = U /\ \A k \in 1 .. U : R[k] = f + G + k
  <2> HIDE DEF G
  <2>1. R \in [1 .. U -> Nat]
    BY <1>1, <1>4, <1>5
  <2>2. QED
    BY <1>1, <1>5, <2>1
<1>7. Q \in Seq(Nat) /\ Len(Q) = G + U
  <2> DEFINE S == Nat
  <2>1. R \in Seq(S) /\ g \in Seq(S) /\ Len(R) = U
    BY <1>6
  <2> HIDE DEF S
  <2>2. Q \in Seq(S) /\ Len(Q) = Len(g) + Len(R)
    BY <2>1, ConcatProperties
  <2> HIDE DEF Q
  <2>3. QED
    BY <2>1, <2>2 DEF S
<1>8. ASSUME NEW k \in 1 .. G + U
      PROVE  Q[k] = f + k
  <2>1. CASE k <= G
    <3>1. Q[k] = g[k] /\ k \in 1 .. G
      BY <1>4, <1>6, <2>1
    <3> HIDE DEF Q, G
    <3>2. QED
      BY <1>3, <3>1
  <2>2. CASE k > G
    <3>1. Q[k] = R[k - G]
      BY <1>1, <1>4, <1>6, <2>2
    <3> HIDE DEF Q, G
    <3>2. k - G \in 1 .. U /\ f + G + (k - G) = f + k
      BY <1>1, <1>4, <2>2
    <3>3. QED
      BY <1>6, <3>1, <3>2
  <2> HIDE DEF Q, G
  <2>3. QED
    BY <1>1, <1>4, <2>1, <2>2
<1> HIDE DEF Q
<1>9. W \in Seq(Nat) /\ Len(W) = G + U + L
  <2> DEFINE S == Nat
  <2>1. Q \in Seq(S) /\ F \in Seq(S)
    BY <1>7
  <2> HIDE DEF S
  <2>2. W \in Seq(S) /\ Len(W) = Len(Q) + Len(F)
    BY <2>1, ConcatProperties
  <2> HIDE DEF W
  <2>3. QED
    BY <1>7, <2>2 DEF S
<1>10. ASSUME NEW k \in 1 .. G + U + L
       PROVE  W[k] = f + k
  <2>1. CASE k <= G + U
    <3>1. W[k] = Q[k] /\ k \in 1 .. G + U
      BY <1>1, <1>4, <1>7, <2>1
    <3> HIDE DEF W, G, L
    <3>2. QED
      BY <1>8, <3>1
  <2>2. CASE k > G + U
    <3>1. W[k] = F[k - (G + U)]
      BY <1>1, <1>4, <1>7, <2>2
    <3> HIDE DEF W, G, L
    <3>2. k - (G + U) \in 1 .. L /\ f + G + U + (k - (G + U)) = f + k
      BY <1>1, <1>4, <2>2
    <3> DEFINE j == k - (G + U)
    <3>3. j \in 1 .. L /\ f + G + U + j = f + k /\ W[k] = F[j]
      BY <3>1, <3>2
    <3> HIDE DEF j
    <3>4. F[j] = f + G + U + j
      BY <1>3, <3>3
    <3>5. QED
      BY <3>3, <3>4
  <2> HIDE DEF W, G, L
  <2>3. QED
    BY <1>1, <1>4, <2>1, <2>2
<1> HIDE DEF W, G, L
<1>11. n - f = G + U + L
  BY <1>1, <1>3, <1>4
<1>12. N \in Seq(Nat) /\ Len(N) = G + U + L /\ \A k \in 1 .. G + U + L : N[k] = f + k
  <2>1. n - f \in Nat /\ N \in [1 .. n - f -> Nat]
    BY <1>1, <1>4, <1>11
  <2>2. QED
    BY <1>11, <2>1
<1> HIDE DEF N
<1>13. \A k \in 1 .. Len(W) : W[k] = N[k]
  BY <1>9, <1>10, <1>12
<1>14. W = N
  BY <1>9, <1>12, <1>13, SeqEqual
<1>15. QED
  BY <1>14 DEF W, N, Q, R

(* The end of the first line in linebuf *)
LEMMA LineInIs ==
  ASSUME NEW l \in Seq(Nat)
  PROVE  LineIn(l) \in 0 .. Len(l)
<1> DEFINE I == { i \in 1 .. Len(l) : l[i] \in Ends }
           m == CHOOSE x \in I : \A y \in I : x =< y
<1>1. LineIn(l) = IF I # {} THEN m ELSE 0
  BY DEF LineIn, SelectInSeq, Min
<1>2. I \in SUBSET Nat
  OBVIOUS
<1>3. CASE I = {}
  BY <1>1, <1>3
<1>4. CASE I # {}
  <2>1. \E x \in I : \A y \in I : x <= y
    BY <1>2, <1>4, Least
  <2>2. m \in I
    BY <2>1
  <2>3. QED
    BY <1>1, <1>4, <2>2
<1>5. QED
  BY <1>3, <1>4

(* Three sequences are put together from either end *)
Associates(T) == \A s, t, u \in T : (s \o t) \o u = s \o (t \o u)
LEMMA Reassociate == \A S : Associates(Seq(S))
BY ConcatAssociative DEF Associates

(* A line and the rest are what there was *)
Rejoined(S, g, l, n) ==
  /\ g \o SubSeq(l, 1, n) \in Seq(S) /\ SubSeq(l, n + 1, Len(l)) \in Seq(S)
  /\ (g \o SubSeq(l, 1, n)) \o SubSeq(l, n + 1, Len(l)) = g \o l
LEMMA LineAndRest ==
  ASSUME NEW S, NEW g, NEW l, g \in Seq(S), l \in Seq(S), NEW n \in 1 .. Len(l)
  PROVE  Rejoined(S, g, l, n)
<1> DEFINE a == SubSeq(l, 1, n)
           b == SubSeq(l, n + 1, Len(l))
<1>1. a \in Seq(S) /\ b \in Seq(S)
  BY SubSeqProperties
<1>2. a \o b = SubSeq(l, 1, Len(l))
  BY ConcatAdjacentSubSeq
<1>3. SubSeq(l, 1, Len(l)) = l
  BY SubSeqFull
<1> HIDE DEF a, b
<1>4. (g \o a) \o b = g \o (a \o b) /\ g \o a \in Seq(S)
  <2> DEFINE T == Seq(S)
  <2>0. g \in T /\ a \in T /\ b \in T
    BY <1>1
  <2>1. Associates(T)
    BY Reassociate, Zenon
  <2> HIDE DEF T
  <2>2. (g \o a) \o b = g \o (a \o b)
    BY <2>0, <2>1, Zenon DEF Associates
  <2>3. g \o a \in Seq(S)
    BY <1>1, ConcatProperties
  <2>4. QED
    BY <2>2, <2>3
<1>5. QED
  BY <1>1, <1>2, <1>3, <1>4 DEF a, b, Rejoined
-----------------------------------------------------------------------------
(* The steps *)
LEMMA SerialStarts == SerialInit => SerialInv
<1> SUFFICES ASSUME SerialInit PROVE SerialInv
  OBVIOUS
<1> USE DEF SerialInit
<1>1. /\ \A p \in Ports : port[p] = Closed
      /\ \A p \in Ports : uart[p] = [fifo |-> << >>, enabled |-> FALSE, irq |-> FALSE]
      /\ \A p \in Ports : sent[p] = 0
  OBVIOUS
<1>2. 0 \in Ports /\ 1 \in Ports /\ 0 \in 0 .. RING - 1 /\ MaxSent \in Nat
  BY SerialAssumption DEF Ports
<1>3. RingsOK
  BY <1>1, ClosedIsEmpty DEF RingsOK
<1>4. UartsOK
  <2> DEFINE u == [fifo |-> << >>, enabled |-> FALSE, irq |-> FALSE]
  <2>1. UartOK(u)
    BY DEF UartOK
  <2>2. uart = [p \in Ports |-> u]
    OBVIOUS
  <2> HIDE DEF u
  <2> QED
    BY <2>1, <2>2 DEF UartsOK
<1>5. CountsOK
  BY DEF CountsOK
<1>6. CallOK
  BY <1>2 DEF CallOK
<1>7. OpenPorts
  BY <1>1, <1>2, ClosedIsEmpty DEF OpenPorts, OpenCount
<1>8. InOrder
  BY <1>1, ClosedIsEmpty DEF InOrder
<1>9. Taking /\ Requested /\ LinesOK
  BY <1>1 DEF Taking, Requested, LinesOK
<1>10. Counted
  <2>1. /\ Unread(port[0]) = 0 /\ Len(uart[0].fifo) = 0 /\ Len(forlines) = 0
        /\ sent[0] = 0 /\ sent[1] = 0
    BY <1>1, <1>2, ClosedIsEmpty
  <2>2. ~Stale /\ pc # "advance"
    BY DEF Stale
  <2> QED
    BY <1>2, <2>1, <2>2 DEF Counted
<1>11. ForLine
  BY DEF ForLine
<1> QED
  BY <1>3, <1>4, <1>5, <1>6, <1>7, <1>8, <1>9, <1>10, <1>11 DEF SerialInv, PortsOK

(* A step that leaves the rings and what is counted alone *)
Alike(q) ==
  /\ port'[q] = port[q] /\ uart'[q].fifo = uart[q].fifo
  /\ got'[q] = got[q] /\ sent'[q] = sent[q] /\ first'[q] = first[q]
LEMMA StillNumbered ==
  ASSUME NEW q \in Ports, Alike(q), Numbered(q)
  PROVE  Numbered(q)'
BY DEF Alike, Numbered

LEMMA StillInOrder ==
  ASSUME InOrder, NEW q \in Ports, Alike(q), overran'[q] = overran[q], port'[q].open, ~overran'[q]
  PROVE  Numbered(q)'
BY StillNumbered DEF InOrder, Alike

LEMMA StillCounted ==
  ASSUME SerialInv, UNCHANGED << port, uart, sent, forlines >>,
         Stale' => Stale, pc' = "advance" => pc = "advance" /\ fd' = fd /\ reg' = reg
  PROVE  Counted'
<1>1. Len(forlines) \in Nat /\ Unread(port[0]) \in Nat /\ Len(uart[0].fifo) \in Nat /\ sent[0] \in Nat
  <2>1. RingOK(port[0]) /\ UartOK(uart[0]) /\ sent[0] \in Nat /\ forlines \in Seq(Nat)
    BY DEF SerialInv, PortsOK, RingsOK, UartsOK, CountsOK, LinesOK, Ports
  <2>2. Unread(port[0]) \in 0 .. RING - 1
    BY <2>1, UnreadIs DEF RingOK
  <2>3. Unread(port[0]) \in Nat
    BY <2>2, SerialAssumption
  <2> QED
    BY <2>1, <2>3 DEF UartOK
<1>2. Counted
  BY DEF SerialInv
<1> DEFINE F == Len(forlines)
           U == Unread(port[0])
           L == Len(uart[0].fifo)
           n == sent[0]
<1>3. F' = F /\ U' = U /\ L' = L /\ n' = n /\ sent'[1] = sent[1]
  OBVIOUS
<1>4. /\ Stale => U = RING - 1
      /\ F + U + L + (IF Stale THEN 1 ELSE 0) <= n
      /\ pc = "advance" /\ fd = 0 /\ ~Stale => port[0].r # port[0].w
      /\ n + sent[1] <= MaxSent
  BY <1>2 DEF Counted
<1>5. F \in Nat /\ U \in Nat /\ L \in Nat /\ n \in Nat
  BY <1>1
<1>6. Stale' => U' = RING - 1
  BY <1>3, <1>4
<1>7. pc' = "advance" /\ fd' = 0 => (Stale' <=> Stale) /\ pc = "advance" /\ fd = 0
  BY DEF Stale
<1>8. pc' = "advance" /\ fd' = 0 /\ ~Stale' => port'[0].r # port'[0].w
  BY <1>4, <1>7
<1> HIDE DEF F, U, L, n
<1>9. F' + U' + L' + (IF Stale' THEN 1 ELSE 0) <= n'
  BY <1>3, <1>4, <1>5
<1>10. n' + sent'[1] <= MaxSent
  BY <1>3, <1>4
<1> QED
  BY <1>6, <1>8, <1>9, <1>10 DEF Counted, F, U, L, n

LEMMA FewerCounted ==
  ASSUME SerialInv, pc' # "advance", UNCHANGED << sent, forlines >>,
         Unread(port'[0]) = 0 \/ Unread(port'[0]) = Unread(port[0]),
         uart'[0].fifo = << >> \/ uart'[0].fifo = uart[0].fifo
  PROVE  Counted'
<1>1. /\ RingOK(port[0]) /\ UartOK(uart[0]) /\ sent[0] \in Nat /\ forlines \in Seq(Nat)
      /\ Counted
  BY DEF SerialInv, PortsOK, RingsOK, UartsOK, CountsOK, LinesOK, Ports
<1> DEFINE F == Len(forlines)
           U == Unread(port[0])
           V == Unread(port'[0])
           L == Len(uart[0].fifo)
           M == Len(uart'[0].fifo)
           n == sent[0]
           m == IF Stale THEN 1 ELSE 0
<1>2. U \in 0 .. RING - 1
  BY <1>1, UnreadIs DEF RingOK
<1>3. F \in Nat /\ L \in Nat /\ n \in Nat /\ m \in {0, 1}
  BY <1>1 DEF UartOK
<1>4. U \in Nat /\ (V = 0 \/ V = U) /\ (M = 0 \/ M = L)
  BY <1>2, SerialAssumption
<1>5. F + U + L + m <= n
  BY <1>1 DEF Counted
<1>6. ~Stale'
  BY DEF Stale
<1>7. F + V + M + 0 <= n
  <2> HIDE DEF F, U, V, L, M, n, m
  <2> QED
    BY <1>3, <1>4, <1>5
<1>8. Len(forlines') + Unread(port'[0]) + Len(uart'[0].fifo) + 0 <= sent'[0]
  BY <1>7
<1>9. sent'[0] + sent'[1] <= MaxSent
  BY <1>1 DEF Counted
<1> QED
  BY <1>6, <1>8, <1>9 DEF Counted

(* the steps of the calls that touch no ring *)
LEMMA ReceiveErrorKeeps ==
  ASSUME SerialInv, UNCHANGED << portVars, callVars, sent, first, got, overran, forlines, gotlines >>
  PROVE  SerialInv'
<1> USE DEF portVars, callVars
<1>1. Counted'
  BY StillCounted DEF Stale
<1>2. (PortsOK /\ OpenPorts /\ InOrder)'
  BY DEF SerialInv, PortsOK, RingsOK, UartsOK, CountsOK, CallOK, OpenPorts, OpenCount, InOrder, Numbered
<1>3. (Taking /\ Requested /\ LinesOK /\ ForLine)'
  BY DEF SerialInv, Taking, Requested, LinesOK, ForLine
<1> QED
  BY <1>1, <1>2, <1>3 DEF SerialInv

LEMMA GetlineKeeps ==
  ASSUME SerialInv, ser_getline(0)
  PROVE  SerialInv'
<1> USE DEF portVars, sentVars, lineHistory, ser_getline
<1>1. Counted'
  BY StillCounted DEF Stale
<1>2. (RingsOK /\ UartsOK /\ CountsOK)'
  BY DEF SerialInv, PortsOK, RingsOK, UartsOK, CountsOK
<1>3. CallOK'
  BY DEF SerialInv, PortsOK, CallOK, Ports
<1>4. OpenPorts'
  BY DEF SerialInv, OpenPorts, OpenCount
<1>5. (InOrder /\ Taking /\ Requested)'
  BY DEF SerialInv, InOrder, Numbered, Taking, Requested
<1>6. (LinesOK /\ ForLine)'
  BY DEF SerialInv, LinesOK, ForLine
<1> QED
  BY <1>1, <1>2, <1>3, <1>4, <1>5, <1>6 DEF SerialInv, PortsOK

LEMMA TakeKeeps ==
  ASSUME SerialInv, NEW p \in Ports, Take(p), port[p].open, forline' \in BOOLEAN,
         forline' => p = 0
  PROVE  SerialInv'
<1> USE DEF portVars, sentVars, lineHistory, Take
<1>1. ~Stale'
  BY DEF Stale
<1>2. RingOK(port[p]) /\ port[p].r \in 0 .. RING - 1 /\ port[p].buf[port[p].r] \in Nat
  BY DEF SerialInv, PortsOK, RingsOK, RingOK
<1>3. Counted'
  <2>1. Counted
    BY DEF SerialInv
  <2>2. RingOK(port[0]) /\ UartOK(uart[0]) /\ sent[0] \in Nat /\ forlines \in Seq(Nat)
    BY DEF SerialInv, PortsOK, RingsOK, UartsOK, CountsOK, LinesOK, Ports
  <2>3. Unread(port[0]) \in 0 .. RING - 1
    BY <2>2, UnreadIs DEF RingOK
  <2> DEFINE F == Len(forlines)
             U == Unread(port[0])
             L == Len(uart[0].fifo)
             n == sent[0]
             m == IF Stale THEN 1 ELSE 0
  <2>4. F \in Nat /\ L \in Nat /\ n \in Nat
    BY <2>2 DEF UartOK
  <2>5. U \in Nat
    BY <2>3, SerialAssumption
  <2>6. F + U + L + m <= n
    BY <2>1 DEF Counted
  <2>7. F' = F /\ U' = U /\ L' = L /\ n' = n /\ m \in Nat
    OBVIOUS
  <2> HIDE DEF F, U, L, n, m
  <2>8. F' + U' + L' + 0 <= n'
    BY <2>4, <2>5, <2>6, <2>7
  <2>9. sent'[0] + sent'[1] <= MaxSent
    BY <2>1 DEF Counted
  <2>10. pc' = "advance" /\ fd' = 0 => port'[0].r # port'[0].w
    OBVIOUS
  <2> QED
    BY <1>1, <2>8, <2>9, <2>10 DEF Counted, F, U, L, n
<1>4. (RingsOK /\ UartsOK /\ CountsOK)'
  BY DEF SerialInv, PortsOK, RingsOK, UartsOK, CountsOK
<1>5. CallOK'
  BY <1>2 DEF SerialInv, PortsOK, CallOK
<1>6. OpenPorts'
  BY DEF SerialInv, OpenPorts, OpenCount
<1>7. (InOrder /\ Taking /\ Requested)'
  BY DEF SerialInv, InOrder, Numbered, Taking, Requested
<1>8. (LinesOK /\ ForLine)'
  BY DEF SerialInv, LinesOK, ForLine
<1> QED
  BY <1>3, <1>4, <1>5, <1>6, <1>7, <1>8 DEF SerialInv, PortsOK

LEMMA LineKeeps ==
  ASSUME SerialInv, TakeLine
  PROVE  SerialInv'
<1> USE DEF portVars
<1>0. /\ UNCHANGED << portVars, fd, reg, c, forline, sent, first, got, overran, forlines, panicked >>
      /\ pc' = "client" /\ pc = "getline"
  BY DEF TakeLine
<1>1. Counted'
  BY <1>0, StillCounted DEF Stale
<1>2. (RingsOK /\ UartsOK /\ CountsOK)'
  BY <1>0 DEF SerialInv, PortsOK, RingsOK, UartsOK, CountsOK
<1>3. CallOK'
  BY <1>0 DEF SerialInv, PortsOK, CallOK
<1>4. OpenPorts'
  BY <1>0 DEF SerialInv, OpenPorts, OpenCount
<1>5. (InOrder /\ Taking /\ Requested /\ ForLine)'
  BY <1>0 DEF SerialInv, InOrder, Numbered, Taking, Requested, ForLine
<1>6. LinesOK'
  <2>1. LinesOK /\ LineIn(linebuf) \in 0 .. Len(linebuf)
    BY LineInIs DEF SerialInv, LinesOK
  <2>2. CASE LineIn(linebuf) = 0
    BY <1>0, <2>1, <2>2 DEF TakeLine, LinesOK
  <2>3. CASE LineIn(linebuf) # 0
    <3> DEFINE l == LineIn(linebuf)
               what_stays == SubSeq(linebuf, l + 1, Len(linebuf))
               what_is_taken == gotlines \o SubSeq(linebuf, 1, l)
    <3>1. linebuf' = what_stays /\ gotlines' = what_is_taken
      BY <2>3 DEF TakeLine, RestOf
    <3>2. l \in 1 .. Len(linebuf) /\ linebuf \in Seq(Nat) /\ gotlines \in Seq(Nat)
      BY <2>1, <2>3 DEF LinesOK
    <3> HIDE DEF l
    <3>3. what_is_taken \in Seq(Nat) /\ what_stays \in Seq(Nat) /\ what_is_taken \o what_stays = gotlines \o linebuf
      <4> DEFINE S == Nat
      <4>1. linebuf \in Seq(S) /\ gotlines \in Seq(S)
        BY <3>2
      <4> HIDE DEF S
      <4>2. Rejoined(S, gotlines, linebuf, l)
        BY <3>2, <4>1, LineAndRest
      <4>3. QED
        BY <4>2 DEF Rejoined, S
    <3> HIDE DEF what_is_taken, what_stays
    <3> QED
      BY <1>0, <2>1, <3>1, <3>3 DEF LinesOK
  <2> QED
    BY <2>2, <2>3
<1> QED
  BY <1>1, <1>2, <1>3, <1>4, <1>5, <1>6 DEF SerialInv, PortsOK
(* A port is opened, *)
LEMMA OpenKeepsPorts ==
  ASSUME SerialInv, NEW p \in Ports, ser_open(p), ~uart[p].enabled
  PROVE  SerialInv'
<1> USE DEF lineHistory
<1>0. /\ pc = "client" /\ port[p].open = FALSE /\ pc' = "opening" /\ fd' = p
      /\ port' = [port EXCEPT ![p] = Closed]
      /\ got' = [got EXCEPT ![p] = << >>] /\ overran' = [overran EXCEPT ![p] = FALSE]
      /\ UNCHANGED << uart, num_open, linebuf, reg, c, forline, sent, first, lineHistory, panicked >>
  <2>1. port[p].open \in BOOLEAN
    BY DEF SerialInv, PortsOK, RingsOK, RingOK
  <2>2. ser_open(p)
    OBVIOUS
  <2> QED
    BY <2>1, <2>2 DEF ser_open
<1>1. RingsOK /\ UartsOK /\ CountsOK /\ CallOK
  BY DEF SerialInv, PortsOK
<1>2. /\ DOMAIN port = Ports
      /\ \A q \in Ports : port'[q] = IF q = p THEN Closed ELSE port[q]
      /\ \A q \in Ports : got'[q] = IF q = p THEN << >> ELSE got[q]
      /\ \A q \in Ports : overran'[q] = IF q = p THEN FALSE ELSE overran[q]
      /\ port' = [q \in Ports |-> port'[q]]
  BY <1>0, <1>1 DEF RingsOK, CountsOK
<1>3. RingsOK'
  BY <1>1, <1>2, ClosedIsEmpty DEF RingsOK
<1>4. UartsOK' /\ CallOK'
  BY <1>0, <1>1 DEF UartsOK, CallOK
<1>5. CountsOK'
  BY <1>0, <1>1, <1>2 DEF CountsOK
<1>6. uart[p].enabled = FALSE
  BY <1>1 DEF UartsOK, UartOK
<1>7. OpenPorts'
  <2>1. num_open' = OpenCount'
    BY <1>0, <1>2, ClosedIsEmpty DEF SerialInv, OpenPorts, OpenCount, Ports
  <2>2. \A q \in Ports : port'[q].open => uart'[q].enabled
    BY <1>0, <1>2, ClosedIsEmpty DEF SerialInv, OpenPorts
  <2> QED
    BY <1>0, <1>2, <1>6, <2>1, <2>2 DEF OpenPorts
<1>8. InOrder'
  <2> SUFFICES ASSUME NEW q \in Ports, port'[q].open, ~overran'[q] PROVE Numbered(q)'
    BY DEF InOrder
  <2>1. q # p
    BY <1>2, ClosedIsEmpty
  <2>2. Alike(q) /\ overran'[q] = overran[q]
    BY <1>0, <1>2, <2>1 DEF Alike
  <2> QED
    BY <2>2, StillInOrder DEF SerialInv
<1>9. (Taking /\ Requested /\ LinesOK /\ ForLine)'
  BY <1>0 DEF SerialInv, Taking, Requested, LinesOK, ForLine
<1>10. Counted'
  <2>1. port'[0] = Closed \/ port'[0] = port[0]
    BY <1>2 DEF Ports
  <2>2. Unread(port'[0]) = 0 \/ Unread(port'[0]) = Unread(port[0])
    BY <2>1, ClosedIsEmpty
  <2> QED
    BY <1>0, <2>2, FewerCounted
<1> QED
  BY <1>3, <1>4, <1>5, <1>7, <1>8, <1>9, <1>10 DEF SerialInv, PortsOK

(* its UART is programmed, *)
LEMMA SetUpKeeps ==
  ASSUME SerialInv, SetUp
  PROVE  SerialInv'
<1> USE DEF lineHistory
<1> DEFINE v == [fifo |-> << >>, enabled |-> TRUE, irq |-> uart[fd].irq]
           o == [port[fd] EXCEPT !.open = TRUE]
<1>0. /\ pc = "opening" /\ pc' = "client"
      /\ uart' = [uart EXCEPT ![fd] = Programmed(@)]
      /\ port' = [port EXCEPT ![fd] = o]
      /\ num_open' = num_open + 1
      /\ first' = [first EXCEPT ![fd] = sent[fd]]
      /\ UNCHANGED << linebuf, fd, reg, c, forline, sent, got, overran, lineHistory, panicked >>
  BY DEF SetUp
<1>1. RingsOK /\ UartsOK /\ CountsOK /\ CallOK /\ fd \in Ports
  BY DEF SerialInv, PortsOK, CallOK
<1>a. Programmed(uart[fd]) = v
  <2> DEFINE u == uart[fd]
             x == [u EXCEPT !.fifo = << >>]
  <2>1. UartOK(u) /\ v = [fifo |-> << >>, enabled |-> TRUE, irq |-> u.irq]
    BY <1>1 DEF UartsOK
  <2> HIDE DEF u, v
  <2>2. x = [fifo |-> << >>, enabled |-> u.enabled, irq |-> u.irq]
    BY <2>1, WithUart
  <2>3. UartOK(x) /\ x.fifo = << >> /\ x.irq = u.irq
    BY <2>1, <2>2 DEF UartOK
  <2>4. Programmed(u) = [x EXCEPT !.enabled = TRUE]
    BY <2>1 DEF Programmed, UartOK
  <2> HIDE DEF x
  <2>5. Programmed(u) = v
    BY <2>1, <2>3, <2>4, WithUart
  <2> QED
    BY <2>5 DEF u
<1>b. UartOK(v) /\ v.fifo = << >> /\ v.enabled = TRUE
  <2>1. uart[fd].irq \in BOOLEAN
    BY <1>1 DEF UartsOK, UartOK
  <2> QED
    BY <2>1 DEF UartOK
<1>c. RingOK(o) /\ o.buf = port[fd].buf /\ o.r = port[fd].r /\ o.w = port[fd].w /\ o.open = TRUE
  BY <1>1, WithOpen DEF RingsOK
<1> HIDE DEF v, o
<1>2. /\ \A q \in Ports : port'[q] = IF q = fd THEN o ELSE port[q]
      /\ \A q \in Ports : uart'[q] = IF q = fd THEN v ELSE uart[q]
      /\ \A q \in Ports : first'[q] = IF q = fd THEN sent[q] ELSE first[q]
      /\ port' = [q \in Ports |-> port'[q]]
      /\ uart' = [q \in Ports |-> uart'[q]]
  BY <1>0, <1>1, <1>a DEF RingsOK, UartsOK, CountsOK
<1>3. RingsOK'
  BY <1>1, <1>2, <1>c DEF RingsOK
<1>4. UartsOK'
  BY <1>1, <1>2, <1>b DEF UartsOK
<1>5. CountsOK'
  BY <1>0, <1>1, <1>2 DEF CountsOK
<1>6. CallOK'
  BY <1>0, <1>1 DEF CallOK
<1>7. port[fd] = Closed /\ port[fd].open = FALSE /\ got[fd] = << >>
  BY <1>0, ClosedIsEmpty DEF SerialInv, OpenPorts
<1>8. OpenPorts'
  <2>1. num_open' = OpenCount'
    <3>1. fd = 0 \/ fd = 1
      BY <1>1 DEF Ports
    <3>2. num_open = OpenCount
      BY DEF SerialInv, OpenPorts
    <3> QED
      BY <1>0, <1>2, <1>7, <1>c, <3>1, <3>2 DEF OpenCount, Ports
  <2>2. \A q \in Ports : port'[q].open => uart'[q].enabled
    BY <1>2, <1>b DEF SerialInv, OpenPorts
  <2> QED
    BY <1>0, <2>1, <2>2 DEF OpenPorts
<1>9. InOrder'
  <2> SUFFICES ASSUME NEW q \in Ports, port'[q].open, ~overran'[q] PROVE Numbered(q)'
    BY DEF InOrder
  <2>1. CASE q # fd
    <3>1. Alike(q) /\ overran'[q] = overran[q]
      BY <1>0, <1>2, <2>1 DEF Alike
    <3> QED
      BY <3>1, StillInOrder DEF SerialInv
  <2>2. CASE q = fd
    <3>1. o.buf = Closed.buf /\ o.r = 0 /\ o.w = 0
      BY <1>7, <1>c, ClosedIsEmpty
    <3>2. sent[fd] \in Nat
      BY <1>1 DEF CountsOK
    <3>3. Holds(o, << >>, << >>, sent[fd], sent[fd])
      BY <3>1, <3>2, HoldsAtOpen
    <3>4. /\ port'[q] = o /\ uart'[q].fifo = << >> /\ got'[q] = << >>
          /\ sent'[q] = sent[fd] /\ first'[q] = sent[fd]
      BY <1>0, <1>2, <1>7, <1>b, <2>2
    <3> QED
      BY <3>3, <3>4 DEF Numbered
  <2> QED
    BY <2>1, <2>2
<1>10. Requested'
  BY <1>2, <1>b DEF SerialInv, Requested
<1>11. (Taking /\ LinesOK /\ ForLine)'
  BY <1>0 DEF SerialInv, Taking, LinesOK, ForLine
<1>12. Counted'
  <2>1. port'[0].r = port[0].r /\ port'[0].w = port[0].w
    BY <1>2, <1>c DEF Ports
  <2>2. Unread(port'[0]) = Unread(port[0])
    BY <2>1 DEF Unread
  <2>3. uart'[0].fifo = << >> \/ uart'[0].fifo = uart[0].fifo
    BY <1>2, <1>b DEF Ports
  <2> QED
    BY <1>0, <2>2, <2>3, FewerCounted
<1> QED
  BY <1>3, <1>4, <1>5, <1>6, <1>8, <1>9, <1>10, <1>11, <1>12 DEF SerialInv, PortsOK

(* and it is closed. *)
LEMMA CloseKeeps ==
  ASSUME SerialInv, NEW p \in Ports, ser_close(p)
  PROVE  SerialInv'
<1> USE DEF lineHistory, callVars, sentVars
<1> DEFINE o == [port[p] EXCEPT !.open = FALSE]
           v == [fifo |-> uart[p].fifo, enabled |-> FALSE, irq |-> FALSE]
<1>0. /\ pc = "client" /\ port[p].open
      /\ num_open' = num_open - 1
      /\ port' = [port EXCEPT ![p] = o]
      /\ UNCHANGED << callVars, sentVars >>
  BY DEF ser_close
<1>1. RingsOK /\ UartsOK /\ CountsOK /\ CallOK
  BY DEF SerialInv, PortsOK
<1>a. RingOK(o) /\ o.buf = port[p].buf /\ o.r = port[p].r /\ o.w = port[p].w /\ o.open = FALSE
  BY <1>1, WithOpen DEF RingsOK
<1>b. uart' = [uart EXCEPT ![p] = v] \/ uart' = uart
  <2>1. CASE num_open = 1
    <3> DEFINE u == uart[p]
               x == [u EXCEPT !.enabled = FALSE]
               y == [x EXCEPT !.irq = FALSE]
               m == [uart EXCEPT ![p] = x]
    <3>1. UartOK(u) /\ v = [fifo |-> u.fifo, enabled |-> FALSE, irq |-> FALSE]
      BY <1>1 DEF UartsOK
    <3>3. m = [uart EXCEPT ![p].enabled = FALSE] /\ m[p] = x
      BY <1>1 DEF UartsOK
    <3>4. uart' = [m EXCEPT ![p].irq = FALSE]
      BY <2>1, <3>3 DEF ser_close
    <3>5. [m EXCEPT ![p].irq = FALSE] = [m EXCEPT ![p] = y]
      <4> HIDE DEF x
      <4> QED BY <3>3
    <3>6. y = v
      <4> HIDE DEF u, v
      <4>1. x = [fifo |-> u.fifo, enabled |-> FALSE, irq |-> u.irq]
        BY <3>1, WithUart
      <4>a. UartOK(x) /\ x.fifo = u.fifo /\ x.enabled = FALSE
        BY <3>1, <4>1 DEF UartOK
      <4> HIDE DEF x
      <4>2. y = [fifo |-> u.fifo, enabled |-> FALSE, irq |-> FALSE]
        BY <4>a, WithUart
      <4> QED
        BY <3>1, <4>2
    <3> HIDE DEF x, y, v
    <3>7. [m EXCEPT ![p] = v] = [uart EXCEPT ![p] = v]
      BY <1>1 DEF UartsOK
    <3> QED
      BY <3>4, <3>5, <3>6, <3>7
  <2>2. CASE num_open # 1
    BY <2>2 DEF ser_close
  <2> QED
    BY <2>1, <2>2
<1>c. UartOK(v) /\ v.fifo = uart[p].fifo /\ v.enabled = FALSE
  BY <1>1 DEF UartsOK, UartOK
<1>d. uart' # uart => num_open = 1
  BY DEF ser_close
<1> HIDE DEF v, o
<1>2. /\ \A q \in Ports : port'[q] = IF q = p THEN o ELSE port[q]
      /\ \A q \in Ports : q # p => uart'[q] = uart[q]
      /\ uart'[p] = v \/ uart'[p] = uart[p]
      /\ port' = [q \in Ports |-> port'[q]]
      /\ uart' = [q \in Ports |-> uart'[q]]
  BY <1>0, <1>1, <1>b DEF RingsOK, UartsOK
<1>3. RingsOK'
  BY <1>1, <1>2, <1>a DEF RingsOK
<1>4. UartsOK'
  <2>1. \A q \in Ports : UartOK(uart'[q])
    BY <1>1, <1>2, <1>c DEF UartsOK
  <2> QED
    BY <1>2, <2>1 DEF UartsOK
<1>5. CountsOK' /\ CallOK'
  BY <1>0, <1>1 DEF CountsOK, CallOK
<1>6. OpenPorts'
  <2>1. num_open' = OpenCount'
    <3>1. p = 0 \/ p = 1
      BY DEF Ports
    <3>2. num_open = OpenCount
      BY DEF SerialInv, OpenPorts
    <3> QED
      BY <1>0, <1>2, <1>a, <3>1, <3>2 DEF OpenCount, Ports
  <2>2. \A q \in Ports : port'[q].open => uart'[q].enabled
    BY <1>2, <1>a DEF SerialInv, OpenPorts
  <2> QED
    BY <1>0, <2>1, <2>2 DEF OpenPorts
<1>7. InOrder'
  <2> SUFFICES ASSUME NEW q \in Ports, port'[q].open, ~overran'[q] PROVE Numbered(q)'
    BY DEF InOrder
  <2>1. q # p
    BY <1>2, <1>a
  <2>2. Alike(q) /\ overran'[q] = overran[q]
    BY <1>0, <1>2, <2>1 DEF Alike
  <2> QED
    BY <2>2, StillInOrder DEF SerialInv
<1>8. Requested'
  BY <1>2, <1>c DEF SerialInv, Requested
<1>9. (Taking /\ LinesOK /\ ForLine)'
  BY <1>0 DEF SerialInv, Taking, LinesOK, ForLine
<1>10. Counted'
  <2>1. port'[0].r = port[0].r /\ port'[0].w = port[0].w
    BY <1>2, <1>a DEF Ports
  <2>2. Unread(port'[0]) = Unread(port[0])
    BY <2>1 DEF Unread
  <2>3. uart'[0].fifo = uart[0].fifo
    BY <1>2, <1>c DEF Ports
  <2> QED
    BY <1>0, <2>2, <2>3, FewerCounted
<1> QED
  BY <1>3, <1>4, <1>5, <1>6, <1>7, <1>8, <1>9, <1>10 DEF SerialInv, PortsOK
(* The other end sends a byte *)
LEMMA ReceiveKeeps ==
  ASSUME SerialInv, NEW p \in Ports, Receive(p)
  PROVE  SerialInv'
<1> USE DEF lineHistory, callVars
<1> DEFINE u == uart[p]
           A == Append(u.fifo, sent[p] + 1)
           i == u.irq \/ (u.enabled /\ u.fifo = << >>)
           v == [fifo |-> A, enabled |-> u.enabled, irq |-> i]
<1>0. /\ sent[0] + sent[1] < MaxSent
      /\ sent' = [sent EXCEPT ![p] = @ + 1]
      /\ UNCHANGED << port, num_open, callVars, first, got, overran, lineHistory, panicked >>
  BY DEF Receive
<1>1. RingsOK /\ UartsOK /\ CountsOK /\ CallOK
  BY DEF SerialInv, PortsOK
<1>a. UartOK(u) /\ sent[p] \in Nat
  BY <1>1 DEF UartsOK, CountsOK
<1>b. /\ UartOK(v) /\ v.fifo = Append(u.fifo, sent[p] + 1) /\ v.enabled = u.enabled
      /\ v.irq = (u.irq \/ (u.enabled /\ u.fifo = << >>))
      /\ v.fifo # << >> /\ Len(v.fifo) = Len(u.fifo) + 1
  <2>1. A \in Seq(Nat) /\ A # << >> /\ Len(A) = Len(u.fifo) + 1
    BY <1>a DEF UartOK
  <2>2. i \in BOOLEAN /\ u.enabled \in BOOLEAN
    BY <1>a DEF UartOK
  <2> HIDE DEF u
  <2>3. v.fifo = A /\ v.enabled = u.enabled /\ v.irq = i
    OBVIOUS
  <2> QED
    BY <2>1, <2>2, <2>3 DEF UartOK
<1>c. uart' = [uart EXCEPT ![p] = v]
  <2> DEFINE x == [u EXCEPT !.fifo = A]
             y == [x EXCEPT !.irq = i]
             m == [uart EXCEPT ![p] = x]
  <2>1. m = [uart EXCEPT ![p].fifo = A] /\ m[p] = x
    BY <1>1 DEF UartsOK
  <2>2. uart' = [m EXCEPT ![p].irq = i]
    <3>1. x.irq = u.irq
      <4> HIDE DEF u
      <4>1. x = [fifo |-> A, enabled |-> u.enabled, irq |-> u.irq]
        BY <1>a, WithUart
      <4> QED BY <4>1
    <3>2. uart' = [uart EXCEPT ![p].fifo = Append(@, sent[p] + 1),
                          ![p].irq = @ \/ (uart[p].enabled /\ uart[p].fifo = << >>)]
      BY DEF Receive
    <3>3. m[p].irq = u.irq
      BY <2>1, <3>1
    <3> QED
      BY <2>1, <3>2, <3>3
  <2>3. [m EXCEPT ![p].irq = i] = [m EXCEPT ![p] = y]
    <3> HIDE DEF x
    <3> QED BY <2>1
  <2>4. y = v
    <3> HIDE DEF u, A, i
    <3>1. x = [fifo |-> A, enabled |-> u.enabled, irq |-> u.irq]
      BY <1>a, WithUart
    <3>2. A \in Seq(Nat)
      BY <1>a DEF UartOK, A
    <3>3. UartOK(x) /\ x.fifo = A /\ x.enabled = u.enabled
      BY <1>a, <3>1, <3>2 DEF UartOK
    <3> HIDE DEF x
    <3> QED
      BY <3>3, WithUart
  <2> HIDE DEF x, y, v
  <2>5. [m EXCEPT ![p] = v] = [uart EXCEPT ![p] = v]
    BY <1>1 DEF UartsOK
  <2> QED
    BY <2>2, <2>3, <2>4, <2>5
<1> HIDE DEF v
<1>2. /\ \A q \in Ports : uart'[q] = IF q = p THEN v ELSE uart[q]
      /\ \A q \in Ports : sent'[q] = IF q = p THEN sent[q] + 1 ELSE sent[q]
      /\ uart' = [q \in Ports |-> uart'[q]]
  BY <1>0, <1>1, <1>c DEF UartsOK, CountsOK
<1>3. RingsOK' /\ CallOK'
  BY <1>0, <1>1 DEF RingsOK, CallOK
<1>4. UartsOK'
  BY <1>1, <1>2, <1>b DEF UartsOK
<1>5. CountsOK'
  BY <1>0, <1>1, <1>2 DEF CountsOK
<1>6. OpenPorts'
  <2>1. \A q \in Ports : uart'[q].enabled = uart[q].enabled
    <3> HIDE DEF u
    <3>1. v.enabled = uart[p].enabled
      BY <1>b DEF u
    <3> QED
      BY <1>2, <3>1
  <2>2. OpenPorts /\ fd \in Ports
    BY <1>1 DEF SerialInv, CallOK
  <2>3. num_open' = OpenCount'
    BY <1>0, <2>2 DEF OpenPorts, OpenCount
  <2> QED
    BY <1>0, <2>1, <2>2, <2>3 DEF OpenPorts
<1>7. InOrder'
  <2> SUFFICES ASSUME NEW q \in Ports, port'[q].open, ~overran'[q] PROVE Numbered(q)'
    BY DEF InOrder
  <2>0. Numbered(q)
    BY <1>0 DEF SerialInv, InOrder
  <2>1. CASE q # p
    <3>1. Alike(q)
      BY <1>0, <1>2, <2>1 DEF Alike
    <3> QED
      BY <2>0, <3>1, StillNumbered
  <2>2. CASE q = p
    <3>1. RingOK(port[p]) /\ u.fifo \in Seq(Nat) /\ got[p] \in Seq(Nat) /\ first[p] \in Nat
      BY <1>1, <1>a DEF RingsOK, CountsOK, UartOK
    <3>2. Holds(port[p], u.fifo, got[p], sent[p], first[p])
      BY <2>0, <2>2 DEF Numbered
    <3>3. Holds(port[p], Append(u.fifo, sent[p] + 1), got[p], sent[p] + 1, first[p])
      BY <1>a, <3>1, <3>2, HoldsReceived
    <3>4. /\ port'[q] = port[p] /\ uart'[q].fifo = Append(u.fifo, sent[p] + 1)
          /\ got'[q] = got[p] /\ sent'[q] = sent[p] + 1 /\ first'[q] = first[p]
      BY <1>0, <1>2, <1>b, <2>2
    <3> HIDE DEF u
    <3> QED
      BY <3>3, <3>4 DEF Numbered
  <2> QED
    BY <2>1, <2>2
<1>8. (Taking /\ LinesOK /\ ForLine)'
  BY <1>0 DEF SerialInv, Taking, LinesOK, ForLine
<1>9. Requested'
  <2> SUFFICES ASSUME NEW q \in Ports, uart'[q].enabled, uart'[q].fifo # << >> PROVE uart'[q].irq
    BY DEF Requested
  <2> QED
    BY <1>2, <1>b DEF SerialInv, Requested
<1>10. Counted'
  <2>1. RingOK(port[0]) /\ UartOK(uart[0]) /\ sent[0] \in Nat /\ sent[1] \in Nat /\ forlines \in Seq(Nat)
    BY <1>1 DEF SerialInv, LinesOK, RingsOK, UartsOK, CountsOK, Ports
  <2> DEFINE F == Len(forlines)
             U == Unread(port[0])
             L == Len(uart[0].fifo)
             M == Len(uart'[0].fifo)
             n == sent[0]
             k == sent'[0]
             m == IF Stale THEN 1 ELSE 0
  <2>2. U \in Nat
    <3>1. U \in 0 .. RING - 1
      BY <2>1, UnreadIs DEF RingOK
    <3> QED
      BY <3>1, SerialAssumption
  <2>3. F \in Nat /\ L \in Nat /\ n \in Nat /\ m \in {0, 1}
    BY <2>1 DEF UartOK
  <2>4. F + U + L + m <= n /\ (Stale => U = RING - 1)
        /\ (pc = "advance" /\ fd = 0 /\ ~Stale => port[0].r # port[0].w)
    BY DEF SerialInv, Counted
  <2>5. (M = L + 1 /\ k = n + 1) \/ (M = L /\ k = n)
    BY <1>2, <1>b DEF Ports
  <2>6. F + U + M + m <= k
    <3> HIDE DEF F, U, L, M, n, k, m
    <3> QED
      BY <2>2, <2>3, <2>4, <2>5
  <2>7. sent'[0] + sent'[1] <= MaxSent
    <3>1. p = 0 \/ p = 1
      BY DEF Ports
    <3>2. (sent'[0] = sent[0] + 1 /\ sent'[1] = sent[1]) \/ (sent'[0] = sent[0] /\ sent'[1] = sent[1] + 1)
      BY <1>2, <3>1 DEF Ports
    <3> QED
      BY <1>0, <2>1, <3>2, SerialAssumption
  <2>8. Stale' <=> Stale
    BY <1>0 DEF Stale
  <2>9. forlines' = forlines /\ port' = port /\ pc' = pc /\ fd' = fd
    BY <1>0
  <2>10. Len(forlines') + Unread(port'[0]) + Len(uart'[0].fifo) + (IF Stale' THEN 1 ELSE 0) <= sent'[0]
    BY <2>6, <2>8, <2>9
  <2> QED
    BY <2>4, <2>7, <2>8, <2>9, <2>10 DEF Counted
<1> QED
  BY <1>3, <1>4, <1>5, <1>6, <1>7, <1>8, <1>9, <1>10 DEF SerialInv, PortsOK

(* A byte that was taken is given to the caller *)
LEMMA AdvanceKeeps ==
  ASSUME SerialInv, Advance
  PROVE  SerialInv'
<1> DEFINE s == port[fd]
           o == [s EXCEPT !.r = BNEXT(reg)]
<1>0. /\ pc = "advance" /\ pc' = IF forline THEN "getline" ELSE "client"
      /\ port' = [port EXCEPT ![fd] = o]
      /\ got' = [got EXCEPT ![fd] = Append(@, c)]
      /\ linebuf' = IF forline THEN Append(linebuf, c) ELSE linebuf
      /\ forlines' = IF forline THEN Append(forlines, c) ELSE forlines
      /\ UNCHANGED << uart, num_open, fd, reg, c, forline, sent, first, overran, gotlines, overrunLine, panicked >>
  BY DEF Advance
<1>1. RingsOK /\ UartsOK /\ CountsOK /\ CallOK /\ fd \in Ports /\ c \in Nat
  BY DEF SerialInv, PortsOK, CallOK
<1>n. BNEXT(reg) \in 0 .. RING - 1
  <2>1. reg \in 0 .. RING - 1
    BY <1>1 DEF CallOK
  <2>2. BNEXT(reg) = IF reg + 1 < RING THEN reg + 1 ELSE 0
    BY <2>1, NextIs
  <2> QED
    BY <2>1, <2>2, SerialAssumption
<1>s. RingOK(s)
  BY <1>1 DEF RingsOK
<1>a. RingOK(o) /\ o.buf = s.buf /\ o.r = BNEXT(reg) /\ o.w = s.w /\ o.open = s.open
  <2> HIDE DEF s
  <2> QED
    BY <1>n, <1>s, WithR
<1> HIDE DEF o
<1>2. /\ \A q \in Ports : port'[q] = IF q = fd THEN o ELSE port[q]
      /\ \A q \in Ports : got'[q] = IF q = fd THEN Append(got[q], c) ELSE got[q]
      /\ port' = [q \in Ports |-> port'[q]]
  BY <1>0, <1>1 DEF RingsOK, CountsOK
<1>3. RingsOK'
  BY <1>1, <1>2, <1>a DEF RingsOK
<1>4. UartsOK' /\ CallOK'
  BY <1>0, <1>1 DEF UartsOK, CallOK
<1>5. CountsOK'
  <2>1. got[fd] \in Seq(Nat) /\ Append(got[fd], c) \in Seq(Nat)
    BY <1>1 DEF CountsOK
  <2> QED
    BY <1>0, <1>1, <2>1 DEF CountsOK
<1>6. OpenPorts'
  <2>1. \A q \in Ports : port'[q].open = port[q].open
    BY <1>2, <1>a
  <2>2. num_open' = OpenCount'
    BY <1>0, <2>1 DEF SerialInv, OpenPorts, OpenCount, Ports
  <2> QED
    BY <1>0, <1>1, <2>1, <2>2 DEF SerialInv, OpenPorts
<1>7. InOrder'
  <2> SUFFICES ASSUME NEW q \in Ports, port'[q].open, ~overran'[q] PROVE Numbered(q)'
    BY DEF InOrder
  <2>0. Numbered(q) /\ ~overran[q]
    BY <1>0, <1>2, <1>a DEF SerialInv, InOrder
  <2>1. CASE q # fd
    <3>1. Alike(q)
      BY <1>0, <1>2, <2>1 DEF Alike
    <3> QED
      BY <2>0, <3>1, StillNumbered
  <2>2. CASE q = fd
    <3>1. reg = s.r /\ s.r # s.w /\ c = s.buf[s.r]
      BY <1>0, <2>0, <2>2 DEF SerialInv, Taking
    <3> DEFINE F == uart[fd].fifo
    <3>2. /\ F \in Seq(Nat) /\ got[fd] \in Seq(Nat)
          /\ sent[fd] \in Nat /\ first[fd] \in Nat
      BY <1>1 DEF UartsOK, UartOK, CountsOK
    <3>3. Holds(s, F, got[fd], sent[fd], first[fd])
      BY <2>0, <2>2 DEF Numbered
    <3> HIDE DEF s, F
    <3>4. o.r = BNEXT(s.r)
      BY <1>a, <3>1
    <3>5. Holds(o, F, Append(got[fd], c), sent[fd], first[fd])
      BY <1>a, <1>s, <3>1, <3>2, <3>3, <3>4, HoldsTaken
    <3>6. /\ port'[q] = o /\ uart'[q].fifo = F
          /\ got'[q] = Append(got[fd], c) /\ sent'[q] = sent[fd] /\ first'[q] = first[fd]
      BY <1>0, <1>1, <1>2, <2>2 DEF F
    <3> QED
      BY <3>5, <3>6 DEF Numbered
  <2> QED
    BY <2>1, <2>2
<1>8. (Taking /\ Requested)'
  BY <1>0 DEF SerialInv, Taking, Requested
<1>9. LinesOK'
  <2>1. LinesOK
    BY DEF SerialInv
  <2>2. CASE forline
    <3>1. linebuf' = Append(linebuf, c) /\ forlines' = Append(forlines, c) /\ gotlines' = gotlines
      BY <1>0, <2>2
    <3> DEFINE S == Nat
    <3>2. gotlines \in Seq(S) /\ linebuf \in Seq(S) /\ forlines \in Seq(S) /\ << c >> \in Seq(S) /\ c \in S
      BY <1>1, <2>1 DEF LinesOK
    <3> HIDE DEF S
    <3>3. (gotlines \o linebuf) \o << c >> = gotlines \o (linebuf \o << c >>)
      <4> DEFINE T == Seq(S)
      <4>1. gotlines \in T /\ linebuf \in T /\ << c >> \in T
        BY <3>2
      <4>2. Associates(T)
        BY Reassociate, Zenon
      <4> HIDE DEF T
      <4>3. QED
        BY <4>1, <4>2, Zenon DEF Associates
    <3>4. Append(linebuf, c) = linebuf \o << c >> /\ Append(forlines, c) = forlines \o << c >>
      BY <3>2, AppendIsConcat
    <3>5. Append(linebuf, c) \in Seq(S) /\ Append(forlines, c) \in Seq(S)
      BY <3>2, AppendProperties
    <3> QED
      BY <2>1, <3>1, <3>2, <3>3, <3>4, <3>5 DEF LinesOK, S
  <2>3. CASE ~forline
    BY <1>0, <2>1, <2>3 DEF LinesOK
  <2> QED
    BY <2>2, <2>3
<1>10. ForLine'
  BY <1>0, <1>1 DEF SerialInv, ForLine
<1>11. Counted'
  <2>1. RingOK(port[0]) /\ UartOK(uart[0]) /\ sent[0] \in Nat /\ forlines \in Seq(Nat) /\ Counted
    BY <1>1 DEF SerialInv, LinesOK, RingsOK, UartsOK, CountsOK, Ports
  <2> DEFINE F == Len(forlines)
             E == Len(forlines')
             U == Unread(port[0])
             V == Unread(port'[0])
             L == Len(uart[0].fifo)
             n == sent[0]
             m == IF Stale THEN 1 ELSE 0
  <2>2. U \in 0 .. RING - 1 /\ V \in 0 .. RING - 1
    <3>1. RingOK(port'[0])
      BY <1>3 DEF RingsOK, Ports
    <3> QED
      BY <2>1, <3>1, UnreadIs DEF RingOK
  <2>3. F \in Nat /\ L \in Nat /\ n \in Nat /\ m \in {0, 1} /\ RING \in Nat
    BY <2>1, SerialAssumption DEF UartOK
  <2>4. F + U + L + m <= n /\ (Stale => U = RING - 1)
    BY <2>1 DEF Counted
  <2>5. E = F \/ (E = F + 1 /\ fd = 0)
    <3>1. forline => fd = 0 /\ E = F + 1
      BY <1>0, <1>1, <2>1 DEF SerialInv, ForLine
    <3>2. ~forline => E = F
      BY <1>0
    <3> QED
      BY <3>1, <3>2
  <2>6. fd # 0 => V = U
    BY <1>2 DEF Ports
  <2>7. fd = 0 => V <= RING - 1 /\ (Stale \/ V = U - 1)
    <3> SUFFICES ASSUME fd = 0, ~Stale PROVE V = U - 1
      BY <2>2, <2>3
    <3>1. reg = port[0].r /\ port[0].r # port[0].w
      BY <1>0, <2>1 DEF Counted, Stale
    <3> DEFINE r == port[0].r
               w == port[0].w
    <3>2. r \in 0 .. RING - 1 /\ w \in 0 .. RING - 1 /\ r # w
      BY <2>1, <3>1 DEF RingOK
    <3>3. port'[0].r = BNEXT(r) /\ port'[0].w = w
      BY <1>2, <1>a, <3>1 DEF Ports
    <3>4. U = Dist(r, w)
      BY <3>2, UnreadIs
    <3>5. BNEXT(r) \in 0 .. RING - 1
      BY <1>n, <3>1
    <3>6. V = Dist(BNEXT(r), w)
      BY <3>2, <3>3, <3>5, UnreadIs
    <3> HIDE DEF r, w, U, V
    <3>7. RingFacts(r, w, Dist(r, w))
      BY <3>2, RingArith
    <3>8. U > 0
      BY <3>2, <3>4, SerialAssumption DEF Dist
    <3> QED
      BY <3>4, <3>6, <3>7, <3>8 DEF RingFacts
  <2>m. Stale => m = 1
    OBVIOUS
  <2>8. E + V + L + 0 <= n
    <3> HIDE DEF F, E, U, V, L, n, m
    <3> QED
      BY <2>2, <2>3, <2>4, <2>5, <2>6, <2>7, <2>m
  <2>9. ~Stale' /\ pc' # "advance"
    BY <1>0 DEF Stale
  <2>10. uart' = uart /\ sent' = sent /\ sent[0] + sent[1] <= MaxSent
    BY <1>0, <2>1 DEF Counted
  <2>11. Len(forlines') + Unread(port'[0]) + Len(uart'[0].fifo) + 0 <= sent'[0]
    BY <2>8, <2>10
  <2> QED
    BY <2>9, <2>10, <2>11 DEF Counted
<1> QED
  BY <1>3, <1>4, <1>5, <1>6, <1>7, <1>8, <1>9, <1>10, <1>11 DEF SerialInv, PortsOK
(* The interrupt routine *)
LEMMA InterruptKeeps ==
  ASSUME SerialInv, recv_intr
  PROVE  SerialInv'
<1> USE DEF lineHistory, callVars
<1>0. /\ port' = [p \in Ports |-> StoreAll(port[p], Ready(p))]
      /\ overran' = [p \in Ports |-> overran[p] \/ Unread(port[p]) + Len(Ready(p)) >= RING]
      /\ UNCHANGED << num_open, callVars, sent, first, got, lineHistory, panicked >>
  BY DEF recv_intr
<1>1. RingsOK /\ UartsOK /\ CountsOK /\ CallOK
  BY DEF SerialInv, PortsOK
<1>2. ASSUME NEW q \in Ports
      PROVE  /\ UartOK(uart'[q]) /\ uart'[q].enabled = uart[q].enabled
             /\ uart'[q].fifo = IF uart[q].enabled THEN << >> ELSE uart[q].fifo
  <2>1. PICK p \in Ports :
          uart' = [r \in Ports |-> [uart[r] EXCEPT !.fifo = IF uart[r].enabled THEN << >> ELSE @,
                                              !.irq = IF r = p THEN FALSE ELSE @]]
    BY DEF recv_intr
  <2> DEFINE u == uart[q]
             F == IF u.enabled THEN << >> ELSE u.fifo
             i == IF q = p THEN FALSE ELSE u.irq
             x == [u EXCEPT !.fifo = F]
             y == [x EXCEPT !.irq = i]
  <2>2. UartOK(u)
    BY <1>1 DEF UartsOK
  <2>3. uart'[q] = [u EXCEPT !.fifo = IF u.enabled THEN << >> ELSE @, !.irq = IF q = p THEN FALSE ELSE @]
    BY <2>1
  <2> HIDE DEF u
  <2>4. F \in Seq(Nat) /\ i \in BOOLEAN
    <3>1. u.fifo \in Seq(Nat) /\ u.irq \in BOOLEAN
      BY <2>2 DEF UartOK
    <3>2. F \in Seq(Nat)
      BY <3>1
    <3>3. i \in BOOLEAN
      BY <3>1
    <3> QED
      BY <3>2, <3>3
  <2>5. x = [fifo |-> F, enabled |-> u.enabled, irq |-> u.irq]
    BY <2>2, WithUart
  <2>6. UartOK(x) /\ x.fifo = F /\ x.enabled = u.enabled /\ x.irq = u.irq
    <3> HIDE DEF F
    <3> QED
      BY <2>2, <2>4, <2>5 DEF UartOK
  <2>7. uart'[q] = y
    <3>1. [u EXCEPT !.fifo = IF u.enabled THEN << >> ELSE @, !.irq = IF q = p THEN FALSE ELSE @]
            = [[u EXCEPT !.fifo = F] EXCEPT !.irq = IF q = p THEN FALSE ELSE @]
      OBVIOUS
    <3>2. [x EXCEPT !.irq = IF q = p THEN FALSE ELSE @] = y
      <4> HIDE DEF x
      <4> QED BY <2>6
    <3> QED
      BY <2>3, <3>1, <3>2
  <2> HIDE DEF F, i, x
  <2>8. y = [fifo |-> F, enabled |-> u.enabled, irq |-> i]
    BY <2>6, WithUart
  <2>9. y.fifo = F /\ y.enabled = u.enabled /\ y.irq = i
    BY <2>8
  <2> HIDE DEF y
  <2>10. UartOK(y)
    BY <2>2, <2>4, <2>8, <2>9 DEF UartOK
  <2> QED
    BY <2>7, <2>9, <2>10 DEF u, F
<1>3. uart' = [q \in Ports |-> uart'[q]]
  BY DEF recv_intr
<1>4. ASSUME NEW q \in Ports
      PROVE  Ready(q) \in Seq(Nat) /\ StoredTo(port[q], port'[q], Ready(q), Len(Ready(q)))
  <2>1. Ready(q) \in Seq(Nat)
    BY <1>1 DEF Ready, UartsOK, UartOK
  <2>2. RingOK(port[q])
    BY <1>1 DEF RingsOK
  <2>3. port'[q] = StoreAll(port[q], Ready(q))
    BY <1>0
  <2> DEFINE s == port[q]
             b == Ready(q)
  <2>4. RingOK(s) /\ b \in Seq(Nat) /\ port'[q] = StoreAll(s, b)
    BY <2>1, <2>2, <2>3
  <2> HIDE DEF s, b
  <2>5. StoredTo(s, StoreAll(s, b), b, Len(b))
    BY <2>4, StoreAllFacts
  <2> QED
    BY <2>1, <2>4, <2>5 DEF s, b
<1>5. RingsOK'
  <2>1. \A q \in Ports : RingOK(port'[q])
    BY <1>4 DEF StoredTo
  <2>2. port' = [q \in Ports |-> port'[q]]
    BY <1>0
  <2> QED
    BY <2>1, <2>2 DEF RingsOK
<1>6. UartsOK'
  BY <1>2, <1>3 DEF UartsOK
<1>7. CountsOK' /\ CallOK'
  BY <1>0, <1>1 DEF CountsOK, CallOK
<1>8. OpenPorts'
  <2>1. \A q \in Ports : port'[q].open = port[q].open
    BY <1>4 DEF StoredTo
  <2>2. \A q \in Ports : uart'[q].enabled = uart[q].enabled
    BY <1>2
  <2>3. num_open' = OpenCount'
    BY <1>0, <2>1 DEF SerialInv, OpenPorts, OpenCount, Ports
  <2>4. OpenPorts /\ fd \in Ports
    BY <1>1 DEF SerialInv, CallOK
  <2>5. pc = "opening" => /\ port'[fd] = Closed /\ overran'[fd] = FALSE
    <3> SUFFICES ASSUME pc = "opening" PROVE port'[fd] = Closed /\ overran'[fd] = FALSE
      OBVIOUS
    <3>1. port[fd] = Closed /\ uart[fd].enabled = FALSE /\ overran[fd] = FALSE
      BY <2>4 DEF OpenPorts
    <3>2. Ready(fd) = << >> /\ Len(Ready(fd)) = 0
      BY <3>1 DEF Ready
    <3>3. StoreAll(Closed, << >>) = Closed
      <4> DEFINE b == << >>
      <4>1. b \in Seq(Nat) /\ Len(b) = 0
        OBVIOUS
      <4> HIDE DEF b
      <4>2. PICK g : StoreSteps(g, Closed, b) /\ StoreAll(Closed, b) = g[Len(b)]
        BY <4>1, StoreAllRun
      <4>3. StoreAll(Closed, b) = Closed
        BY <4>1, <4>2 DEF StoreSteps
      <4> QED
        BY <4>3 DEF b
    <3>4. port'[fd] = Closed
      BY <1>0, <2>4, <3>1, <3>2, <3>3
    <3>5. Unread(port[fd]) + Len(Ready(fd)) = 0
      BY <3>1, <3>2, ClosedIsEmpty
    <3>6. ~(0 >= RING)
      BY SerialAssumption
    <3>7. overran'[fd] = (overran[fd] \/ Unread(port[fd]) + Len(Ready(fd)) >= RING)
      BY <1>0, <2>4
    <3>8. overran'[fd] = FALSE
      BY <3>1, <3>5, <3>6, <3>7
    <3> QED
      BY <3>4, <3>8
  <2> QED
    BY <1>0, <2>1, <2>2, <2>3, <2>4, <2>5 DEF OpenPorts
<1>u. ASSUME NEW q \in Ports
      PROVE  Unread(port[q]) \in 0 .. RING - 1 /\ Unread(port'[q]) \in 0 .. RING - 1
  BY <1>1, <1>5, UnreadIs DEF RingsOK, RingOK
<1>r. RING \in Nat /\ RING > 1
  BY SerialAssumption
<1>9. InOrder'
  <2> SUFFICES ASSUME NEW q \in Ports, port'[q].open, ~overran'[q] PROVE Numbered(q)'
    BY DEF InOrder
  <2>1. port[q].open /\ uart[q].enabled
    BY <1>4 DEF StoredTo, SerialInv, OpenPorts
  <2>2. ~overran[q] /\ ~(Unread(port[q]) + Len(Ready(q)) >= RING)
    BY <1>0
  <2>3. Numbered(q)
    BY <2>1, <2>2 DEF SerialInv, InOrder
  <2> DEFINE s == port[q]
             F == uart[q].fifo
             g == got[q]
  <2>4. Ready(q) = F /\ uart'[q].fifo = << >>
    BY <1>2, <2>1 DEF Ready
  <2>5. RingOK(s) /\ F \in Seq(Nat) /\ g \in Seq(Nat) /\ sent[q] \in Nat /\ first[q] \in Nat
    BY <1>1 DEF RingsOK, UartsOK, UartOK, CountsOK
  <2>6. Unread(s) + Len(F) < RING
    <3>1. Len(F) \in Nat /\ Unread(s) \in Nat
      BY <1>r, <1>u, <2>5
    <3> QED
      BY <1>r, <2>2, <2>4, <3>1
  <2>7. Holds(s, F, g, sent[q], first[q])
    BY <2>3 DEF Numbered
  <2>8. port'[q] = StoreAll(s, F)
    BY <1>0, <2>4
  <2> HIDE DEF s, F, g
  <2>9. Holds(StoreAll(s, F), << >>, g, sent[q], first[q])
    BY <2>5, <2>6, <2>7, HoldsStored
  <2>10. got'[q] = g /\ sent'[q] = sent[q] /\ first'[q] = first[q]
    BY <1>0 DEF g
  <2> QED
    BY <2>4, <2>8, <2>9, <2>10 DEF Numbered
<1>10. Taking'
  <2> SUFFICES ASSUME pc = "advance", ~overran'[fd]
               PROVE  reg = port'[fd].r /\ reg # port'[fd].w /\ c = port'[fd].buf[reg]
    BY <1>0 DEF Taking
  <2> DEFINE s == port[fd]
             t == port'[fd]
             U == Unread(s)
             n == Len(Ready(fd))
  <2>0. fd \in Ports
    BY <1>1 DEF CallOK
  <2>1. ~overran[fd] /\ ~(U + n >= RING)
    BY <1>0, <2>0
  <2>2. reg = s.r /\ s.r # s.w /\ c = s.buf[s.r]
    BY <2>1 DEF SerialInv, Taking
  <2>3. /\ RingOK(t)
        /\ t.r # s.r => U + n >= RING
        /\ U + n < RING => Unread(t) = U + n /\ \A k \in 1 .. U : t.buf[Place(s.r, k)] = s.buf[Place(s.r, k)]
    BY <1>4, <2>0 DEF StoredTo
  <2>4. n \in Nat /\ U \in 0 .. RING - 1
    BY <1>4, <1>u, <2>0
  <2> HIDE DEF U, n
  <2>5. U + n < RING
    BY <1>r, <2>1, <2>4
  <2>6. t.r = s.r
    BY <2>1, <2>3
  <2> DEFINE r == s.r
             w == s.w
  <2>7. r \in 0 .. RING - 1 /\ w \in 0 .. RING - 1 /\ r # w /\ U = Dist(r, w)
    <3>1. RingOK(s)
      BY <1>1, <2>0 DEF RingsOK
    <3> QED
      BY <2>2, <3>1, UnreadIs DEF RingOK, U
  <2>8. U > 0 /\ 1 \in 1 .. U
    <3> HIDE DEF r, w
    <3>1. U > 0
      BY <1>r, <2>7 DEF Dist
    <3> QED
      BY <1>r, <2>4, <3>1
  <2>9. Place(r, 1) = r
    <3> HIDE DEF r
    <3>1. Place(r, 1) = IF r + 1 - 1 < RING THEN r + 1 - 1 ELSE r + 1 - 1 - RING
      BY <1>r, <2>7, PlaceIs
    <3> QED
      BY <1>r, <2>7, <3>1
  <2>10. t.buf[Place(r, 1)] = s.buf[Place(r, 1)]
    BY <2>3, <2>5, <2>8
  <2>11. t.w # r
    <3>1. Unread(t) = Dist(t.r, t.w)
      BY <2>3, UnreadIs DEF RingOK
    <3>2. Unread(t) = U + n
      BY <2>3, <2>5
    <3>3. t.r \in 0 .. RING - 1
      BY <2>3 DEF RingOK
    <3>4. t.w = t.r => Unread(t) = 0
      BY <3>1, <3>3, <1>r DEF Dist
    <3>5. U + n # 0
      BY <1>r, <2>4, <2>8
    <3> QED
      BY <2>6, <3>2, <3>4, <3>5
  <2> QED
    BY <2>2, <2>6, <2>9, <2>10, <2>11
<1>11. Requested'
  BY <1>2 DEF Requested
<1>12. (LinesOK /\ ForLine)'
  BY <1>0 DEF SerialInv, LinesOK, ForLine
<1>13. Counted'
  <2> DEFINE s == port[0]
             t == port'[0]
             F == Len(forlines)
             U == Unread(s)
             V == Unread(t)
             k == Len(Ready(0))
             L == Len(uart[0].fifo)
             M == Len(uart'[0].fifo)
             n == sent[0]
             m == IF Stale THEN 1 ELSE 0
             m2 == IF Stale' THEN 1 ELSE 0
  <2>0. 0 \in Ports
    BY DEF Ports
  <2>1. RingOK(s) /\ UartOK(uart[0]) /\ n \in Nat /\ forlines \in Seq(Nat) /\ Counted
    BY <1>1 DEF SerialInv, LinesOK, RingsOK, UartsOK, CountsOK, Ports
  <2>2. U \in 0 .. RING - 1 /\ V \in 0 .. RING - 1
    BY <1>u, <2>0
  <2>3. F \in Nat /\ L \in Nat /\ k \in Nat /\ m \in {0, 1} /\ m2 \in {0, 1}
    BY <1>4, <2>0, <2>1 DEF UartOK
  <2>4. k + M = L
    <3>1. uart[0].enabled => k = L /\ M = 0
      BY <1>2, <2>0 DEF Ready
    <3>2. ~uart[0].enabled => k = 0 /\ M = L
      BY <1>2, <2>0 DEF Ready
    <3> HIDE DEF k, M, L
    <3> QED
      BY <2>3, <3>1, <3>2
  <2>5. F + U + L + m <= n
    BY <2>1 DEF Counted
  <2>6. Stale => U = RING - 1
    BY <2>1 DEF Counted
  <2>7. U <= V /\ V <= U + k
    BY <1>4, <2>0 DEF StoredTo
  <2>8. t.r # s.r => V = RING - 1 /\ U + k >= RING
    BY <1>4, <2>0 DEF StoredTo
  <2>9. M \in Nat
    BY <1>2, <2>0 DEF UartOK
  <2>10. Stale' /\ ~Stale => V = RING - 1 /\ U + k >= RING
    BY <1>0, <2>8 DEF Stale
  <2>11. Stale' => V = RING - 1
    <3>1. Stale => V = RING - 1
      <4> HIDE DEF U, V, s, t
      <4> QED BY <1>r, <2>2, <2>6, <2>7
    <3> QED
      BY <2>10, <3>1
  <2>12. F + V + M + m2 <= n
    <3>1. CASE Stale' /\ ~Stale
      <4>1. m = 0 /\ m2 = 1 /\ V = RING - 1 /\ U + k >= RING
        BY <2>10, <3>1
      <4> HIDE DEF F, U, V, k, L, M, n, m, m2
      <4> QED
        BY <1>r, <2>1, <2>2, <2>3, <2>4, <2>5, <2>9, <4>1
    <3>2. CASE Stale \/ ~Stale'
      <4>1. m2 <= m
        BY <3>2
      <4> HIDE DEF F, U, V, k, L, M, n, m, m2
      <4> QED
        BY <1>r, <2>1, <2>2, <2>3, <2>4, <2>5, <2>7, <2>9, <4>1
    <3> QED
      BY <3>1, <3>2
  <2>13. ASSUME pc = "advance", fd = 0, ~Stale'
         PROVE  t.r # t.w
    <3>1. reg = t.r
      BY <1>0, <2>13 DEF Stale
    <3>2. U > 0
      <4>1. CASE Stale
        BY <1>r, <2>6, <4>1
      <4>2. CASE ~Stale
        <5> DEFINE r == s.r
                   w == s.w
        <5>1. r # w
          BY <2>1, <2>13, <4>2 DEF Counted
        <5>2. r \in 0 .. RING - 1 /\ w \in 0 .. RING - 1 /\ U = Dist(r, w)
          BY <2>1, UnreadIs DEF RingOK
        <5> HIDE DEF r, w, U
        <5> QED
          BY <1>r, <5>1, <5>2 DEF Dist
      <4> QED
        BY <4>1, <4>2
    <3>3. V > 0
      <4> HIDE DEF U, V
      <4> QED BY <1>r, <2>2, <2>7, <3>2
    <3>4. RingOK(t)
      BY <1>5, <2>0 DEF RingsOK
    <3>5. V = Dist(t.r, t.w) /\ t.r \in 0 .. RING - 1
      BY <3>4, UnreadIs DEF RingOK
    <3> HIDE DEF V, t
    <3>6. t.r = t.w => V = 0
      BY <1>r, <3>5 DEF Dist
    <3> QED
      BY <3>3, <3>6
  <2>14. forlines' = forlines /\ sent' = sent /\ pc' = pc /\ fd' = fd
    BY <1>0
  <2>15. Len(forlines') + Unread(port'[0]) + Len(uart'[0].fifo) + (IF Stale' THEN 1 ELSE 0) <= sent'[0]
    BY <2>12, <2>14
  <2>16. sent[0] + sent[1] <= MaxSent
    BY <2>1 DEF Counted
  <2> QED
    BY <2>11, <2>13, <2>14, <2>15, <2>16 DEF Counted
<1> QED
  BY <1>5, <1>6, <1>7, <1>8, <1>9, <1>10, <1>11, <1>12, <1>13 DEF SerialInv, PortsOK
LEMMA SerialStep ==
  ASSUME SerialInv, SerialNext
  PROVE  SerialInv'
<1>1. CASE recv_intr
  BY <1>1, InterruptKeeps
<1>2. CASE ReceiveError
  BY <1>2, ReceiveErrorKeeps DEF ReceiveError, lineHistory
<1>3. CASE SetUp
  BY <1>3, SetUpKeeps
<1>4. CASE Advance
  BY <1>4, AdvanceKeeps
<1>5. CASE ReadOn
  <2>1. fd \in Ports /\ forline' = forline /\ forline \in BOOLEAN
    BY <1>5 DEF SerialInv, PortsOK, CallOK, ReadOn
  <2>2. fd = 0 /\ port[fd].open /\ Take(fd)
    BY <1>5 DEF SerialInv, ForLine, OpenPorts, ReadOn
  <2> QED
    BY <2>1, <2>2, TakeKeeps
<1>6. CASE TakeLine
  BY <1>6, LineKeeps
<1>7. ASSUME NEW p \in Ports, Receive(p)
      PROVE  SerialInv'
  BY <1>7, ReceiveKeeps
<1>8. ASSUME NEW p \in Ports, ser_close(p)
      PROVE  SerialInv'
  BY <1>8, CloseKeeps
<1>9. ASSUME NEW p \in Ports, ser_getc(p)
      PROVE  SerialInv'
  BY <1>9, TakeKeeps DEF ser_getc
<1>10. ASSUME NEW p \in Ports, ser_open(p), ~uart[p].enabled
       PROVE  SerialInv'
  BY <1>10, OpenKeepsPorts
<1>11. CASE ser_getline(0)
  BY <1>11, GetlineKeeps
<1> QED
  BY <1>1, <1>2, <1>3, <1>4, <1>5, <1>6, <1>7, <1>8, <1>9, <1>10, <1>11 DEF SerialNext

(* What it means for the callers *)
LEMMA SerialGives ==
  ASSUME SerialInv
  PROVE  SerialTypeOK /\ PortsGiveAll /\ LinesGiveAll
<1>1. RingsOK /\ UartsOK /\ CountsOK /\ CallOK
  BY DEF SerialInv, PortsOK
<1>2. SerialTypeOK
  <2>1. Cardinality({ p \in Ports : port[p].open }) = OpenCount
    <3> DEFINE T == { p \in Ports : port[p].open }
    <3>1. /\ IsFiniteSet({}) /\ Cardinality({}) = 0
          /\ IsFiniteSet({} \cup {0}) /\ Cardinality({} \cup {0}) = 1
          /\ IsFiniteSet({} \cup {1}) /\ Cardinality({} \cup {1}) = 1
      BY FS_EmptySet, FS_AddElement
    <3>2. Cardinality(({} \cup {0}) \cup {1}) = 2
      BY <3>1, FS_AddElement
    <3>3. CASE port[0].open /\ port[1].open
      <4>1. T = ({} \cup {0}) \cup {1} /\ OpenCount = 2
        BY <3>3 DEF Ports, OpenCount
      <4> QED
        BY <3>2, <4>1
    <3>4. CASE port[0].open /\ ~port[1].open
      <4>1. T = {} \cup {0} /\ OpenCount = 1
        BY <3>4 DEF Ports, OpenCount
      <4> QED
        BY <3>1, <4>1
    <3>5. CASE ~port[0].open /\ port[1].open
      <4>1. T = {} \cup {1} /\ OpenCount = 1
        BY <3>5 DEF Ports, OpenCount
      <4> QED
        BY <3>1, <4>1
    <3>6. CASE ~port[0].open /\ ~port[1].open
      <4>1. T = {} /\ OpenCount = 0
        BY <3>6 DEF Ports, OpenCount
      <4> QED
        BY <3>1, <4>1
    <3> QED
      BY <3>3, <3>4, <3>5, <3>6
  <2>2. \A p \in Ports : port[p].r \in 0 .. RING - 1 /\ port[p].w \in 0 .. RING - 1
    BY <1>1 DEF RingsOK, RingOK
  <2> QED
    BY <1>1, <2>1, <2>2 DEF SerialTypeOK, CallOK, SerialInv, OpenPorts
<1>3. PortsGiveAll
  <2>1. ASSUME NEW p \in Ports, port[p].open, ~overran[p]
        PROVE  got[p] \o InRing(port[p]) \o uart[p].fifo
                 = [k \in 1 .. sent[p] - first[p] |-> first[p] + k]
    <3> DEFINE s == port[p]
               F == uart[p].fifo
               g == got[p]
               n == sent[p]
               f == first[p]
    <3>1. RingOK(s) /\ F \in Seq(Nat) /\ g \in Seq(Nat) /\ n \in Nat /\ f \in Nat
      BY <1>1 DEF RingsOK, UartsOK, UartOK, CountsOK
    <3>2. Holds(s, F, g, n, f)
      BY <2>1 DEF SerialInv, InOrder, Numbered
    <3> HIDE DEF s, F, g, n, f
    <3>3. g \o InRing(s) \o F = [k \in 1 .. n - f |-> f + k]
      BY <3>1, <3>2, HoldsGives
    <3> QED
      BY <3>3 DEF s, F, g, n, f
  <2>2. ASSUME NEW p \in Ports, uart[p].enabled, uart[p].fifo # << >>
        PROVE  \E q \in Ports : Interrupt(q)
    BY <2>2 DEF SerialInv, Requested, Interrupt
  <2> QED
    BY <2>1, <2>2 DEF PortsGiveAll
<1>4. LinesGiveAll
  BY DEF SerialInv, LinesOK, LinesGiveAll
<1> QED
  BY <1>2, <1>3, <1>4

(* linebuf holds no more than was sent *)
LEMMA LinebufFits ==
  ASSUME SerialInv, MaxSent < LINEBUF
  PROVE  Len(linebuf) # LINEBUF
<1>1. RingOK(port[0]) /\ UartOK(uart[0]) /\ sent[0] \in Nat /\ sent[1] \in Nat /\ Counted /\ LinesOK
  BY DEF SerialInv, PortsOK, RingsOK, UartsOK, CountsOK, Ports
<1> DEFINE F == Len(forlines)
           U == Unread(port[0])
           L == Len(uart[0].fifo)
           m == IF Stale THEN 1 ELSE 0
           B == Len(linebuf)
           G == Len(gotlines)
<1>2. U \in Nat
  <2>1. U \in 0 .. RING - 1
    BY <1>1, UnreadIs DEF RingOK
  <2> QED
    BY <2>1, SerialAssumption
<1>3. F \in Nat /\ L \in Nat /\ B \in Nat /\ G \in Nat /\ m \in Nat
  BY <1>1 DEF UartOK, LinesOK
<1>4. F = G + B
  BY <1>1 DEF LinesOK
<1>5. F + U + L + m <= sent[0] /\ sent[0] + sent[1] <= MaxSent
  BY <1>1 DEF Counted
<1> HIDE DEF F, U, L, m, B, G
<1>6. B # LINEBUF
  BY <1>1, <1>2, <1>3, <1>4, <1>5, SerialAssumption
<1> QED
  BY <1>6 DEF B

LEMMA LinebufKeeps ==
  ASSUME SerialInv, SerialNext, MaxSent < LINEBUF, overrunLine = FALSE
  PROVE  overrunLine' = FALSE
<1>1. CASE TakeLine
  BY <1>1, LinebufFits DEF TakeLine
<1>2. CASE recv_intr \/ ReceiveError \/ SetUp \/ Advance
  BY <1>2 DEF recv_intr, ReceiveError, SetUp, Advance, lineHistory
<1>3. CASE ReadOn
  BY <1>3 DEF ReadOn, Take, sentVars, lineHistory
<1>4. ASSUME NEW p \in Ports, Receive(p) \/ ser_close(p) \/ ser_getc(p) \/ ser_open(p) \/ ser_getline(p)
      PROVE  overrunLine' = FALSE
  BY <1>4 DEF Receive, ser_close, ser_getc, ser_open, ser_getline, Take, sentVars, lineHistory
<1> QED
  BY <1>1, <1>2, <1>3, <1>4 DEF SerialNext, Ports

(* While the interrupt comes between any two steps of the calls, the bytes  *)
(* a port gave, those in its ring and those still in its UART are, one      *)
(* after the other, what was sent to it since it was opened, until its ring *)
(* overruns; a UART with a byte has a request or is off; num_open counts    *)
(* the open ports; and the lines and what is left in linebuf are, in order, *)
(* all the bytes that were taken for lines, overrun or not.                 *)
THEOREM BytesComeInOrder == Spec => [](SerialTypeOK /\ PortsGiveAll /\ LinesGiveAll)
<1>1. Init => SerialInv
  BY SerialStarts DEF Init
<1>2. SerialInv /\ [Next]_vars => SerialInv'
  <2>1. SerialInv /\ UNCHANGED serialVars => SerialInv'
    <3>1. SUFFICES ASSUME SerialInv, UNCHANGED serialVars PROVE SerialInv'
      OBVIOUS
    <3>2. QED
      BY <3>1, ReceiveErrorKeeps DEF serialVars, sentVars, lineHistory
  <2>2. UNCHANGED vars => UNCHANGED serialVars
    BY DEF vars
  <2>3. QED
    BY <2>1, <2>2, Alone, SerialStep DEF StepOf
<1>3. SerialInv => SerialTypeOK /\ PortsGiveAll /\ LinesGiveAll
  BY SerialGives
<1>4. QED
  BY <1>1, <1>2, <1>3, PTL DEF Spec


-----------------------------------------------------------------------------
(* The mouse.  What is on the wire and what has been read are the two parts *)
(* of the last report's three bytes; between reports the pointer is where   *)
(* it is to be.                                                             *)
XByte(m) == m.x % 256
YByte(m) == m.y % 256
TwoParts ==
  \/ wire = << >> /\ data = << >>
  \/ /\ report \in Moves
     /\ \/ data = << >> /\ wire = << Flags(report), XByte(report), YByte(report) >>
        \/ data = << Flags(report) >> /\ wire = << XByte(report), YByte(report) >>
        \/ data = << Flags(report), XByte(report) >> /\ wire = << YByte(report) >>
MouseInv == TwoParts /\ due = At(mx, my, bnstate)

(* A byte and its sign are the number *)
LEMMA SignedByte ==
  ASSUME NEW v \in -256 .. 255
  PROVE  Signed(v < 0, v % 256) = v
<1>1. CASE v = -256
  BY <1>1 DEF Signed
<1>2. CASE v < 0 /\ v # -256
  <2>1. v % 256 = v + 256
    BY <1>2
  <2> QED
    BY <1>2, <2>1 DEF Signed
<1>3. CASE v >= 0
  <2>1. v % 256 = v
    BY <1>3
  <2> QED
    BY <1>3, <2>1 DEF Signed
<1> QED
  BY <1>1, <1>2, <1>3

LEMMA Appended ==
  ASSUME NEW a, NEW b, NEW d
  PROVE  Append(<< a >>, b) = << a, b >> /\ Append(<< a, b >>, d) = << a, b, d >>
<1> DEFINE S == {a, b, d}
<1>1. << a >> \in Seq(S) /\ << a, b >> \in Seq(S) /\ << a, b, d >> \in Seq(S)
  OBVIOUS
<1>2. a \in S /\ b \in S /\ d \in S
  OBVIOUS
<1> HIDE DEF S
<1>3. Append(<< a >>, b) = << a, b >>
  <2> DEFINE s == Append(<< a >>, b)
  <2>1. s \in Seq(S) /\ Len(s) = 2 /\ s[1] = a /\ s[2] = b
    BY <1>1, <1>2, AppendProperties
  <2> HIDE DEF s
  <2>2. \A i \in 1 .. 2 : s[i] = << a, b >>[i]
    BY <2>1
  <2>3. s = << a, b >>
    BY <1>1, <2>1, <2>2, SeqEqual
  <2> QED
    BY <2>3 DEF s
<1>4. Append(<< a, b >>, d) = << a, b, d >>
  <2> DEFINE s == Append(<< a, b >>, d)
  <2>1. s \in Seq(S) /\ Len(s) = 3 /\ s[1] = a /\ s[2] = b /\ s[3] = d
    BY <1>1, <1>2, AppendProperties
  <2> HIDE DEF s
  <2>2. \A i \in 1 .. 3 : s[i] = << a, b, d >>[i]
    BY <2>1
  <2>3. s = << a, b, d >>
    BY <1>1, <2>1, <2>2, SeqEqual
  <2> QED
    BY <2>3 DEF s
<1> QED
  BY <1>3, <1>4

LEMMA MouseStep ==
  ASSUME MouseInv, MouseNext
  PROVE  MouseInv'
<1>1. ASSUME NEW m \in Moves, Report(m)
      PROVE  MouseInv'
  <2>1. wire = << >> /\ data = << >>
    BY <1>1 DEF MouseInv, TwoParts, Report
  <2>2. /\ data' = << >> /\ report' = m /\ report' \in Moves
        /\ wire' = << Flags(report'), XByte(report'), YByte(report') >>
    BY <1>1, <2>1 DEF Report, XByte, YByte
  <2>3. due' = due /\ mx' = mx /\ my' = my /\ bnstate' = bnstate
    BY <1>1 DEF Report
  <2> QED
    BY <2>2, <2>3 DEF MouseInv, TwoParts
<1>2. ASSUME NEW b \in BoundSets, set_mouse_bounds(b)
      PROVE  MouseInv'
  BY <1>2 DEF set_mouse_bounds, MouseInv, TwoParts
<1>3. CASE psaux_intr
  <2> DEFINE r == report
             f == Flags(r)
             x == XByte(r)
             y == YByte(r)
  <2>1. r \in Moves /\ wire # << >> /\ report' = report /\ bounds' = bounds
    BY <1>3 DEF MouseInv, TwoParts, psaux_intr
  <2>2. CASE data = << >> /\ wire = << f, x, y >>
    <3>1. Head(wire) = f /\ Tail(wire) = << x, y >> /\ Len(wire) = 3 /\ Len(data) = 0
      BY <2>2
    <3>2. wire' = << x, y >> /\ data' = Append(<< >>, f) /\ UNCHANGED << mx, my, bnstate, due >>
      BY <1>3, <2>2, <3>1 DEF psaux_intr
    <3>3. Append(<< >>, f) = << f >>
      OBVIOUS
    <3> QED
      BY <2>1, <3>2, <3>3 DEF MouseInv, TwoParts
  <2>3. CASE data = << f >> /\ wire = << x, y >>
    <3>1. Head(wire) = x /\ Tail(wire) = << y >> /\ Len(wire) = 2 /\ Len(data) = 1
      BY <2>3
    <3>2. wire' = << y >> /\ data' = Append(<< f >>, x) /\ UNCHANGED << mx, my, bnstate, due >>
      BY <1>3, <2>3, <3>1 DEF psaux_intr
    <3>3. Append(<< f >>, x) = << f, x >>
      BY Appended, Zenon
    <3> QED
      BY <2>1, <3>2, <3>3 DEF MouseInv, TwoParts
  <2>4. CASE data = << f, x >> /\ wire = << y >>
    <3>1. Head(wire) = y /\ Tail(wire) = << >> /\ Len(wire) = 1 /\ Len(data) = 2
      BY <2>4
    <3>2. Append(data, Head(wire)) = << f, x, y >>
      <4> HIDE DEF f, x, y
      <4> QED BY <2>4, <3>1, Appended, Zenon
    <3>3. wire' = << >> /\ data' = << >> /\ proc_mouse_data(<< f, x, y >>)
      <4>1. wire' = Tail(wire) /\ data' = << >> /\ proc_mouse_data(Append(data, Head(wire)))
        <5>1. ~(Len(data) < 2)
          BY <3>1
        <5> QED
          BY <1>3, <5>1 DEF psaux_intr
      <4> HIDE DEF f, x, y
      <4> QED
        BY <3>1, <3>2, <4>1
    <3>4. due' = IF r.ovf THEN due
                 ELSE At(Within(due.x + r.x, bounds.x0, bounds.x1),
                         Within(due.y - r.y, bounds.y0, bounds.y1), r.buttons)
      BY <1>3, <3>1 DEF psaux_intr
    <3>5. f.ovf = r.ovf /\ f.buttons = r.buttons /\ f.xsign = (r.x < 0) /\ f.ysign = (r.y < 0)
      BY DEF Flags
    <3>6. Signed(r.x < 0, r.x % 256) = r.x /\ Signed(r.y < 0, r.y % 256) = r.y
      <4> DEFINE u == r.x
                 v == r.y
      <4>1. u \in -256 .. 255 /\ v \in -256 .. 255
        BY <2>1, MouseAssumption
      <4> HIDE DEF u, v
      <4>2. Signed(u < 0, u % 256) = u /\ Signed(v < 0, v % 256) = v
        BY <4>1, SignedByte
      <4> QED
        BY <4>2 DEF u, v
    <3>7. Signed(f.xsign, x) = r.x /\ Signed(f.ysign, y) = r.y
      BY <3>5, <3>6 DEF XByte, YByte
    <3>8. due = At(mx, my, bnstate) /\ due.x = mx /\ due.y = my
      BY DEF MouseInv, At
    <3>9. due' = At(mx', my', bnstate')
      <4> HIDE DEF f, x, y
      <4>1. CASE r.ovf
        BY <3>3, <3>4, <3>5, <3>8, <4>1 DEF proc_mouse_data
      <4>2. CASE ~r.ovf
        <5>1. /\ bnstate' = r.buttons
              /\ mx' = Within(mx + r.x, bounds.x0, bounds.x1)
              /\ my' = Within(my - r.y, bounds.y0, bounds.y1)
          BY <3>3, <3>5, <3>7, <4>2 DEF proc_mouse_data
        <5> QED
          BY <3>4, <3>8, <4>2, <5>1
      <4> QED
        BY <4>1, <4>2
    <3> QED
      BY <3>3, <3>9 DEF MouseInv, TwoParts
  <2> QED
    BY <2>1, <2>2, <2>3, <2>4 DEF MouseInv, TwoParts
<1> QED
  BY <1>1, <1>2, <1>3 DEF MouseNext

LEMMA MouseStarts == MouseInit => MouseInv
BY DEF MouseInit, MouseInv, TwoParts

LEMMA PointerIsDue == MouseInv => PointerRight
<1> SUFFICES ASSUME MouseInv PROVE PointerRight
  OBVIOUS
<1>1. Len(data) + Len(wire) \in {0, 3}
  <2>1. TwoParts
    BY DEF MouseInv
  <2> DEFINE f == Flags(report)
             x == XByte(report)
             y == YByte(report)
  <2>2. \/ wire = << >> /\ data = << >>
        \/ data = << >> /\ wire = << f, x, y >>
        \/ data = << f >> /\ wire = << x, y >>
        \/ data = << f, x >> /\ wire = << y >>
    BY <2>1 DEF TwoParts
  <2> HIDE DEF f, x, y
  <2>3. \/ Len(wire) = 0 /\ Len(data) = 0
        \/ Len(data) = 0 /\ Len(wire) = 3
        \/ Len(data) = 1 /\ Len(wire) = 2
        \/ Len(data) = 2 /\ Len(wire) = 1
    BY <2>2
  <2> DEFINE a == Len(wire)
             b == Len(data)
  <2>4. (a = 0 /\ b = 0) \/ (b = 0 /\ a = 3) \/ (b = 1 /\ a = 2) \/ (b = 2 /\ a = 1)
    BY <2>3
  <2> HIDE DEF a, b
  <2>5. b + a \in {0, 3}
    BY <2>4
  <2> QED
    BY <2>5 DEF a, b
<1> QED
  BY <1>1 DEF MouseInv, PointerRight

(* All of it, while fewer bytes have been sent than linebuf has places: it  *)
(* is not overrun then; and the mouse pointer is where all the reports have *)
(* brought it, whatever bounds were set between their bytes.                *)
THEOREM BytesAreRight ==
  ASSUME MaxSent < LINEBUF
  PROVE  Spec => []BytesRight
<1> DEFINE SafeInv == SerialInv /\ overrunLine = FALSE /\ MouseInv
<1>1. Init => SafeInv
  BY SerialStarts, MouseStarts DEF Init, SerialInit
<1>2. SafeInv /\ [Next]_vars => SafeInv'
  <2>1. SerialInv /\ overrunLine = FALSE /\ UNCHANGED serialVars => SerialInv' /\ overrunLine' = FALSE
    <3>1. SUFFICES ASSUME SerialInv, overrunLine = FALSE, UNCHANGED serialVars
                   PROVE  SerialInv' /\ overrunLine' = FALSE
      OBVIOUS
    <3>2. QED
      BY <3>1, ReceiveErrorKeeps DEF serialVars, sentVars, lineHistory
  <2>2. SerialInv /\ overrunLine = FALSE /\ SerialNext => SerialInv' /\ overrunLine' = FALSE
    BY SerialStep, LinebufKeeps
  <2>3. MouseInv /\ UNCHANGED mouseVars => MouseInv'
    BY DEF mouseVars, MouseInv, TwoParts
  <2>4. UNCHANGED vars => UNCHANGED serialVars /\ UNCHANGED mouseVars
    BY DEF vars
  <2>5. QED
    BY <2>1, <2>2, <2>3, <2>4, Alone, MouseStep DEF StepOf
<1>3. SafeInv => BytesRight
  BY SerialGives, PointerIsDue DEF BytesRight, SerialRight
<1>4. QED
  BY <1>1, <1>2, <1>3, PTL DEF Spec

-----------------------------------------------------------------------------
(* The growing array: a descriptor with room for as many elements as it has *)
(* memory for                                                               *)
Room(a, S) ==
  /\ a = [nelem |-> a.nelem, mem |-> a.mem]
  /\ a.mem \in Seq(S) /\ a.nelem \in 0 .. Len(a.mem)
Elements(a) == SubSeq(a.mem, 1, a.nelem)

(* dynarr_resize to no less than the elements keeps them *)
LEMMA ResizeFacts ==
  ASSUME NEW S, Junk \in S, NEW a, Room(a, S), NEW n \in Nat, a.nelem <= n
  PROVE  LET r == [dynarr_resize(a, n) EXCEPT !.nelem = a.nelem] IN
         /\ Room(r, S) /\ r.nelem = a.nelem /\ Len(r.mem) = n
         /\ Elements(r) = Elements(a)
<1> DEFINE m == [i \in 1 .. n |-> IF i <= Len(a.mem) THEN a.mem[i] ELSE Junk]
           r == [dynarr_resize(a, n) EXCEPT !.nelem = a.nelem]
<1>1. r = [nelem |-> a.nelem, mem |-> m]
  <2> DEFINE d == dynarr_resize(a, n)
  <2>1. d = [nelem |-> n, mem |-> m]
    BY DEF dynarr_resize, max_elem
  <2>2. r = [d EXCEPT !.nelem = a.nelem]
    OBVIOUS
  <2> HIDE DEF d, m, r
  <2> QED
    BY <2>1, <2>2
<1>2. m \in Seq(S) /\ Len(m) = n
  <2>1. \A i \in 1 .. n : m[i] \in S
    BY DEF Room
  <2>2. m \in [1 .. n -> S]
    BY <2>1
  <2> QED
    BY <2>2
<1> HIDE DEF r
<1>3. r.nelem = a.nelem /\ r.mem = m
  BY <1>1
<1>4. Room(r, S)
  BY <1>1, <1>2, <1>3 DEF Room
<1>5. Elements(r) = Elements(a)
  <2>1. a.mem \in Seq(S) /\ a.nelem \in 0 .. Len(a.mem) /\ Len(a.mem) \in Nat
    BY DEF Room
  <2>2. \A i \in 1 .. a.nelem : m[i] = a.mem[i]
    BY <2>1
  <2>3. Elements(r) = [i \in 1 .. a.nelem |-> m[i]]
    BY <1>2, <1>3, <2>1 DEF Elements
  <2>4. Elements(a) = [i \in 1 .. a.nelem |-> a.mem[i]]
    BY <2>1 DEF Elements
  <2> QED
    BY <2>2, <2>3, <2>4
<1> QED
  BY <1>2, <1>3, <1>4, <1>5 DEF r

(* dynarr_push appends, or does nothing when it needs memory and gets none  *)
LEMMA PushFacts ==
  ASSUME NEW S, Junk \in S, NEW a, Room(a, S), NEW item \in S, NEW room \in BOOLEAN
  PROVE  LET r == dynarr_push(a, item, room) IN
         /\ Room(r, S)
         /\ \/ r = a /\ room = FALSE
            \/ r.nelem = a.nelem + 1 /\ Elements(r) = Append(Elements(a), item)
<1> DEFINE r == dynarr_push(a, item, room)
           n == IF Len(a.mem) = 0 THEN 1 ELSE 2 * Len(a.mem)
           g == IF a.nelem < Len(a.mem) THEN a ELSE [dynarr_resize(a, n) EXCEPT !.nelem = a.nelem]
<1>0. a.mem \in Seq(S) /\ a.nelem \in 0 .. Len(a.mem) /\ Len(a.mem) \in Nat
  BY DEF Room
<1>1. CASE a.nelem >= Len(a.mem) /\ room = FALSE
  BY <1>1 DEF dynarr_push, max_elem
<1>2. CASE ~(a.nelem >= Len(a.mem) /\ room = FALSE)
  <2>1. Room(g, S) /\ g.nelem = a.nelem /\ Elements(g) = Elements(a) /\ a.nelem < Len(g.mem)
    <3>1. CASE a.nelem < Len(a.mem)
      BY <3>1
    <3>2. CASE ~(a.nelem < Len(a.mem))
      <4>1. n \in Nat /\ a.nelem < n
        BY <1>0, <3>2
      <4> HIDE DEF n
      <4>2. a.nelem <= n
        BY <1>0, <4>1
      <4>3. g = [dynarr_resize(a, n) EXCEPT !.nelem = a.nelem]
        BY <3>2
      <4> QED
        BY <4>1, <4>2, <4>3, ResizeFacts
    <3> QED
      BY <3>1, <3>2
  <2>2. r = [nelem |-> g.nelem + 1, mem |-> [g.mem EXCEPT ![g.nelem + 1] = item]]
    BY <1>2 DEF dynarr_push, max_elem
  <2> HIDE DEF g, r, n
  <2> DEFINE m == [g.mem EXCEPT ![g.nelem + 1] = item]
             k == a.nelem
  <2>3. g.mem \in Seq(S) /\ g.nelem = k /\ k \in Nat /\ Len(g.mem) \in Nat /\ k + 1 \in 1 .. Len(g.mem)
    BY <1>0, <2>1 DEF Room
  <2>4. m \in Seq(S) /\ Len(m) = Len(g.mem) /\ m[k + 1] = item /\ \A i \in 1 .. k : m[i] = g.mem[i]
    BY <2>3
  <2>5. r.nelem = k + 1 /\ r.mem = m /\ r = [nelem |-> r.nelem, mem |-> r.mem]
    BY <2>2, <2>3
  <2> HIDE DEF m
  <2>6. Room(r, S)
    BY <2>3, <2>4, <2>5 DEF Room
  <2>7. Elements(r) = Append(Elements(g), item)
    <3>1. Elements(g) = [i \in 1 .. k |-> g.mem[i]] /\ Elements(g) \in Seq(S) /\ Len(Elements(g)) = k
      BY <2>3 DEF Elements
    <3>2. Elements(r) = [i \in 1 .. k + 1 |-> m[i]] /\ Elements(r) \in Seq(S) /\ Len(Elements(r)) = k + 1
      BY <2>3, <2>4, <2>5 DEF Elements
    <3> DEFINE e == Append(Elements(g), item)
    <3>3. e \in Seq(S) /\ Len(e) = k + 1 /\ e[k + 1] = item /\ \A i \in 1 .. k : e[i] = g.mem[i]
      BY <3>1, <2>3
    <3>4. \A i \in 1 .. k + 1 : Elements(r)[i] = e[i]
      BY <3>2, <3>3, <2>3, <2>4
    <3> HIDE DEF e
    <3>5. Elements(r) = e
      BY <3>2, <3>3, <3>4, SeqEqual
    <3> QED
      BY <3>5 DEF e
  <2> QED
    BY <2>1, <2>5, <2>6, <2>7 DEF r
<1> QED
  BY <1>1, <1>2

(* What dynarr_push makes of an array: the item is behind the others, or the *)
(* array is as it was, when there was no memory                             *)
PushGives(a, r, item) ==
  r = a \/ (r.nelem = a.nelem + 1 /\ Elements(r) = Append(Elements(a), item))
LEMMA PushDoes ==
  ASSUME NEW S, Junk \in S, NEW a, Room(a, S), NEW item \in S, NEW room \in BOOLEAN
  PROVE  Room(dynarr_push(a, item, room), S) /\ PushGives(a, dynarr_push(a, item, room), item)
BY PushFacts DEF PushGives

(* dynarr_pop drops the last one, or changes nothing *)
LEMMA PopFacts ==
  ASSUME NEW S, Junk \in S, NEW a, Room(a, S), a.nelem > 0, NEW room \in BOOLEAN
  PROVE  LET r == dynarr_pop(a, room) IN
         /\ Room(r, S)
         /\ \/ r = a
            \/ r.nelem = a.nelem - 1 /\ Elements(r) = SubSeq(Elements(a), 1, Len(Elements(a)) - 1)
<1> DEFINE r == dynarr_pop(a, room)
           n == Len(a.mem) \div 2
           g == IF Shrinks(a) THEN dynarr_resize(a, n) ELSE a
           k == a.nelem
<1>0. a.mem \in Seq(S) /\ k \in 1 .. Len(a.mem) /\ Len(a.mem) \in Nat /\ k \in Nat
  BY DEF Room
<1>1. CASE Shrinks(a) /\ room = FALSE
  BY <1>1 DEF dynarr_pop
<1>2. CASE ~(Shrinks(a) /\ room = FALSE)
  <2>1. g.mem \in Seq(S) /\ Len(g.mem) >= k /\ \A i \in 1 .. k : g.mem[i] = a.mem[i]
    <3>1. CASE Shrinks(a)
      <4>1. k <= n /\ n \in Nat
        <5>1. \A L \in Nat : L \div 2 \in Nat /\ L \div 3 \in Nat /\ L \div 3 <= L \div 2
          OBVIOUS
        <5>2. k <= Len(a.mem) \div 3
          BY <3>1 DEF Shrinks, max_elem
        <5>3. n \in Nat /\ Len(a.mem) \div 3 <= n
          BY <1>0, <5>1
        <5>4. Len(a.mem) \div 3 \in Nat
          BY <1>0, <5>1
        <5> DEFINE q == Len(a.mem) \div 3
        <5> HIDE DEF n, q
        <5>5. k <= q /\ q \in Nat /\ q <= n /\ n \in Nat
          BY <5>2, <5>3, <5>4 DEF q
        <5> QED
          BY <1>0, <5>5
      <4> HIDE DEF n
      <4> DEFINE m == [i \in 1 .. n |-> IF i <= Len(a.mem) THEN a.mem[i] ELSE Junk]
      <4>2. g.mem = m
        BY <3>1 DEF dynarr_resize, max_elem
      <4>3. \A i \in 1 .. n : m[i] \in S
        BY <1>0
      <4>4. m \in Seq(S) /\ Len(m) = n
        <5>1. m \in [1 .. n -> S]
          BY <4>3
        <5> QED
          BY <5>1, <4>1
      <4>5. \A i \in 1 .. k : m[i] = a.mem[i]
        BY <1>0, <4>1
      <4> QED
        BY <4>1, <4>2, <4>4, <4>5
    <3>2. CASE ~Shrinks(a)
      BY <1>0, <3>2
    <3> QED
      BY <3>1, <3>2
  <2>2. r = [nelem |-> k - 1, mem |-> g.mem]
    <3>1. r = [g EXCEPT !.nelem = k - 1]
      BY <1>0, <1>2 DEF dynarr_pop, max_elem
    <3>2. g = [nelem |-> g.nelem, mem |-> g.mem]
      BY DEF Room, dynarr_resize
    <3> QED
      BY <3>1, <3>2
  <2> HIDE DEF r, g, n
  <2>3. r.nelem = k - 1 /\ r.mem = g.mem /\ r = [nelem |-> r.nelem, mem |-> r.mem]
    BY <2>2
  <2>4. Room(r, S)
    BY <1>0, <2>1, <2>3 DEF Room
  <2>5. Elements(r) = SubSeq(Elements(a), 1, Len(Elements(a)) - 1)
    <3>1. Elements(a) = [i \in 1 .. k |-> a.mem[i]] /\ Elements(a) \in Seq(S) /\ Len(Elements(a)) = k
      BY <1>0 DEF Elements
    <3>2. Elements(r) = [i \in 1 .. k - 1 |-> g.mem[i]]
      BY <1>0, <2>1, <2>3 DEF Elements
    <3> DEFINE e == Elements(a)
    <3> HIDE DEF e
    <3>3. e \in Seq(S) /\ Len(e) = k /\ \A i \in 1 .. k : e[i] = a.mem[i]
      BY <3>1 DEF e
    <3>4. SubSeq(e, 1, Len(e) - 1) = [i \in 1 .. k - 1 |-> e[i]]
      BY <3>3, <1>0
    <3>5. \A i \in 1 .. k - 1 : e[i] = g.mem[i]
      BY <3>3, <1>0, <2>1
    <3> QED
      BY <3>2, <3>4, <3>5 DEF e
  <2> QED
    BY <2>3, <2>4, <2>5 DEF r
<1> QED
  BY <1>1, <1>2

DynInv == Room(da, Items \cup {Junk}) /\ pushed = Elements(da)

LEMMA DynStep == DynInv /\ StepOf(dynVars, DynNext) => DynInv'
<1> SUFFICES ASSUME DynInv, StepOf(dynVars, DynNext) PROVE DynInv'
  OBVIOUS
<1> DEFINE S == Items \cup {Junk}
<1>0. Junk \in S /\ da.nelem \in Nat
  BY DEF DynInv, Room
<1>1. CASE UNCHANGED dynVars
  BY <1>1 DEF dynVars, DynInv, Room, Elements
<1>2. ASSUME NEW item \in Items, NEW room \in BOOLEAN, Push(item, room) PROVE DynInv'
  <2> DEFINE r == dynarr_push(da, item, room)
  <2>1. item \in S /\ Room(da, S)
    BY DEF DynInv
  <2> HIDE DEF S
  <2>a. Junk \in S /\ Room(da, S) /\ item \in S /\ room \in BOOLEAN
    BY <1>0, <2>1
  <2>b. Room(dynarr_push(da, item, room), S)
    BY <2>a, PushDoes
  <2>2. /\ Room(r, S)
        /\ (r = da \/ (r.nelem = da.nelem + 1 /\ Elements(r) = Append(Elements(da), item)))
    <3>1. PushGives(da, r, item)
      BY <2>a, PushDoes
    <3>2. Room(r, S)
      BY <2>b
    <3> HIDE DEF r
    <3> QED
      BY <3>1, <3>2 DEF PushGives
  <2>3. da' = r
    BY <1>2 DEF Push
  <2> HIDE DEF r
  <2>4. pushed' = IF da'.nelem > da.nelem THEN Append(pushed, item) ELSE pushed
    BY <1>2 DEF Push
  <2>5. pushed' = Elements(r)
    BY <1>0, <2>2, <2>3, <2>4 DEF DynInv
  <2> QED
    BY <2>2, <2>3, <2>5 DEF DynInv, Elements, Room, S
<1>3. ASSUME NEW room \in BOOLEAN, Pop(room) PROVE DynInv'
  <2> DEFINE r == dynarr_pop(da, room)
  <2>1. Room(da, S) /\ da.nelem > 0
    BY <1>3 DEF DynInv, Pop
  <2> HIDE DEF S
  <2>2. /\ Room(r, S)
        /\ (r = da \/ (r.nelem = da.nelem - 1
                         /\ Elements(r) = SubSeq(Elements(da), 1, Len(Elements(da)) - 1)))
    BY <1>0, <2>1, PopFacts
  <2>3. da' = r
    BY <1>3 DEF Pop
  <2> HIDE DEF r
  <2>4. pushed' = IF da'.nelem < da.nelem THEN SubSeq(pushed, 1, Len(pushed) - 1) ELSE pushed
    BY <1>3 DEF Pop
  <2>5. pushed' = Elements(r)
    BY <1>0, <2>2, <2>3, <2>4 DEF DynInv
  <2> QED
    BY <2>2, <2>3, <2>5 DEF DynInv, Elements, Room, S
<1>4. ASSUME Clear PROVE DynInv'
  <2>1. da' = [nelem |-> 0, mem |-> << >>] /\ pushed' = << >>
    BY <1>4 DEF Clear, dynarr_resize
  <2> QED
    BY <2>1 DEF DynInv, Elements, Room
<1> QED
  BY <1>1, <1>2, <1>3, <1>4 DEF StepOf, DynNext
-----------------------------------------------------------------------------
(* The list of options.  s is the list from h by the links nx, of options   *)
(* up to n; later ones are behind earlier ones.                             *)
Linked(nx, h, s, n) ==
  /\ s \in Seq(1 .. n)
  /\ \A i, j \in 1 .. Len(s) : i < j => s[i] < s[j]
  /\ s = << >> => h = NULL
  /\ s # << >> => s[1] = h /\ nx[s[Len(s)]] = NULL
  /\ \A i \in 1 .. Len(s) - 1 : s[i + 1] = nx[s[i]]

(* From, as a function of the links *)
OptionsFrom(nx, o) ==
  LET link[k \in 1 .. MaxOpt] ==
        IF k = 1 THEN o ELSE IF link[k - 1] = NULL THEN NULL ELSE nx[link[k - 1]]
      len == Cardinality({ k \in 1 .. MaxOpt : link[k] # NULL })
  IN  [k \in 1 .. len |-> link[k]]

LEMMA ChainIs ==
  Chain = OptionsFrom(next, head) /\ Chain' = OptionsFrom(next', head')
<1>1. Chain = OptionsFrom(next, head)
  BY DEF Chain, From, OptionsFrom
<1>2. Chain' = OptionsFrom(next', head')
  BY DEF Chain, From, OptionsFrom
<1> QED
  BY <1>1, <1>2

(* An ascending list is no longer than the options there are *)
LEMMA LinkedFits ==
  ASSUME NEW nx, NEW h, NEW n \in Nat, NEW s, Linked(nx, h, s, n)
  PROVE  Len(s) <= n
<1>1. s \in Seq(1 .. n) /\ Len(s) \in Nat /\ \A i \in 1 .. Len(s) : s[i] \in 1 .. n
  BY DEF Linked
<1> DEFINE T == { k \in 1 .. Len(s) : ~(s[k] >= k) }
<1>2. ASSUME T # {} PROVE FALSE
  <2>1. T \in SUBSET Nat
    OBVIOUS
  <2>2. PICK k \in T : \A j \in T : k <= j
    BY <1>2, <2>1, Least
  <2>3. k \in 1 .. Len(s) /\ ~(s[k] >= k) /\ s[k] \in Nat /\ s[k] >= 1 /\ k \in Nat
    BY <1>1
  <2>4. k - 1 \in 1 .. Len(s) /\ k - 1 < k
    BY <1>1, <2>3
  <2>5. s[k - 1] >= k - 1 /\ s[k - 1] \in Nat
    BY <1>1, <2>2, <2>4
  <2>6. s[k - 1] < s[k]
    BY <2>3, <2>4 DEF Linked
  <2> QED
    BY <2>3, <2>5, <2>6
<1>3. CASE Len(s) = 0
  BY <1>3
<1>4. CASE Len(s) # 0
  <2>1. Len(s) \in 1 .. Len(s)
    BY <1>1, <1>4
  <2>2. s[Len(s)] >= Len(s) /\ s[Len(s)] \in 1 .. n
    BY <1>1, <1>2, <2>1
  <2> QED
    BY <1>1, <2>2
<1> QED
  BY <1>3, <1>4

(* The walk along the links finds the list, and stops behind it *)
LEMMA OptionsAre ==
  ASSUME NEW nx, NEW h, NEW n \in 0 .. MaxOpt, NEW s, Linked(nx, h, s, n)
  PROVE  OptionsFrom(nx, h) = s
<1> DEFINE Turn(g, k) == IF k = 1 THEN h ELSE IF g[k - 1] = NULL THEN NULL ELSE nx[g[k - 1]]
           Along(g) == g = [k \in 1 .. MaxOpt |-> Turn(g, k)]
           F == CHOOSE g : Along(g)
           W == [k \in 1 .. MaxOpt |-> IF k <= Len(s) THEN s[k] ELSE NULL]
           Used == { k \in 1 .. MaxOpt : F[k] # NULL }
<1>1. OptionsFrom(nx, h) = [k \in 1 .. Cardinality(Used) |-> F[k]]
  BY DEF OptionsFrom
<1>2. /\ s \in Seq(1 .. n) /\ Len(s) \in Nat /\ Len(s) <= MaxOpt
      /\ \A i \in 1 .. Len(s) : s[i] \in 1 .. n /\ s[i] # NULL
  <2>1. s \in Seq(1 .. n) /\ Len(s) \in Nat /\ \A i \in 1 .. Len(s) : s[i] \in 1 .. n
    BY DEF Linked
  <2>2. Len(s) <= n
    BY LinkedFits
  <2> QED
    BY <2>1, <2>2, CfgAssumption DEF NULL
<1>3. ASSUME NEW k \in 1 .. MaxOpt
      PROVE  W[k] = Turn(W, k)
  <2>1. CASE k = 1
    <3>1. CASE s = << >>
      <4>1. h = NULL
        BY <3>1 DEF Linked
      <4>. QED BY <2>1, <3>1, <4>1
    <3>2. CASE s # << >>
      <4>1. s # << >> /\ s[1] = h
        BY <3>2 DEF Linked
      <4>2. 1 <= Len(s)
        BY <1>2, <4>1
      <4>. QED BY <2>1, <4>1, <4>2
    <3>. QED BY <3>1, <3>2
  <2>2. CASE k # 1
    <3>1. k - 1 \in 1 .. MaxOpt /\ k \in Nat /\ (k - 1) + 1 = k
      BY <2>2, CfgAssumption
    <3>2. W[k - 1] = (IF k - 1 <= Len(s) THEN s[k - 1] ELSE NULL)
      BY <3>1
    <3>3. W[k] = (IF k <= Len(s) THEN s[k] ELSE NULL)
      OBVIOUS
    <3> HIDE DEF W
    <3>4. CASE k <= Len(s)
      <4>1. k - 1 \in 1 .. Len(s) - 1 /\ k - 1 \in 1 .. Len(s)
        BY <1>2, <3>1, <3>4
      <4>2. s[(k - 1) + 1] = nx[s[k - 1]] /\ s[k - 1] # NULL
        BY <1>2, <4>1 DEF Linked
      <4>. QED BY <2>2, <3>1, <3>2, <3>3, <3>4, <4>1, <4>2
    <3>5. CASE ~(k <= Len(s)) /\ k - 1 <= Len(s)
      <4>1. k - 1 = Len(s) /\ k - 1 \in 1 .. Len(s) /\ s # << >>
        BY <1>2, <3>1, <3>5
      <4>2. nx[s[k - 1]] = NULL
        BY <4>1 DEF Linked
      <4>. QED BY <2>2, <3>2, <3>3, <3>5, <4>2
    <3>6. CASE ~(k <= Len(s)) /\ ~(k - 1 <= Len(s))
      BY <2>2, <3>2, <3>3, <3>6
    <3>. QED BY <3>4, <3>5, <3>6
  <2>. QED BY <2>1, <2>2
<1>4. Along(W)
  <2>1. W = [k \in 1 .. MaxOpt |-> W[k]]
    OBVIOUS
  <2> HIDE DEF W, Turn
  <2>. QED BY <1>3, <2>1
<1>5. Along(F)
  <2> HIDE DEF Along, W
  <2>1. \E g : Along(g)
    BY <1>4
  <2>. QED BY <2>1
<1>6. \A k \in 1 .. MaxOpt : F[k] = Turn(F, k)
  <2> HIDE DEF F, Turn
  <2>. QED BY <1>5
<1> HIDE DEF F, W, Along
<1>7. ASSUME NEW k \in 1 .. MaxOpt, k # 1 => F[k - 1] = W[k - 1]
      PROVE  F[k] = W[k]
  <2>1. F[k] = Turn(F, k) /\ W[k] = Turn(W, k)
    BY <1>3, <1>6
  <2>2. Turn(F, k) = Turn(W, k)
    BY <1>7
  <2> HIDE DEF Turn
  <2>. QED BY <2>1, <2>2
<1>8. \A k \in 1 .. MaxOpt : F[k] = W[k]
  <2> DEFINE T == {k \in 1 .. MaxOpt : F[k] # W[k]}
  <2>1. SUFFICES ASSUME T # {} PROVE FALSE
    OBVIOUS
  <2>2. T \in SUBSET Nat
    BY CfgAssumption
  <2>3. PICK k \in T : \A j \in T : k <= j
    BY <2>1, <2>2, Least
  <2>4. k \in 1 .. MaxOpt /\ F[k] # W[k] /\ k \in Nat
    BY <2>2
  <2>5. k # 1 => k - 1 \in 1 .. MaxOpt /\ ~(k <= k - 1)
    BY <2>4, CfgAssumption
  <2>6. k # 1 => F[k - 1] = W[k - 1]
    BY <2>3, <2>5
  <2>. QED BY <1>7, <2>4, <2>6
<1>9. Used = 1 .. Len(s)
  <2>1. \A k \in 1 .. MaxOpt : F[k] # NULL <=> k <= Len(s)
    <3>1. ASSUME NEW k \in 1 .. MaxOpt
          PROVE  F[k] # NULL <=> k <= Len(s)
      <4>1. F[k] = IF k <= Len(s) THEN s[k] ELSE NULL
        BY <1>8 DEF W
      <4>2. k <= Len(s) => k \in 1 .. Len(s)
        BY <1>2, CfgAssumption
      <4>. QED BY <1>2, <4>1, <4>2
    <3>. QED BY <3>1
  <2>. QED BY <1>2, <2>1, CfgAssumption
<1>10. Cardinality(Used) = Len(s)
  <2> DEFINE L == Len(s)
  <2>0. L \in Nat
    BY <1>2
  <2> HIDE DEF L
  <2>1. Cardinality(1 .. L) = L
    BY <2>0, FS_Interval
  <2>. QED BY <1>9, <2>1 DEF L
<1>11. \A k \in 1 .. Len(s) : F[k] = s[k]
  BY <1>2, <1>8, CfgAssumption DEF W
<1>12. OptionsFrom(nx, h) = [k \in 1 .. Len(s) |-> s[k]]
  BY <1>1, <1>10, <1>11
<1>. QED BY <1>2, <1>12

(* RemoveAt of the community modules, index by index *)
LEMMA RemoveAtIs ==
  ASSUME NEW S, NEW s \in Seq(S), NEW k \in 1 .. Len(s)
  PROVE  RemoveAt(s, k) = [i \in 1 .. Len(s) - 1 |-> IF i < k THEN s[i] ELSE s[i + 1]]
<1> DEFINE u == SubSeq(s, 1, k - 1)
           v == SubSeq(s, k + 1, Len(s))
           t == [i \in 1 .. Len(s) - 1 |-> IF i < k THEN s[i] ELSE s[i + 1]]
<1>1. Len(s) \in Nat /\ k \in Nat /\ k >= 1 /\ k <= Len(s)
  OBVIOUS
<1>2. u \in Seq(S) /\ Len(u) = k - 1 /\ \A i \in 1 .. k - 1 : u[i] = s[i]
  BY <1>1
<1>3. v \in Seq(S) /\ Len(v) = Len(s) - k /\ \A i \in 1 .. Len(s) - k : v[i] = s[k + i]
  BY <1>1
<1>4. RemoveAt(s, k) = u \o v
  BY DEF RemoveAt
<1> HIDE DEF u, v
<1>5. u \o v \in Seq(S) /\ Len(u \o v) = Len(s) - 1
  <2>1. u \o v \in Seq(S) /\ Len(u \o v) = Len(u) + Len(v)
    BY <1>2, <1>3, ConcatProperties
  <2> QED
    BY <1>1, <1>2, <1>3, <2>1
<1>6. t \in Seq(S) /\ Len(t) = Len(s) - 1
  <2>1. \A i \in 1 .. Len(s) - 1 : t[i] \in S
    BY <1>1
  <2>2. t \in [1 .. Len(s) - 1 -> S]
    BY <2>1
  <2> QED
    BY <1>1, <2>2
<1>7. ASSUME NEW i \in 1 .. Len(s) - 1 PROVE (u \o v)[i] = t[i]
  <2>1. CASE i < k
    <3>1. (u \o v)[i] = u[i]
      BY <1>1, <1>2, <1>3, <2>1
    <3>2. i \in 1 .. k - 1
      BY <1>1, <2>1
    <3> QED
      BY <1>2, <2>1, <3>1, <3>2
  <2>2. CASE ~(i < k)
    <3>1. (u \o v)[i] = v[i - Len(u)]
      BY <1>1, <1>2, <1>3, <2>2
    <3>2. i - Len(u) = i - k + 1 /\ i - k + 1 \in 1 .. Len(s) - k
      BY <1>1, <1>2, <2>2
    <3>3. v[i - k + 1] = s[k + (i - k + 1)] /\ k + (i - k + 1) = i + 1
      BY <1>1, <1>3, <3>2
    <3> QED
      BY <2>2, <3>1, <3>2, <3>3
  <2> QED
    BY <2>1, <2>2
<1> HIDE DEF t
<1>8. u \o v = t
  BY <1>5, <1>6, <1>7, SeqEqual
<1> QED
  BY <1>4, <1>8 DEF t

(* The first with a key is the index of one *)
LEMMA FirstWithFacts ==
  ASSUME NEW all, DOMAIN all \in SUBSET Nat, NEW key, FirstWith(all, key) # 0
  PROVE  FirstWith(all, key) \in DOMAIN all
<1> DEFINE hits == { k \in DOMAIN all : all[k].key = key }
<1>1. hits # {} /\ FirstWith(all, key) = CHOOSE k \in hits : \A j \in hits : k <= j
  BY DEF FirstWith
<1>2. hits \in SUBSET Nat
  OBVIOUS
<1> HIDE DEF hits
<1>3. \E k \in hits : \A j \in hits : k <= j
  BY <1>1, <1>2, Least
<1>4. FirstWith(all, key) \in hits
  BY <1>1, <1>3
<1> QED
  BY <1>4 DEF hits

(* The list is ascending and ends where its links end, tail is its last     *)
(* option where it has one, and an option not allocated yet links to none.  *)
Setting == [key : Keys, val : Values]
CfgInv ==
  /\ rest \in Seq(Setting \cup {Skipped})
  /\ opt \in Seq(Setting) /\ Len(opt) <= MaxOpt
  /\ next \in [Opts -> Opts \cup {NULL}]
  /\ \A o \in Opts : o > Len(opt) => next[o] = NULL
  /\ tail \in Opts \cup {NULL, Dummy}
  /\ Linked(next, head, Chain, Len(opt))
  /\ Chain # << >> => tail = Last(Chain)
  /\ kept = OptionsInOrder

(* The chain after a step is the list shown to be linked after it *)
LEMMA NowLinked ==
  ASSUME NEW s, Len(opt') \in 0 .. MaxOpt, Linked(next', head', s, Len(opt'))
  PROVE  Chain' = s
BY ChainIs, OptionsAre

LEMMA CfgStarts == Init => CfgInv
<1> SUFFICES ASSUME Init PROVE CfgInv
  OBVIOUS
<1>1. CfgInit(Given("cfg", CfgFiles, Some.cfgs))
  BY DEF Init
<1>2. Some.cfgs = One(CfgFiles) /\ One(CfgFiles) \in CfgFiles
  BY CfgAssumption DEF Some, One
<1>3. Given("cfg", CfgFiles, Some.cfgs) \subseteq CfgFiles
  BY <1>2 DEF Given
<1>4. rest \in CfgFiles /\ opt = << >> /\ next = [o \in Opts |-> NULL] /\ head = NULL /\ tail = NULL /\ kept = << >>
  BY <1>1, <1>3 DEF CfgInit
<1>5. Linked(next, head, << >>, 0)
  BY <1>4 DEF Linked
<1>6. Chain = << >>
  BY <1>5, ChainIs, OptionsAre, CfgAssumption
<1>7. OptionsInOrder = << >>
  BY <1>6 DEF OptionsInOrder
<1>8. rest \in Seq(Setting \cup {Skipped})
  BY <1>4, CfgAssumption DEF Setting
<1> QED
  BY <1>4, <1>5, <1>6, <1>7, <1>8, CfgAssumption DEF CfgInv

(* The options of the chain are what is kept *)
LEMMA ChainFacts ==
  ASSUME CfgInv
  PROVE  /\ Chain \in Seq(1 .. Len(opt)) /\ Len(Chain) \in Nat /\ Len(opt) \in Nat
         /\ \A i \in 1 .. Len(Chain) : Chain[i] \in 1 .. Len(opt) /\ Chain[i] \in Opts
         /\ kept \in Seq(Setting) /\ Len(kept) = Len(Chain)
         /\ \A i \in 1 .. Len(Chain) : kept[i] = opt[Chain[i]]
         /\ Len(opt) <= MaxOpt /\ MaxOpt \in Nat
<1>1. Chain \in Seq(1 .. Len(opt)) /\ Len(opt) \in Nat /\ Len(opt) <= MaxOpt /\ MaxOpt \in Nat
  BY CfgAssumption DEF CfgInv, Linked
<1>2. Len(Chain) \in Nat /\ DOMAIN Chain = 1 .. Len(Chain) /\ \A i \in 1 .. Len(Chain) : Chain[i] \in 1 .. Len(opt)
  BY <1>1
<1>3. \A i \in 1 .. Len(Chain) : Chain[i] \in Opts
  BY <1>1, <1>2 DEF Opts
<1>4. kept = [k \in 1 .. Len(Chain) |-> opt[Chain[k]]]
  BY <1>2 DEF CfgInv, OptionsInOrder
<1>5. \A i \in 1 .. Len(Chain) : opt[Chain[i]] \in Setting
  BY <1>2 DEF CfgInv
<1>6. kept \in [1 .. Len(Chain) -> Setting]
  BY <1>4, <1>5
<1> QED
  BY <1>1, <1>2, <1>3, <1>4, <1>6

(* cfg_setstr links the new option behind the last *)
LEMMA SetKeeps ==
  ASSUME CfgInv, NEW key \in Keys, NEW val \in Values, cfg_setstr(key, val),
         rest' \in Seq(Setting \cup {Skipped})
  PROVE  CfgInv'
<1> DEFINE n == Len(opt)
           o == n + 1
           s == Chain
           t == Append(s, o)
           e == [key |-> key, val |-> val]
<1>1. /\ s \in Seq(1 .. n) /\ Len(s) \in Nat /\ n \in Nat
      /\ \A i \in 1 .. Len(s) : s[i] \in 1 .. n /\ s[i] \in Opts
      /\ n <= MaxOpt /\ MaxOpt \in Nat
  BY ChainFacts
<1>2. o \in Opts /\ opt' = Append(opt, e) /\ tail' = o /\ kept' = Append(kept, opt'[o])
      /\ (head # NULL => next' = [next EXCEPT ![tail] = o] /\ head' = head)
      /\ (head = NULL => head' = o /\ next' = next)
  BY DEF cfg_setstr
<1>3. opt' \in Seq(Setting) /\ Len(opt') = o /\ opt'[o] = e /\ e \in Setting /\ \A i \in 1 .. n : opt'[i] = opt[i]
  BY <1>1, <1>2 DEF CfgInv, Setting
<1>4. o <= MaxOpt /\ o \in Nat /\ n < o /\ o >= 1
  BY <1>1, <1>2 DEF Opts
<1>5. next \in [Opts -> Opts \cup {NULL}] /\ next[o] = NULL
  BY <1>2, <1>4 DEF CfgInv
<1>6. (s = << >> => head = NULL) /\ (s # << >> => s[1] = head /\ next[s[Len(s)]] = NULL /\ tail = s[Len(s)])
  BY <1>1 DEF CfgInv, Linked, Last
<1>7. \A i, j \in 1 .. Len(s) : i < j => s[i] < s[j]
  BY DEF CfgInv, Linked
<1>8. \A i \in 1 .. Len(s) - 1 : s[i + 1] = next[s[i]]
  BY DEF CfgInv, Linked
<1> HIDE DEF n, s, e
<1>9. /\ t \in Seq(1 .. o) /\ Len(t) = Len(s) + 1 /\ t[Len(s) + 1] = o /\ \A i \in 1 .. Len(s) : t[i] = s[i]
  <2>1. s \in Seq(1 .. o)
    <3>1. \A i \in 1 .. Len(s) : s[i] \in 1 .. o
      BY <1>1, <1>4
    <3> QED
      BY <1>1, <3>1
  <2>2. o \in 1 .. o
    BY <1>4
  <2> HIDE DEF o
  <2> QED
    BY <1>1, <2>1, <2>2
<1> HIDE DEF o, t
<1>10. /\ next' \in [Opts -> Opts \cup {NULL}] /\ next'[o] = NULL
       /\ s # << >> => next'[s[Len(s)]] = o
       /\ \A i \in 1 .. Len(s) - 1 : next'[s[i]] = next[s[i]]
       /\ \A x \in Opts : x > o => next'[x] = NULL
  <2>0. \A x \in Opts : x > o => next[x] = NULL
    BY <1>1, <1>4 DEF CfgInv, Opts, n
  <2>1. CASE s = << >>
    BY <1>1, <1>2, <1>5, <1>6, <2>0, <2>1
  <2>2. CASE s # << >>
    <3>1. Len(s) \in 1 .. Len(s)
      BY <1>1, <2>2
    <3>2. s[Len(s)] \in Opts /\ s[Len(s)] \in 1 .. n
      BY <1>1, <3>1
    <3>3. s[Len(s)] # o /\ head # NULL
      <4>1. 1 \in 1 .. Len(s)
        BY <1>1, <3>1
      <4>2. s[1] \in 1 .. n
        BY <1>1, <4>1
      <4> QED
        BY <1>1, <1>4, <1>6, <2>2, <3>2, <4>2 DEF NULL
    <3>4. next' = [next EXCEPT ![s[Len(s)]] = o]
      BY <1>2, <1>6, <2>2, <3>3
    <3>5. \A i \in 1 .. Len(s) - 1 : s[i] # s[Len(s)] /\ s[i] \in Opts
      <4>1. \A i \in 1 .. Len(s) - 1 : i \in 1 .. Len(s) /\ i < Len(s)
        BY <1>1
      <4>2. \A i \in 1 .. Len(s) - 1 : s[i] < s[Len(s)] /\ s[i] \in Nat
        BY <1>1, <1>7, <3>1, <4>1
      <4> QED
        BY <1>1, <3>2, <4>1, <4>2
    <3>6. \A x \in Opts : x > o => x # s[Len(s)]
      BY <1>1, <1>4, <3>2 DEF Opts
    <3> QED
      BY <1>2, <1>5, <2>0, <3>2, <3>3, <3>4, <3>5, <3>6
  <2> QED
    BY <2>1, <2>2
<1>11. Linked(next', head', t, o)
  <2>1. ASSUME NEW i \in 1 .. Len(t), NEW j \in 1 .. Len(t), i < j PROVE t[i] < t[j]
    <3>1. i \in 1 .. Len(s) /\ t[i] = s[i] /\ s[i] \in 1 .. n
      BY <1>1, <1>9, <2>1
    <3>2. CASE j = Len(s) + 1
      BY <1>1, <1>4, <1>9, <3>1, <3>2
    <3>3. CASE j # Len(s) + 1
      <4>1. j \in 1 .. Len(s)
        BY <1>1, <1>9, <3>3
      <4> QED
        BY <1>7, <1>9, <2>1, <3>1, <4>1
    <3> QED
      BY <3>2, <3>3
  <2>2. t # << >> /\ t[1] = head' /\ next'[t[Len(t)]] = NULL
    <3>1. t # << >> /\ t[Len(t)] = o
      BY <1>1, <1>9
    <3>2. CASE s = << >>
      <4>1. Len(s) = 0
        BY <3>2
      <4>2. t[1] = o /\ head' = o
        BY <1>2, <1>6, <1>9, <3>2, <4>1
      <4> QED
        BY <1>10, <3>1, <4>2
    <3>3. CASE s # << >>
      <4>1. 1 \in 1 .. Len(s)
        BY <1>1, <3>3
      <4>2. s[1] \in 1 .. n /\ s[1] # NULL
        BY <1>1, <4>1 DEF NULL
      <4>3. t[1] = s[1] /\ head' = head
        BY <1>2, <1>6, <1>9, <3>3, <4>1, <4>2
      <4> QED
        BY <1>6, <1>10, <3>1, <3>3, <4>3
    <3> QED
      BY <3>2, <3>3
  <2>3. ASSUME NEW i \in 1 .. Len(t) - 1 PROVE t[i + 1] = next'[t[i]]
    <3>1. i \in 1 .. Len(s) /\ t[i] = s[i]
      BY <1>1, <1>9
    <3>2. CASE i = Len(s)
      BY <1>1, <1>9, <1>10, <3>1, <3>2
    <3>3. CASE i # Len(s)
      <4>1. i \in 1 .. Len(s) - 1 /\ i + 1 \in 1 .. Len(s)
        BY <1>1, <3>1, <3>3
      <4> QED
        BY <1>8, <1>9, <1>10, <3>1, <4>1
    <3> QED
      BY <3>2, <3>3
  <2> QED
    BY <1>9, <2>1, <2>2, <2>3 DEF Linked
<1>12. Chain' = t
  <2>1. Len(opt') \in 0 .. MaxOpt /\ Linked(next', head', t, Len(opt'))
    BY <1>3, <1>4, <1>11
  <2> QED
    BY <2>1, NowLinked
<1>13. Last(t) = o
  BY <1>1, <1>9 DEF Last
<1>14. kept' = OptionsInOrder'
  <2>1. kept \in Seq(Setting) /\ Len(kept) = Len(s) /\ \A i \in 1 .. Len(s) : kept[i] = opt[s[i]]
    BY ChainFacts DEF s
  <2>2. OptionsInOrder' = [k \in DOMAIN t |-> opt'[t[k]]]
    BY <1>12 DEF OptionsInOrder
  <2>3. DOMAIN t = 1 .. Len(s) + 1
    BY <1>9
  <2>4. kept' \in Seq(Setting) /\ Len(kept') = Len(s) + 1
        /\ \A k \in 1 .. Len(s) + 1 : kept'[k] = IF k = Len(s) + 1 THEN e ELSE kept[k]
    <3>1. kept' = Append(kept, e)
      BY <1>2, <1>3
    <3> DEFINE q == kept
               w == Append(q, e)
    <3>2. q \in Seq(Setting) /\ Len(q) = Len(s)
      BY <2>1
    <3> HIDE DEF q
    <3>3. w \in Seq(Setting) /\ Len(w) = Len(q) + 1 /\ \A k \in 1 .. Len(q) : w[k] = q[k]
      BY <1>3, <3>2, AppendProperties
    <3>4. w[Len(q) + 1] = e
      BY <1>3, <3>2, AppendProperties
    <3> HIDE DEF w
    <3>5. \A k \in 1 .. Len(s) + 1 : w[k] = IF k = Len(s) + 1 THEN e ELSE q[k]
      BY <1>1, <3>2, <3>3, <3>4
    <3> QED
      BY <3>1, <3>2, <3>3, <3>5 DEF q, w
  <2>5. ASSUME NEW k \in 1 .. Len(s) + 1 PROVE opt'[t[k]] = IF k = Len(s) + 1 THEN e ELSE kept[k]
    <3>1. CASE k = Len(s) + 1
      BY <1>3, <1>9, <3>1
    <3>2. CASE k # Len(s) + 1
      <4>1. k \in 1 .. Len(s)
        BY <1>1, <3>2
      <4>2. t[k] = s[k] /\ s[k] \in 1 .. n
        BY <1>1, <1>9, <4>1
      <4> QED
        BY <1>3, <2>1, <3>2, <4>1, <4>2
    <3> QED
      BY <3>1, <3>2
  <2>6. kept' = [k \in 1 .. Len(s) + 1 |-> kept'[k]]
    BY <1>1, <2>4
  <2>7. \A k \in 1 .. Len(s) + 1 : kept'[k] = opt'[t[k]]
    BY <2>4, <2>5
  <2> QED
    BY <2>2, <2>3, <2>6, <2>7
<1>15. Linked(next', head', Chain', Len(opt'))
  BY <1>3, <1>11, <1>12
<1>16. \A x \in Opts : x > Len(opt') => next'[x] = NULL
  BY <1>3, <1>10
<1>17. Chain' # << >> => tail' = Last(Chain')
  BY <1>2, <1>12, <1>13
<1> QED
  BY <1>2, <1>3, <1>4, <1>10, <1>14, <1>15, <1>16, <1>17 DEF CfgInv

(* Where the list is ascending, the option before one of its options is the
   one at the index before. *)
LEMMA BeforeIs ==
  ASSUME CfgInv, NEW k \in 1 .. Len(Chain)
  PROVE  Before(Chain[k]) = IF k = 1 THEN Dummy ELSE Chain[k - 1]
<1> DEFINE s == Chain
           SameAs(j) == s[j] = s[k]
           spot == CHOOSE j \in DOMAIN s : SameAs(j)
<1>1. /\ DOMAIN s = 1 .. Len(s) /\ Len(s) \in Nat
      /\ \A i \in 1 .. Len(s) : s[i] \in Nat
  BY ChainFacts
<1>2. \A i, j \in 1 .. Len(s) : i < j => s[i] < s[j]
  BY DEF CfgInv, Linked
<1>3. Before(s[k]) = IF spot = 1 THEN Dummy ELSE s[spot - 1]
  BY DEF Before
<1>4. k \in 1 .. Len(s) /\ k \in DOMAIN s
  BY <1>1
<1>5. spot \in DOMAIN s /\ SameAs(spot)
  BY <1>4
<1> HIDE DEF s, spot
<1>6. spot = k
  <2>1. spot \in Nat /\ k \in Nat /\ spot \in 1 .. Len(s)
    BY <1>1, <1>4, <1>5
  <2>2. ~(spot < k) /\ ~(k < spot)
    <3>1. s[spot] \in Nat /\ s[k] \in Nat
      BY <1>1, <1>4, <2>1
    <3> QED
      BY <1>2, <1>4, <1>5, <2>1, <3>1
  <2> QED
    BY <2>1, <2>2
<1> QED
  BY <1>3, <1>6 DEF s

(* Unlinking the k-th of the options leaves the others linked. *)
LessOne(s, k) == [i \in 1 .. Len(s) - 1 |-> IF i < k THEN s[i] ELSE s[i + 1]]

LEMMA LessOneFacts ==
  ASSUME NEW S, NEW s \in Seq(S), NEW k \in 1 .. Len(s)
  PROVE  /\ LessOne(s, k) \in Seq(S) /\ Len(LessOne(s, k)) = Len(s) - 1
         /\ Len(s) \in Nat /\ Len(s) >= 1 /\ k \in Nat /\ k >= 1 /\ k <= Len(s)
         /\ \A i \in 1 .. Len(s) - 1 : LessOne(s, k)[i] = IF i < k THEN s[i] ELSE s[i + 1]
<1> DEFINE t == LessOne(s, k)
<1>1. Len(s) \in Nat /\ Len(s) >= 1 /\ k \in Nat /\ k >= 1 /\ k <= Len(s) /\ \A i \in 1 .. Len(s) : s[i] \in S
  OBVIOUS
<1>2. t = [i \in 1 .. Len(s) - 1 |-> IF i < k THEN s[i] ELSE s[i + 1]]
  BY DEF LessOne
<1>3. \A i \in 1 .. Len(s) - 1 : (IF i < k THEN s[i] ELSE s[i + 1]) \in S
  <2> TAKE i \in 1 .. Len(s) - 1
  <2>1. i \in 1 .. Len(s) /\ i + 1 \in 1 .. Len(s)
    BY <1>1
  <2> QED
    BY <1>1, <2>1
<1> HIDE DEF t
<1>4. t \in [1 .. Len(s) - 1 -> S]
  BY <1>2, <1>3
<1>5. Len(s) - 1 \in Nat
  BY <1>1
<1>6. t \in Seq(S) /\ Len(t) = Len(s) - 1
  BY <1>2, <1>4, <1>5
<1>7. \A i \in 1 .. Len(s) - 1 : t[i] = IF i < k THEN s[i] ELSE s[i + 1]
  BY <1>2
<1> QED
  BY <1>1, <1>6, <1>7 DEF t

LEMMA StillLinked ==
  ASSUME NEW nx \in [Opts -> Opts \cup {NULL}], NEW h, NEW n \in 0 .. MaxOpt, NEW s,
         Linked(nx, h, s, n), NEW k \in 1 .. Len(s),
         NEW nx2, NEW h2,
         k = 1 => (nx2 = nx /\ h2 = nx[s[k]]),
         k # 1 => (nx2 = [nx EXCEPT ![s[k - 1]] = nx[s[k]]] /\ h2 = h)
  PROVE  Linked(nx2, h2, LessOne(s, k), n)
<1> DEFINE t == LessOne(s, k)
           m == Len(s)
<1>1. s \in Seq(1 .. n) /\ m \in Nat /\ n \in Nat /\ MaxOpt \in Nat /\ n <= MaxOpt /\ m >= 1
      /\ k \in Nat /\ k >= 1 /\ k <= m
  BY CfgAssumption DEF Linked
<1>2. \A i \in 1 .. m : s[i] \in 1 .. n /\ s[i] \in Opts /\ s[i] \in Nat
  <2> TAKE i \in 1 .. m
  <2>1. s[i] \in 1 .. n
    BY <1>1
  <2> QED
    BY <1>1, <2>1 DEF Opts
<1>3. t \in Seq(1 .. n) /\ Len(t) = m - 1 /\ \A i \in 1 .. m - 1 : t[i] = IF i < k THEN s[i] ELSE s[i + 1]
  <2> DEFINE S == 1 .. n
  <2>1. s \in Seq(S)
    BY <1>1
  <2> HIDE DEF S
  <2>2. /\ LessOne(s, k) \in Seq(S) /\ Len(LessOne(s, k)) = Len(s) - 1
        /\ \A i \in 1 .. Len(s) - 1 : LessOne(s, k)[i] = IF i < k THEN s[i] ELSE s[i + 1]
    BY <2>1, LessOneFacts
  <2> QED
    BY <2>2 DEF S
<1>4. s # << >> /\ s[1] = h /\ nx[s[m]] = NULL
  <2>1. s # << >>
    BY <1>1
  <2> QED
    BY <2>1 DEF Linked
<1>5. \A i \in 1 .. m - 1 : s[i + 1] = nx[s[i]]
  BY DEF Linked
<1>6. \A i, j \in 1 .. m : i < j => s[i] < s[j]
  BY DEF Linked
<1> HIDE DEF m, t
<1>7. \A i \in 1 .. m - 1 : i \in 1 .. m /\ i + 1 \in 1 .. m /\ i \in Nat
  BY <1>1
<1>8. ASSUME NEW i \in 1 .. m - 1, NEW j \in 1 .. m - 1, i < j PROVE t[i] < t[j]
  <2>1. i \in 1 .. m /\ i + 1 \in 1 .. m /\ i \in Nat /\ j \in 1 .. m /\ j + 1 \in 1 .. m /\ j \in Nat
    BY <1>7
  <2>2. s[i] < s[j] /\ s[i] < s[j + 1] /\ s[i + 1] < s[j + 1]
    BY <1>6, <1>8, <2>1
  <2>3. t[i] = (IF i < k THEN s[i] ELSE s[i + 1]) /\ t[j] = (IF j < k THEN s[j] ELSE s[j + 1])
    BY <1>3
  <2>4. i >= k => j >= k
    BY <1>1, <1>8, <2>1
  <2> QED
    BY <1>1, <2>1, <2>2, <2>3, <2>4
<1>9. \A i, j \in 1 .. Len(t) : i < j => t[i] < t[j]
  BY <1>3, <1>8
(* where nx2 differs from nx *)
<1>10. ASSUME NEW i \in 1 .. m, k # 1 => i # k - 1 PROVE nx2[s[i]] = nx[s[i]]
  <2>1. CASE k = 1
    BY <2>1
  <2>2. CASE k # 1
    <3>1. k - 1 \in 1 .. m /\ i \in Nat /\ k - 1 \in Nat
      BY <1>1, <2>2
    <3>2. i < k - 1 \/ k - 1 < i
      BY <1>10, <2>2, <3>1
    <3>3. s[i] < s[k - 1] \/ s[k - 1] < s[i]
      BY <1>6, <3>1, <3>2
    <3>4. s[i] # s[k - 1] /\ s[i] \in Opts
      BY <1>2, <3>1, <3>3
    <3> QED
      BY <2>2, <3>4
  <2> QED
    BY <2>1, <2>2
<1>11. k # 1 => nx2[s[k - 1]] = nx[s[k]]
  <2> SUFFICES ASSUME k # 1 PROVE nx2[s[k - 1]] = nx[s[k]]
    OBVIOUS
  <2>1. k - 1 \in 1 .. m
    BY <1>1
  <2>2. s[k - 1] \in Opts
    BY <1>2, <2>1
  <2> QED
    BY <2>2
<1>12. k < m => s[k + 1] = nx[s[k]]
  <2> SUFFICES ASSUME k < m PROVE s[k + 1] = nx[s[k]]
    OBVIOUS
  <2>1. k \in 1 .. m - 1
    BY <1>1
  <2> QED
    BY <1>5, <2>1
<1>13. ASSUME NEW i \in 1 .. Len(t) - 1 PROVE t[i + 1] = nx2[t[i]]
  <2>1. i \in Nat /\ i \in 1 .. m - 1 /\ i + 1 \in 1 .. m - 1 /\ i \in 1 .. m /\ i + 1 \in 1 .. m /\ (i + 1) + 1 = i + 2
        /\ i + 1 <= m - 1
    <3>1. Len(t) = m - 1 /\ m \in Nat
      BY <1>1, <1>3
    <3> DEFINE len == Len(t)
    <3> HIDE DEF len
    <3>2. i \in 1 .. len - 1 /\ len = m - 1
      BY <3>1 DEF len
    <3> QED
      BY <3>1, <3>2
  <2>2. t[i] = (IF i < k THEN s[i] ELSE s[i + 1]) /\ t[i + 1] = (IF i + 1 < k THEN s[i + 1] ELSE s[(i + 1) + 1])
    BY <1>3, <2>1
  <2>3. s[i + 1] = nx[s[i]] /\ s[(i + 1) + 1] = nx[s[i + 1]]
    BY <1>5, <2>1
  <2>4. CASE i + 1 < k
    <3>1. nx2[s[i]] = nx[s[i]]
      <4>1. k # 1 => i # k - 1
        BY <1>1, <2>1, <2>4
      <4> QED
        BY <1>10, <2>1, <4>1
    <3>2. i < k
      BY <1>1, <2>1, <2>4
    <3> QED
      BY <2>2, <2>3, <2>4, <3>1, <3>2
  <2>5. CASE i + 1 = k
    <3>1. k # 1 /\ i = k - 1 /\ k < m /\ i < k /\ ~(i + 1 < k)
      BY <1>1, <2>1, <2>5
    <3>2. t[i] = s[k - 1] /\ t[i + 1] = s[k + 1]
      BY <2>2, <2>5, <3>1
    <3> QED
      BY <1>11, <1>12, <3>1, <3>2
  <2>6. CASE i >= k
    <3>1. ~(i < k) /\ ~(i + 1 < k) /\ (k # 1 => i + 1 # k - 1)
      BY <1>1, <2>1, <2>6
    <3>2. nx2[s[i + 1]] = nx[s[i + 1]]
      BY <1>10, <2>1, <3>1
    <3> QED
      BY <2>2, <2>3, <3>1, <3>2
  <2> QED
    BY <1>1, <2>1, <2>4, <2>5, <2>6
<1>14. t = << >> => h2 = NULL
  <2> SUFFICES ASSUME t = << >> PROVE h2 = NULL
    OBVIOUS
  <2>1. Len(t) = 0
    OBVIOUS
  <2>2. m = 1 /\ k = 1
    BY <1>1, <1>3, <2>1
  <2> QED
    BY <1>4, <2>2
<1>15. t # << >> => t[1] = h2
  <2> SUFFICES ASSUME t # << >> PROVE t[1] = h2
    OBVIOUS
  <2>1. Len(t) # 0
    BY <1>3
  <2>2. m > 1 /\ 1 \in 1 .. m - 1
    BY <1>1, <1>3, <2>1
  <2>3. t[1] = IF 1 < k THEN s[1] ELSE s[2]
    BY <1>3, <2>2
  <2>4. CASE k = 1
    BY <1>12, <2>2, <2>3, <2>4
  <2>5. CASE k # 1
    BY <1>1, <1>4, <2>3, <2>5
  <2> QED
    BY <2>4, <2>5
<1>16. t # << >> => nx2[t[Len(t)]] = NULL
  <2> SUFFICES ASSUME t # << >> PROVE nx2[t[Len(t)]] = NULL
    OBVIOUS
  <2>1. Len(t) # 0
    BY <1>3
  <2>2. m > 1 /\ m - 1 \in 1 .. m - 1 /\ Len(t) = m - 1 /\ (m - 1) + 1 = m /\ m \in 1 .. m
    BY <1>1, <1>3, <2>1
  <2>3. t[m - 1] = IF m - 1 < k THEN s[m - 1] ELSE s[m]
    BY <1>3, <2>2
  <2>4. CASE k = m
    <3>1. t[m - 1] = s[k - 1] /\ k # 1
      BY <1>1, <2>2, <2>3, <2>4
    <3> QED
      BY <1>4, <1>11, <2>2, <2>4, <3>1
  <2>5. CASE k # m
    <3>1. ~(m - 1 < k) /\ (k # 1 => m # k - 1)
      BY <1>1, <2>5
    <3>2. nx2[s[m]] = nx[s[m]]
      BY <1>10, <2>2, <3>1
    <3> QED
      BY <1>4, <2>2, <2>3, <3>1, <3>2
  <2> QED
    BY <2>4, <2>5
<1> QED
  BY <1>3, <1>9, <1>13, <1>14, <1>15, <1>16 DEF Linked, t

LEMMA SameOptions ==
  ASSUME CfgInv, UNCHANGED << opt, next, head, tail, kept >>, rest' \in Seq(Setting \cup {Skipped})
  PROVE  CfgInv'
<1>1. Chain' = Chain
  BY ChainIs
<1>2. OptionsInOrder' = OptionsInOrder
  BY <1>1 DEF OptionsInOrder
<1> QED
  BY <1>1, <1>2 DEF CfgInv

(* cfg_remove takes out the first with the key and mends the tail *)
LEMMA RemoveKeeps ==
  ASSUME CfgInv, NEW key \in Keys, cfg_remove(key)
  PROVE  CfgInv'
<1> DEFINE n == Len(opt)
           s == Chain
           k == FirstWith(OptionsInOrder, key)
           m == Len(s)
           t == LessOne(s, k)
           o == s[k]
<1>1. /\ s \in Seq(1 .. n) /\ m \in Nat /\ n \in Nat
      /\ \A i \in 1 .. m : s[i] \in 1 .. n /\ s[i] \in Opts
      /\ n <= MaxOpt /\ MaxOpt \in Nat
  BY ChainFacts
<1>2. DOMAIN OptionsInOrder = 1 .. m
  BY <1>1 DEF OptionsInOrder
<1>3. k \in 1 .. m /\ cfg_getopt(key) = o
  <2>1. cfg_getopt(key) = IF k = 0 THEN NULL ELSE s[k]
    BY DEF cfg_getopt
  <2>2. cfg_getopt(key) # NULL
    BY DEF cfg_remove
  <2>3. k # 0
    BY <2>1, <2>2
  <2>4. 1 .. m \in SUBSET Nat
    BY <1>1
  <2>5. DOMAIN OptionsInOrder \in SUBSET Nat
    BY <1>2, <2>4
  <2>6. k \in DOMAIN OptionsInOrder
    BY <2>3, <2>5, FirstWithFacts
  <2> QED
    BY <1>2, <2>1, <2>3, <2>6
<1>4. Before(o) = IF k = 1 THEN Dummy ELSE s[k - 1]
  BY <1>3, BeforeIs
<1>5. /\ (Before(o) = Dummy => head' = next[o] /\ next' = next)
      /\ (Before(o) # Dummy => next' = [next EXCEPT ![Before(o)] = next[o]] /\ head' = head)
      /\ tail' = (IF tail = o THEN Before(o) ELSE tail)
      /\ rest' = rest /\ opt' = opt
  BY <1>3 DEF cfg_remove, TailWithout
<1>6. kept' = RemoveAt(kept, k)
  <2>1. kept = OptionsInOrder
    BY DEF CfgInv
  <2> QED
    BY <2>1 DEF cfg_remove
<1>7. /\ kept \in Seq(Setting) /\ Len(kept) = m
      /\ \A i \in 1 .. m : kept[i] = opt[s[i]]
  BY ChainFacts
<1>8. Linked(next, head, s, n) /\ next \in [Opts -> Opts \cup {NULL}] /\ n \in 0 .. MaxOpt
  BY <1>1 DEF CfgInv
<1>9. s # << >> => tail = s[m]
  BY DEF CfgInv, Last
<1>10. tail \in Opts \cup {NULL, Dummy} /\ \A x \in Opts : x > n => next[x] = NULL
  BY DEF CfgInv
<1> HIDE DEF s, k
<1>11. /\ t \in Seq(1 .. n) /\ Len(t) = m - 1 /\ m >= 1 /\ k \in Nat /\ k >= 1 /\ k <= m
       /\ \A i \in 1 .. m - 1 : t[i] = IF i < k THEN s[i] ELSE s[i + 1]
  BY <1>1, <1>3, LessOneFacts
<1>12. kept' = [i \in 1 .. m - 1 |-> IF i < k THEN kept[i] ELSE kept[i + 1]]
  <2> DEFINE q == kept
  <2>1. q \in Seq(Setting) /\ Len(q) = m /\ k \in 1 .. Len(q)
    BY <1>3, <1>7
  <2> HIDE DEF q, m
  <2>2. RemoveAt(q, k) = [i \in 1 .. Len(q) - 1 |-> IF i < k THEN q[i] ELSE q[i + 1]]
    BY <2>1, RemoveAtIs
  <2> QED
    BY <1>6, <2>1, <2>2 DEF q
<1>13. s # << >> /\ tail = s[m]
  <2>1. s # << >>
    BY <1>1, <1>11
  <2> QED
    BY <1>9, <2>1
<1> HIDE DEF n, m, t
<1>14. o \in 1 .. n /\ o \in Opts
  BY <1>1, <1>3
<1>15. k # 1 => k - 1 \in 1 .. m /\ s[k - 1] \in Opts /\ s[k - 1] # Dummy
  <2> SUFFICES ASSUME k # 1 PROVE k - 1 \in 1 .. m /\ s[k - 1] \in Opts /\ s[k - 1] # Dummy
    OBVIOUS
  <2>1. k - 1 \in 1 .. m
    BY <1>11, <1>1
  <2>2. s[k - 1] \in 1 .. n /\ s[k - 1] \in Opts
    BY <1>1, <2>1
  <2>3. s[k - 1] # Dummy
    BY <1>1, <2>2 DEF Dummy
  <2> QED
    BY <2>1, <2>2, <2>3
<1> HIDE DEF o
<1>16. (k = 1 => (next' = next /\ head' = next[o]))
       /\ (k # 1 => (next' = [next EXCEPT ![s[k - 1]] = next[o]] /\ head' = head))
  BY <1>4, <1>5, <1>15
<1>17. Linked(next', head', t, n)
  <2> DEFINE nx2 == next'
             h2 == head'
  <2>1. (k = 1 => (nx2 = next /\ h2 = next[s[k]]))
       /\ (k # 1 => (nx2 = [next EXCEPT ![s[k - 1]] = next[s[k]]] /\ h2 = head))
    BY <1>16 DEF o
  <2>2. k \in 1 .. Len(s)
    BY <1>3 DEF m
  <2> HIDE DEF nx2, h2
  <2>3. Linked(nx2, h2, LessOne(s, k), n)
    BY <1>8, <2>1, <2>2, StillLinked
  <2> QED
    BY <2>3 DEF nx2, h2, t
<1>18. Len(opt') = n
  BY <1>5 DEF n
<1>19. Chain' = t
  <2>1. Len(opt') \in 0 .. MaxOpt /\ Linked(next', head', t, Len(opt'))
    BY <1>8, <1>17, <1>18
  <2> QED
    BY <2>1, NowLinked
<1>20. next' \in [Opts -> Opts \cup {NULL}] /\ \A x \in Opts : x > n => next'[x] = NULL
  <2>1. next[o] \in Opts \cup {NULL}
    BY <1>8, <1>14
  <2>2. k # 1 => s[k - 1] \in 1 .. n
    BY <1>1, <1>15
  <2>3. k # 1 => ~(s[k - 1] > n)
    BY <1>1, <2>2
  <2> QED
    BY <1>8, <1>10, <1>15, <1>16, <2>1, <2>3
<1>21. tail' \in Opts \cup {NULL, Dummy}
  BY <1>4, <1>5, <1>10, <1>15
<1>22. t # << >> => tail' = Last(t)
  <2> SUFFICES ASSUME t # << >> PROVE tail' = Last(t)
    OBVIOUS
  <2>1. Len(t) # 0
    BY <1>11
  <2>2. m - 1 \in 1 .. m - 1 /\ (m - 1) + 1 = m /\ m \in 1 .. m /\ m > 1
    BY <1>1, <1>11, <2>1
  <2>3. Last(t) = t[m - 1] /\ t[m - 1] = IF m - 1 < k THEN s[m - 1] ELSE s[m]
    BY <1>11, <2>2 DEF Last
  <2>4. CASE k = m
    <3>1. m - 1 < k /\ k # 1 /\ k - 1 = m - 1
      BY <1>1, <1>11, <2>2, <2>4
    <3>2. tail = o /\ Before(o) = s[m - 1]
      BY <1>4, <1>13, <2>4, <3>1 DEF o
    <3> QED
      BY <1>5, <2>3, <3>1, <3>2
  <2>5. CASE k # m
    <3>1. ~(m - 1 < k) /\ k < m
      BY <1>1, <1>11, <2>2, <2>5
    <3>2. s[k] < s[m]
      BY <1>3, <1>8, <2>2, <3>1 DEF Linked, m
    <3>3. s[k] \in Nat /\ s[m] \in Nat
      BY <1>1, <1>3, <2>2
    <3>4. tail # o
      BY <1>13, <3>2, <3>3 DEF o
    <3> QED
      BY <1>5, <1>13, <2>3, <3>1, <3>4
  <2> QED
    BY <2>4, <2>5
<1>23. kept' = OptionsInOrder'
  <2>1. OptionsInOrder' = [i \in DOMAIN t |-> opt'[t[i]]]
    BY <1>19 DEF OptionsInOrder
  <2>2. DOMAIN t = 1 .. m - 1
    BY <1>1, <1>11
  <2>3. ASSUME NEW i \in 1 .. m - 1
        PROVE (IF i < k THEN kept[i] ELSE kept[i + 1]) = opt'[t[i]]
    <3>1. i \in 1 .. m /\ i + 1 \in 1 .. m
      BY <1>1
    <3> QED
      BY <1>5, <1>7, <1>11, <3>1
  <2> QED
    BY <1>12, <2>1, <2>2, <2>3
<1>24. Chain' # << >> => tail' = Last(Chain')
  BY <1>19, <1>22
<1>25. Linked(next', head', Chain', Len(opt'))
  BY <1>17, <1>18, <1>19
<1>26. \A x \in Opts : x > Len(opt') => next'[x] = NULL
  BY <1>18, <1>20
<1>27. opt' \in Seq(Setting) /\ Len(opt') <= MaxOpt /\ rest' \in Seq(Setting \cup {Skipped})
  BY <1>5 DEF CfgInv
<1> QED
  BY <1>20, <1>21, <1>23, <1>24, <1>25, <1>26, <1>27 DEF CfgInv

LEMMA CfgStep ==
  ASSUME CfgInv, StepOf(cfgVars, CfgNext)
  PROVE  CfgInv'
<1>1. CASE LoadLine
  <2>1. rest # << >> /\ rest' = Tail(rest) /\ Head(rest) \in Setting \cup {Skipped} /\ rest' \in Seq(Setting \cup {Skipped})
    BY <1>1 DEF LoadLine, CfgInv
  <2>2. CASE Head(rest) = Skipped
    <3>1. UNCHANGED << opt, next, head, tail, kept >>
      BY <1>1, <2>2 DEF LoadLine
    <3> QED
      BY <2>1, <3>1, SameOptions
  <2>3. CASE Head(rest) # Skipped
    <3>1. cfg_setstr(Head(rest).key, Head(rest).val)
      BY <1>1, <2>3 DEF LoadLine
    <3>2. Head(rest).key \in Keys /\ Head(rest).val \in Values
      BY <2>1, <2>3 DEF Setting
    <3> QED
      BY <2>1, <3>1, <3>2, SetKeeps
  <2> QED
    BY <2>2, <2>3
<1>2. CASE NoMemory
  <2>1. rest' \in Seq(Setting \cup {Skipped}) /\ UNCHANGED << opt, next, head, tail, kept >>
    BY <1>2 DEF NoMemory, CfgInv
  <2> QED
    BY <2>1, SameOptions
<1>3. CASE SetStr
  <2>1. PICK key \in Keys, val \in Values : cfg_setstr(key, val)
    BY <1>3 DEF SetStr
  <2>2. rest' \in Seq(Setting \cup {Skipped})
    BY <1>3 DEF SetStr, CfgInv
  <2> QED
    BY <2>1, <2>2, SetKeeps
<1>4. ASSUME NEW key \in Keys, cfg_remove(key) PROVE CfgInv'
  BY <1>4, RemoveKeeps
<1>5. CASE UNCHANGED cfgVars
  <2>1. rest' \in Seq(Setting \cup {Skipped}) /\ UNCHANGED << opt, next, head, tail, kept >>
    BY <1>5 DEF cfgVars, CfgInv
  <2> QED
    BY <2>1, SameOptions
<1> QED
  BY <1>1, <1>2, <1>3, <1>4, <1>5 DEF StepOf, CfgNext

LEMMA ListsStart == Init => DynInv /\ CfgInv
<1>1. DynInit => DynInv
  <2> SUFFICES ASSUME DynInit PROVE DynInv
    OBVIOUS
  <2>1. da = [nelem |-> 0, mem |-> << >>] /\ pushed = << >>
    BY DEF DynInit, Empty
  <2>2. Len(da.mem) = 0 /\ da.mem = << >> /\ da.nelem = 0
    BY <2>1
  <2>3. Room(da, Items \cup {Junk})
    BY <2>1, <2>2 DEF Room
  <2>4. Elements(da) = << >>
    BY <2>2 DEF Elements
  <2> QED
    BY <2>1, <2>3, <2>4 DEF DynInv
<1> QED
  BY <1>1, CfgStarts DEF Init

(* The array holds what was pushed and not popped, with memory running out  *)
(* at any of its calls and after any history of its size; the list holds    *)
(* what was set and not removed, in its order, whatever was removed before  *)
(* something was added.                                                     *)
THEOREM ListsAreRight == Spec => []ListsRight
<1>1. Init => DynInv /\ CfgInv
  BY ListsStart
<1>2. DynInv /\ CfgInv /\ [Next]_vars => (DynInv /\ CfgInv)'
  <2> SUFFICES ASSUME DynInv, CfgInv, [Next]_vars PROVE DynInv' /\ CfgInv'
    OBVIOUS
  <2>1. UNCHANGED vars => UNCHANGED dynVars /\ UNCHANGED cfgVars
    BY DEF vars
  <2>2. StepOf(dynVars, DynNext) /\ StepOf(cfgVars, CfgNext)
    BY <2>1, Alone DEF StepOf
  <2> QED
    BY <2>2, DynStep, CfgStep
<1>3. DynInv /\ CfgInv => ListsRight
  <2> SUFFICES ASSUME DynInv, CfgInv PROVE ListsRight
    OBVIOUS
  <2>1. DynRight
    BY DEF DynInv, DynRight, DynTypeOK, Room, Elements, max_elem
  <2>2. CfgRight
    <3>1. opt \in Seq([key : Keys, val : Values]) /\ next \in [Opts -> Opts \cup {NULL}]
          /\ tail \in Opts \cup {NULL, Dummy}
      BY DEF CfgInv, Setting
    <3>2. head \in Opts \cup {NULL}
      <4>1. CASE Chain = << >>
        BY <4>1 DEF CfgInv, Linked
      <4>2. CASE Chain # << >>
        <5>1. 1 \in 1 .. Len(Chain)
          BY <4>2, ChainFacts
        <5>2. Chain[1] \in Opts /\ Chain[1] = head
          BY <4>2, <5>1, ChainFacts DEF CfgInv, Linked
        <5> QED
          BY <5>2
      <4> QED
        BY <4>1, <4>2
    <3>3. OptionsInOrder = kept /\ (Chain # << >> => tail = Last(Chain))
      BY DEF CfgInv
    <3> QED
      BY <3>1, <3>2, <3>3 DEF CfgRight, CfgTypeOK
  <2> QED
    BY <2>1, <2>2 DEF ListsRight
<1>4. QED
  BY <1>1, <1>2, <1>3, PTL DEF Spec
=============================================================================
