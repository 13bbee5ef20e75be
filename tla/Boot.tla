-------------------------------- MODULE Boot --------------------------------
(***************************************************************************)
(* The boot loader (src/boot/boot.s and boot2.s).  The boot sector asks the *)
(* BIOS for the drive's geometry and reads the second stage sector by       *)
(* sector; the second stage turns address line 20 on, asks the BIOS for the *)
(* memory map by one of three calls, and reads the kernel to 1MB, a track   *)
(* at a time.  A read may fail, and is tried three times.                   *)
(*                                                                          *)
(* A sector's contents are its number on the drive.                         *)
(***************************************************************************)
EXTENDS Integers, Sequences

CONSTANTS
  SECT,                     (* bytes of a sector: 512                       *)
  CHUNK,                    (* sectors in 64KB: 128                         *)
  Boot2Size, MainSize,      (* _boot2_size and _main_size, in bytes         *)
  DefaultDrive,             (* the geometry assumed: 18 sectors, 2 heads    *)
  Drives,                   (* geometries a drive may have                  *)
  MemoryMaps,               (* the regions the BIOS may report              *)
  MAP_MAX,                  (* entries of boot_mem_map: 16                  *)
  M1, M16, LIMIT            (* 1MB, 16MB and 4GB, in units of memory        *)

ASSUME BootAssumption ==
  /\ SECT \in Nat \ {0} /\ CHUNK \in Nat \ {0} /\ {Boot2Size, MainSize} \subseteq Nat
  /\ Boot2Size % SECT = 0      (* 256boss.ld pads it *)
  /\ DefaultDrive \in Drives /\ \A d \in Drives : d.spt \in Nat \ {0} /\ d.heads \in Nat \ {0}
  /\ M1 \in Nat /\ M16 \in M1 .. LIMIT /\ LIMIT \in Nat
  /\ MemoryMaps # {} /\ MemoryMaps \subseteq Seq([base : Nat, size : Nat, type : Nat])

VARIABLES
  stage,          (* what the loader is at                                  *)
  drive, geom,    (* the drive, and what the loader believes it is          *)
  es, bx,         (* where the next sector goes, in sectors                 *)
  nsect,          (* sectors of the second stage that were read             *)
  tries,          (* read_retries                                           *)
  low,            (* memory at boot2_addr, by sectors                       *)
  high,           (* memory at main_load_addr                               *)
  a20, ways,      (* line 20, and what would turn it on                     *)
  regions, works, (* RAM by address, and the calls the BIOS has: "chs" (int *)
                  (*  13h, ah = 8) and those for the memory                 *)
  region,         (* how many regions it has reported                       *)
  boot_mem_map,   (* its first boot_mem_map_size entries                    *)
  ivt0,           (* the first vector at address 0                          *)
  cur_track, trk_sect, sect_left, dest_ptr

readVars == << es, bx, nsect, low >>
memVars == << region, boot_mem_map, ivt0 >>
trackVars == << cur_track, trk_sect, sect_left, dest_ptr, high >>
machine == << drive, ways, regions, works >>
bootVars == << stage, geom, tries, a20, machine, readVars, memVars, trackVars >>

Boot2Sectors == Boot2Size \div SECT + (IF Boot2Size % SECT = 0 THEN 0 ELSE 1)
MainSectors == (MainSize + SECT - 1) \div SECT
FirstSector == (Boot2Size + SECT - 1) \div SECT + 1
Unset == -1

BootInit(drives, maps, how, calls) ==
  /\ stage = "chs" /\ drive \in drives /\ geom = DefaultDrive
  /\ es = 0 /\ bx = 0 /\ nsect = 0 /\ tries = 3 /\ low = [i \in 0 .. Boot2Sectors |-> Unset]
  /\ a20 = FALSE /\ ways \in how /\ regions \in maps /\ works \in calls
  /\ region = 0 /\ boot_mem_map = << >> /\ ivt0 = "bios"
  /\ cur_track = 0 /\ trk_sect = 0 /\ sect_left = 0 /\ dest_ptr = 0
  /\ high = [i \in 0 .. MainSectors + 7 |-> Unset]

-----------------------------------------------------------------------------
(* The BIOS reads n sectors of a track, if the first is there.  It may go   *)
(* on with the next track at the end of one, or fail.                       *)
Exists(c, h, s) == h < drive.heads /\ s \in 1 .. drive.spt
NumberOf(c, h, s) == (c * drive.heads + h) * drive.spt + s - 1

(* get_drive_chs: without an answer the defaults stay, whatever the drive is *)
get_drive_chs ==
  /\ stage = "chs" /\ stage' = "boot2"
  /\ geom' = IF "chs" \in works THEN drive ELSE geom
  /\ UNCHANGED << tries, a20, machine, readVars, memVars, trackVars >>

(* A read that failed is tried again, after a reset of the controller       *)
SectorFails ==
  /\ (stage = "boot2" /\ nsect < Boot2Sectors) \/ stage = "main"
  /\ tries' = tries - 1 /\ stage' = IF tries = 1 THEN "halted" ELSE stage
  /\ UNCHANGED << geom, a20, machine, readVars, memVars, trackVars >>

(* the AND of two bytes *)
CommonBit(a, b, bit) == ((a \div bit) % 2) * ((b \div bit) % 2) * bit
AndBytes(a, b) ==
  CommonBit(a, b, 1) + CommonBit(a, b, 2) + CommonBit(a, b, 4) + CommonBit(a, b, 8)
    + CommonBit(a, b, 16) + CommonBit(a, b, 32) + CommonBit(a, b, 64) + CommonBit(a, b, 128)
HeadOf(track) == AndBytes(track % 256, geom.heads - 1)     (* heads_mask *)

(* read_sector: one sector, and es:bx behind it *)
read_sector ==
  /\ stage = "boot2" /\ nsect < Boot2Sectors
  /\ LET sidx == nsect + 1
         track == sidx \div geom.spt
         c == track \div geom.heads
         h == HeadOf(track)
         s == (sidx % geom.spt) + 1
     IN  /\ Exists(c, h, s)
         /\ low' = [low EXCEPT ![es + bx] = NumberOf(c, h, s)]
  /\ bx' = (bx + 1) % CHUNK /\ es' = IF bx + 1 = CHUNK THEN es + CHUNK ELSE es
  /\ nsect' = nsect + 1 /\ tries' = 3
  /\ UNCHANGED << stage, geom, a20, machine, memVars, trackVars >>

JumpToBoot2 ==
  /\ stage = "boot2" /\ nsect = Boot2Sectors
  /\ stage' = "a20"
  /\ UNCHANGED << geom, tries, a20, machine, readVars, memVars, trackVars >>

-----------------------------------------------------------------------------
(* enable_a20: the keyboard controller and port 92h in turn, until the test *)
(* of the line succeeds                                                     *)
enable_a20 ==
  /\ stage = "a20"
  /\ \/ a20 /\ stage' = "e820" /\ UNCHANGED a20
     \/ ~a20 /\ \E way \in {"kbd", "fast"} : a20' = (way \in ways) /\ UNCHANGED stage
  /\ UNCHANGED << geom, tries, machine, readVars, memVars, trackVars >>

(* detect_mem_e820: one region; a failure is the end if it is not the first *)
Usable(r) == r.type = 1 /\ r.base < LIMIT /\ r.size > 0
Taken(r) == [start |-> r.base, size |-> IF r.size >= LIMIT THEN LIMIT - 1 ELSE r.size]
AfterE820(map) == IF map = << >> THEN "e801" ELSE "load"
detect_mem_e820 ==
  /\ stage = "e820"
  /\ IF "e820" \in works /\ region < Len(regions)
     THEN LET r == regions[region + 1] IN
          /\ region' = region + 1
          /\ boot_mem_map' = IF Usable(r) THEN Append(boot_mem_map, Taken(r)) ELSE boot_mem_map
          /\ \/ stage' = "e820"
             \/ region' = Len(regions) /\ stage' = "load"     (* ebx is 0 *)
     ELSE stage' = AfterE820(boot_mem_map) /\ UNCHANGED << region, boot_mem_map >>
  /\ UNCHANGED << ivt0, geom, tries, a20, machine, readVars, trackVars >>

RAM == { a \in 0 .. LIMIT - 1 :
           \E i \in DOMAIN regions :
             regions[i].type = 1 /\ a \in regions[i].base .. regions[i].base + regions[i].size - 1 }
(* memory from an address on, in one piece *)
Contiguous(a, most) == CHOOSE n \in 0 .. most :
  a .. a + n - 1 \subseteq RAM /\ (n = most \/ a + n \notin RAM)

(* detect_mem_e801: what is below 16MB, and what is above.  It writes 0 to  *)
(* where the value of boot_mem_map_size points.                             *)
detect_mem_e801 ==
  /\ stage = "e801"
  /\ ivt0' = IF Len(boot_mem_map) = 0 THEN "zero" ELSE ivt0
  /\ LET lo == Contiguous(M1, M16 - M1)
         hi == Contiguous(M16, LIMIT - M16)
         below == << [start |-> M1, size |-> lo] >>
         above == IF hi = 0 THEN << >> ELSE << [start |-> M16, size |-> hi] >>
     IN  IF "e801" \in works /\ lo # 0
         THEN boot_mem_map' = below \o above /\ stage' = "load"
         ELSE stage' = "88" /\ UNCHANGED boot_mem_map
  /\ UNCHANGED << region, geom, tries, a20, machine, readVars, trackVars >>

detect_mem_88 ==
  /\ stage = "88"
  /\ LET size == Contiguous(M1, LIMIT - M1) IN
       IF "88" \in works /\ size # 0
       THEN boot_mem_map' = << [start |-> M1, size |-> size] >> /\ stage' = "load"
       ELSE stage' = "halted" /\ UNCHANGED boot_mem_map
  /\ UNCHANGED << region, ivt0, geom, tries, a20, machine, readVars, trackVars >>

-----------------------------------------------------------------------------
(* load_main: the rest of the second stage's last track, then whole tracks  *)
load_main ==
  /\ stage = "load" /\ stage' = "main"
  /\ cur_track' = FirstSector \div geom.spt /\ trk_sect' = FirstSector % geom.spt
  /\ sect_left' = MainSectors /\ dest_ptr' = 0
  /\ tries' = 3
  /\ UNCHANGED << geom, a20, machine, readVars, memVars, high >>

BugSameSector(sector) == sector
NextFrom(sector) == 0
read_track ==
  /\ stage = "main"
  /\ LET c == cur_track \div geom.heads
         h == cur_track % geom.heads
         n == geom.spt - trk_sect
     IN  /\ Exists(c, h, trk_sect + 1)
         /\ high' = [i \in DOMAIN high |->
              IF i - dest_ptr \in 0 .. n - 1 THEN NumberOf(c, h, trk_sect + 1) + i - dest_ptr ELSE high[i]]
         /\ dest_ptr' = dest_ptr + n
         /\ sect_left' = sect_left - n
         /\ stage' = IF sect_left > n THEN "main" ELSE "kernel"
  /\ cur_track' = cur_track + 1 /\ trk_sect' = NextFrom(trk_sect)
  /\ tries' = 3
  /\ UNCHANGED << geom, a20, machine, readVars, memVars >>

BootNext ==
  \/ get_drive_chs \/ SectorFails \/ read_sector \/ JumpToBoot2 \/ enable_a20
  \/ detect_mem_e820 \/ detect_mem_e801 \/ detect_mem_88 \/ load_main \/ read_track

-----------------------------------------------------------------------------
Covered == UNION { boot_mem_map[i].start .. boot_mem_map[i].start + boot_mem_map[i].size - 1
                   : i \in DOMAIN boot_mem_map }
MapRight ==
  /\ Covered \intersect (0 .. LIMIT - 1) \subseteq RAM
  /\ region > 0 => RAM \ {LIMIT - 1} \subseteq Covered

(* The second stage is run when all of it is where it should be, and the    *)
(* kernel when the whole of it is at 1MB.                                   *)
SectorsRight ==
  /\ stage \notin {"chs", "boot2", "halted"} => \A i \in 0 .. Boot2Sectors - 1 : low[i] = 1 + i
  /\ stage = "kernel" => \A i \in 0 .. MainSectors - 1 : high[i] = FirstSector + i

(* That is so when the BIOS tells the geometry, or it is the default one;   *)
(* and always the line is on before the kernel is read, and the memory map  *)
(* lists RAM only (all of it, where the BIOS tells the regions).            *)
GeometryKnown == "chs" \in works \/ drive = DefaultDrive
BootRight ==
  /\ GeometryKnown => SectorsRight
  /\ stage \in {"load", "main", "kernel"} => a20 /\ MapRight

(* The map fits its 16 entries *)
MapFits == Len(boot_mem_map) <= MAP_MAX

(* Address 0 is the BIOS's *)
VectorKept == ivt0 = "bios"

BootDone == stage \in {"kernel", "halted"}
=============================================================================
