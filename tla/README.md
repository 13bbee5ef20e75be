# A TLA+ model of 256boss

256boss (pcboot) is a bootable 32-bit kernel for PC demos and games: one CPU, no
tasks, no memory protection, the program linked into the kernel. Its only
concurrency is between the main thread and the interrupt handlers (timer,
keyboard, PS/2 mouse, serial port, sound card), and between both and the devices
behind them. Paths below are relative to `src/src/` unless they start with `src/`.

## 1. Inventory

### 1.1 Start-up and the main loop

The boot sector loads the second stage, which loads the kernel. `kmain.c` then
runs, in this order: `init_segm`, `init_intr`, `con_init`, `kb_init`,
`init_psaux`, `init_mem`, `init_timer`, `init_rtc`, `enable_intr`, `bdev_init`,
`mount_boot_fs`, `init_datapath`, `fsv_init`, the splash screen, and then the debug
shell, a loop of `halt_cpu` and "drain `kb_getkey` into `sh_input`". Everything before
`enable_intr` runs without interrupts; everything after it can be interrupted at
any instruction that is not between `disable_intr` and `set_intr_flag`.

### 1.2 Components

| component | source | state | operations | what makes it correct |
|---|---|---|---|---|
| boot loader | `boot/boot.s`, `boot/boot2.s` | geometry, place of the next sector, `boot_mem_map` | reads of both stages, A20, the memory calls | the kernel's sectors are at 1MB, or the loader says that it failed; the map is the BIOS' |
| page allocator | `mem.c` | page bitmap, `last_alloc_idx` | `init_mem`, `alloc_ppages`, `alloc_ppage_range`, `free_ppage(s)` | a page is in one hand; the search start never hides a free page; only RAM is handed out |
| heap | `libc/malloc.c` | address-ordered free list, block descriptors | `malloc`, `free`, `calloc`, `realloc` | blocks do not overlap; every byte is free or allocated; a block is as large as asked |
| timer | `timer.c` | delta list of alarms, `nticks` | `set_alarm`, `cancel_alarm`, IRQ 0 | every alarm fires exactly at its tick, unless cancelled |
| keyboard | `keyb.c` | 64-entry ring, key states, `ext` prefix | `kb_getkey`, `kb_putback`, `kb_wait`, `kb_isdown`, IRQ 1, controller commands | keys come out in order, only the oldest are dropped |
| PS/2 mouse | `psaux.c` | packet buffer and index, position, buttons | IRQ 12, `mouse_state`, `set_mouse_bounds` | packets stay aligned, position inside the bounds |
| interrupts | `intr.c`, `intr_asm.S`, `lowcode.s`, `int86.h` | `eoi_pending`, handler table, PIC mode | dispatch, `end_of_irq`, real-mode calls | every IRQ is acknowledged once; the flag is restored |
| serial | `serial.c` | per-port 256-byte ring, line buffer | `ser_open/close/putc/getc/getline`, IRQ 3/4 | bytes arrive once and in order |
| boot device | `bootdev.c`, `floppy.c` | geometry, access mode, motor alarm | `bdev_init`, `bdev_read_sect`, `bdev_read_range` (writing has no callers) | every sector asked for is transferred or an error is returned; motor goes off |
| partitions | `part.c` | none | `read_partitions` | every partition of the MBR/EBR chain once |
| VFS | `fs.c`, `mtab.c`, `datapath.c`, `kmain.c` | `cwdnode`, `cwdpath`, mount table | `fs_mount`, `fs_open`, `fs_chdir`, `mount_boot_fs`, ... | `cwdpath` names `cwdnode`; a mount point is crossed; volumes are found under their names |
| memory file system | `fsmem.c` | tree of nodes, per-open handles | open/close/seek/read/write/rewinddir/readdir/rename/remove | a handle reads what was written; no dangling handle |
| FAT file system | `fsfat.c` | FAT, directory cache, per-open cursors | mount/open/close/seek/read/readdir | `read` returns the file's bytes at `cur_pos`; directories outlive their users |
| C library files | `libc/file.c`, `unistd.c`, `dirent.c`, `stdio.c` | `FILE` table | `fopen`, `fread`, `fgetc`, `printf`, ... | wrappers of the VFS that report the end of a file |
| time | `libc/time.c`, `rtc.c` | `start_time` | `mktime`, `gmtime`, `time`, `read_rtc` | the date is one the clock had; round trip |
| pure helpers | `libc/stdlib.c`, `string.c`, `string_asm.s`, `dynarr.c` | none or one buffer | `qsort`, `strtol`, `memset`, `dynarr_push`, ... | the functions' contracts |
| text UI | `tui/textui.c`, `tui/txview.c`, `ui/fsview.c`, `ui/fileview.c` | windows, dirty ranges, cursor and scroll | key and drawing handlers | what is on the screen is what the state says |
| console | `contty.c` | cursor, `start_line` of the virtual screen | `con_putchar`, `scroll` | the last rows printed are the rows shown |
| shell | `shell.c` | input line, cursor | `sh_input`, commands | the line is what was typed; commands act on their words |
| DOS programs | `comloader.c`, `doscalls.s`, `lowcode.s` | low memory buffer, saved stack, real-mode vectors | `load_com_binary`, `run_com_binary`, ESC, DOS calls | the program runs as it is in its file, and the kernel is as before after it |
| PCI | `pci.c` | none kept | `init_pci` | each function of each device once |
| audio | `audio.c`, `au_sb.c`, `dma.c` | playback state, DMA channel | `audio_play`, pause, resume, stop, IRQ 5 | what the callback gave is played once and in order (`audio_init` is commented out in this build) |
| splash screen | `splash/splash.c`, `splash/psys.c` | buffers, emitters, particles | `splash_screen` | nothing is used before it is taken or after it is freed |
| sprite compiler | `src/tools/csprite` | runs, the skip not yet written | `csprite` | the code it writes draws the tile |
| configuration files | `cfgfile.c` | list of key/value pairs | load, set, remove, save | a set key reads back |
| graphics and GUI | `video.c`, `vbe.c`, `gui/`, `image.c`, `dtx/` | windows, modes, surfaces | drawing | data, not control |
| platform tables | `segm.c`, `power.c`, `panic.c`, `util.c`, `gdbstub.c` | descriptor tables | set-up code | no interesting sequence of steps |

### 1.3 How they interact

* **Interrupts.** `intr_entry_common` pushes a frame, `dispatch_intr` calls the
  handler and sends the end of interrupt. Handlers: `timer_handler` (IRQ 0, 250
  times a second), `kbintr` (1), `psaux_intr` (12), the UARTs' (3, 4). All gates
  are interrupt gates, so a handler runs to its end; the main thread may be
  interrupted between any two instructions except where it calls `disable_intr`.
* **Real-mode calls.** `int86` leaves protected mode and lets the BIOS run with
  interrupts enabled and the PICs where the kernel has them, at vectors 20h on;
  after it `init_pic` programs the PICs afresh, and port 60h is read. All disk
  access goes through it. While it runs the kernel sees no interrupt, and what the
  PICs had pending is forgotten. Only `run_com_binary` moves the PICs to where the
  BIOS has its handlers (`prog_pic(8)`).
* **DOS programs.** `run_com_binary` uses the same path to jump into a program in
  `low_mem_buffer`, the buffer that disk reads also go through; the program ends by
  returning, by a DOS call, or when the keyboard handler put in front of the BIOS'
  sees ESC.
* **Memory.** `malloc` takes pages from `alloc_ppages` and never gives them back.
  The timer *frees* the structures of alarms that went off inside the interrupt,
  while `malloc` and `free` run with interrupts enabled.
* **Timer and floppy.** Every disk access of a floppy cancels and sets again the
  alarm that turns the motor off; the alarm's function runs in the interrupt.
* **Files.** `fs_open` asks the file system of the working directory or of the
  root; `fsmem` follows mount points into `fsfat` through the `fsnode` it keeps in
  a node; `fsfat` reads sectors through `bdev_read_range`. `fs_chdir` keeps the
  open node and the text of the working directory side by side. The text UI's file
  list changes the same working directory.

### 1.4 What is hard

Handlers against main-thread code that is not protected (keyboard ring, heap,
serial ring, delta list, the sound card's command bytes); lost interrupts and bytes
around `int86`; one-variable protocols (`eoi_pending`, `ext`); disk reads that fail
and are retried; pointers kept to what was freed (a mount's node, a memory file's
handle, the splash screen's buffers); reference counts and cursors shared between
open handles; dirty ranges that must cover what a key changed; arithmetic at the
ends (last cluster, last bitmap word, cylinder 256, rest of a block, 12-bit
entries, unaligned fills). Nothing is persistent and there are no messages and no
tasks, so there is no crash recovery, and no deadlock beyond a `hlt` that nothing
ends. `PROJECT.json` lists each hazard at its line, with the properties that would
catch it.

## 2. The modules

| module | models | state, as in the code | builds on |
|---|---|---|---|
| `PagePool` | what the page allocator promises | the pages in callers' hands, the last call | |
| `PageAlloc` | `mem.c` | `used` = pages whose bit is 1, `last_alloc_idx`, the interrupt flag | `PagePool` (implements) |
| `Heap` | `libc/malloc.c` | the words of the heap's pages, with the descriptors in them, `pool` | |
| `HeapIrq` | `malloc` statement by statement against `timer_handler`'s `free` | `malloc`'s locals | `Heap` |
| `AlarmClock` | what the timer promises | alarms with the ticks each has left | |
| `Timer` | `timer.c` | `evlist` with its deltas, the search of `set_alarm` | `AlarmClock` (implements) |
| `KeyRing` | the ring of `keyb.c` and the main thread's side of it, load by load | `buffer`, `buf_ridx`, `buf_widx`, the register | |
| `Keyboard` | the whole of `keyb.c` after start-up: `kbintr` decodes, counts and appends | `ext`, `num_pressed`, `keystate`, the bytes on the wire | `KeyRing` (composed) |
| `Intr` | `intr.c`, `intr_asm.S`, `int86`, both 8259s, the keyboard controller's byte | IRR, ISR, the flag, the stack of frames, `eoi_pending` | |
| `BootDev` | `bdev_read_range` by CHS and the floppy's motor | the call's step, tries, what was read, what the BIOS does at the end of a track | `AlarmClock` (composed) |
| `OpenFile` | what an open file promises | size, position, what a read returned | |
| `FatFile` | an open file of `fsfat.c` and the FAT | table, `cur_pos`, `cur_clust`, buffer | `OpenFile` (implements) |
| `FatDir` | loading and reading a directory of `fsfat.c` | the slots on disk, the parsed entries, the cursor | |
| `MemDir` | the directories of `fsmem.c` | nodes and their links, open handles and cursors | |
| `WritableFile` | what a file that several programs have open promises | contents, each one's position | |
| `MemFile` | the files of `fsmem.c` under the `FILE`s of `libc/file.c` | block, size, room, handles, `FILE` status | `WritableFile` (implements) |
| `WorkDir` | `fs.c` over `fsfat.c` directories | loaded directories with references, `cwdnode`, `cwdpath` | |
| `Mounts` | `mount_boot_fs`, `fs_mount`, `mtab.c`, `init_datapath` | the root's entries with their `fsnode`, blocks of freed nodes, mount table | |
| `Boot` | both boot stages | geometry, `es:bx`, sectors read, the map, the calls that the BIOS has | |
| `ComRun` | `comloader.c`, `doscalls.s`, the end of `lowcode.s` | low buffer, whether all was read, stacks, PIC offset, vectors, the byte in port 60h | |
| `Part` | `part.c` | the loop's variables | |
| `Clock` | `rtc.c` and `libc/time.c` | the chip's registers, what was read of them, `start_time` | |
| `Serial` | `serial.c` | both ports' rings, FIFOs and lines, `ser_getline`'s buffer | |
| `Mouse` | `psaux.c` | packet bytes, position, bounds | |
| `Sound` | `audio.c`, `au_sb.c`, `dma.c` | bytes still to be written by each thread, the card, the DMA channel | |
| `Pci` | `pci.c` | bus, device, function being read | |
| `CLib` | `qsort` of `stdlib.c`; `string.c`, `string_asm.s`, `strtol` | the array, the stack of ranges; one call | |
| `Format` | `intern_printf`, `bwrite`, `itoa`, `utoa` | the flags, the output so far | |
| `CfgFile` | `cfgfile.c` | linked options, head and tail | |
| `TextUI` | `tui/textui.c` with the file list of `ui/fsview.c` | entries, selection, scroll; screen, dirty range, search | |
| `TxView` | `dynarr.c`; `ui/fileview.c` and `tui/txview.c`, which keep lines in such an array | the descriptor and the memory; line spans, mode, scroll, picture | |
| `Shell` | `contty.c`, and `shell.c` on it | video memory, `start_line`, cursor; `inbuf`, the place in it; the words of a command and its loops | |
| `Splash` | `splash/splash.c`, `splash/psys.c`; the compiler of sprites in `src/tools/csprite` | buffers, pictures, particles, times; runs, instructions, `skip_acc` | |
| `MCParts` | the parts that share no state, one of them at work in each behaviour | `busy` | `FatDir` and all from `Mounts` to `Splash` |
| `MemoryProofs` | proofs about both allocators | | `PageAlloc`, `Heap` |
| `DriverProofs` | proofs about the timer and the keyboard | | `Timer`, `Keyboard` |
| `RealModeProofs` | proofs about interrupts and disk reads | | `Intr`, `BootDev` |
| `FatFileProofs` | proofs about an open file of a FAT volume | | `FatFile` |
| `MemFsProofs` | proofs about the memory file system | | `MemDir`, `MemFile` |
| `WorkDirProofs` | proofs about the working directory | | `WorkDir` |
| `PartsProofs` | proofs about `ComRun`, `Boot`, `Serial`, `Mouse`, `CfgFile` and the `dynarr` of `TxView` | | `MCParts` |
| `DeviceProofs` | proofs about `Pci` and `Sound` | | `PartsProofs` |

`MCPageAlloc`, `MCFatFile`, `MCMemDir` and `MCWorkDir` only hold the
values their `.cfg` files give to constants.

How operations map to actions: a function that runs with interrupts disabled, or
that no handler shares state with, is one action; where a handler can come
between, the action is a load, a store or a statement (`KeyRing`, `HeapIrq`,
`Serial`'s `ser_getc`, `Sound`'s bytes, and `BootDev`'s calls between which ticks
pass). Where a loop's end or its intermediate states matter (`qsort`, `Part`,
`TxView`, `FatDir`, `Boot`, `csprite`, `Shell`), a pass of the loop is an action. `Timer`'s
search takes a step for each node, with the tick kept out until it ends, as the
flag does in `set_alarm`. `PROJECT.json`'s map gives the source lines of each
definition.

* **`PageAlloc`.** Constants keep the shape of the hardware (page size, pages per
  bitmap word, memory map), `init_mem` is computed from the map as the code does,
  rounding and clipping included. `held` and `call` are histories. Callers free
  only what they hold, in any pieces. The calls are atomic because they disable
  interrupts; `intr` is what they leave of the flag.
* **`Heap`.** The descriptors live in the memory the callers write to, so an
  overlap shows as a wrong magic number or as changed contents. A word stands for
  4 bytes; a caller fills exactly what it asked for.
* **`Timer`.** `left` is a history: the ticks that remain of each alarm's delay.
  `ctx` tells the main thread, the handler's loop, and an alarm's function, which
  may itself set or cancel one alarm.
* **`Keyboard`/`KeyRing`.** `kbintr` is one action, the whole handler; each load
  and store of `kb_getkey`, `kb_putback` and `kb_wait` is another. Keys in the
  ring are numbered in the order they were pressed, which is what the ring's
  properties are about; the decoder works on the codes.
* **`Intr`.** The PICs' priority, acknowledge cycle (in two steps, because a
  request may vanish between them) and cascade are external; the entry code and
  `dispatch_intr` are the program's. `frames` is the stack.
* **`FatFile`.** A byte of a file is its number, so a read is right when it
  returns consecutive numbers. `read_fat` is the code's arithmetic over a table
  that is packed byte by byte for FAT12. `read` is given the clusters that the disk
  fails to give in this call: none in `CarefulSpec`, any in `FaultySpec`.
* **`FatDir`.** The slots are written as other systems write them: a long name in
  pieces, backwards, before the file's own slot, and erased by marking. What
  `parse_dir_entry` makes of them is compared with the files that are there.
* **`MemDir`.** `Lookup`, `add_child`, `remove_` and the cursors are those of the
  code, with its singly linked lists and tails. `rename` takes any name, as the code
  does. `owed` is a history, and `taken`: the nodes that were renamed to a name their
  directory had.
* **`MemFile`.** The file's block, its size and its room are those of the node;
  every program has a `FILE` over a handle of its own. Memory may run out whenever
  the block grows.
* **`WorkDir`.** `cwdpath` is a sequence of names and slashes, each counted as one
  character. The volume's tree and the mount are constants. A call may be given a
  directory that the disk fails to give. `stale` is a history: the entry of the open
  file was read in a directory that `open` had freed.
* **`BootDev`.** `bios_cuts` tells whether the BIOS stops at the end of a track; the
  code copies all sectors asked for anyway, the rest as `low_mem_buffer` had them (`Old`).
* **`Boot`.** `works` has the calls that the BIOS answers: the one for the geometry
  (`chs`) and the three for the memory.
* **`Mounts`.** A block's memory counts after it was freed, since the directory's
  pointer to the closed `fs_node` is what carries the mount.
* **`ComRun`.** Memory is counted in units of 256 bytes, and a unit holds a unit of
  the file. The program may do at any step what a DOS program may: set vectors,
  call DOS or the BIOS, return; ESC may come at any time. `unread` is a history: a
  read of the file gave another cluster's bytes, or ended early.
* **`TxView`.** `text` is the file and `fvdata` the buffer `fread` filled, all of it or a
  part; `beyond` is the byte behind the buffer. `fv_type` makes a file with a zero byte a hex dump.
* **`Sound`.** Main thread and handler each have a queue of bytes still to be
  written to the card and the DMA controller, taken from the front one at a time;
  the card's side of the DSP protocol is external.
* **`TextUI`.** `screen` is what was drawn, and each key's handler changes the state
  and the dirty range; the property compares the screen with what the state says it shows.

## 3. The runs

All bounds are constants of the `.cfg` files.

| run | instance | what it shows |
|---|---|---|
| `page_alloc` | 10 pages of 16 bytes, 3 pages per bitmap word, a hole, a map that ends at the top of the address space | any order of single, multi-page, downward and fixed allocations and frees keeps the bitmap, the guarantee about `last_alloc_idx` and the pages held consistent, and implements `PagePool` |
| `heap` | two 12-word pages, a gap, a third; requests of 1, 8 and 10 words, three blocks; careful callers | free list ordered and acyclic, blocks disjoint and as large as asked, data kept |
| `heap_irq` | two pages | *violation*: `free` in the timer interrupt corrupts the list `malloc` is walking |
| `timer` | three events, two functions, delays of 1-3 | deltas add up, no alarm is overdue, `AlarmClock` is implemented, every alarm goes off or is cancelled |
| `keyboard` | ring of three places, four presses of four keys that include both keys of one code | order until overrun, `kb_wait` returns, key states follow the keys, only Ctrl-Alt-Del reboots |
| `intr` | five inputs, two requests on each, two nested frames | nothing stays in service, nobody ends another's interrupt, critical sections hold, no byte blocks the keyboard controller |
| `boot_dev` | 2 x 2 x 2 sectors, reads of 1-2, with and without floppy and BIOS extensions, a BIOS that stops at the end of a track or reads on | the sectors the BIOS reads are the right ones at their places, or -1 after retries; the motor is turned off neither early nor never |
| `fat_file` | clusters of 3 bytes; files that end inside, end on, or do not fill their chains, and an empty one | position, cluster and buffer agree and `OpenFile` is implemented, while clusters can be read |
| `mem_dir` | four nodes, two names, two handles, one rename to a name that is taken | lists are a tree, names unique but for that one, listings complete |
| `work_dir` | two nested directories on the volume, one beside the mount, the disk failing to give one or the other | references counted, what is opened is what the path names (but for entries read in freed directories), text and node of the working directory agree |
| `mem_file` | two programs, a file of up to four bytes, some of them newlines | both programs see one file, `WritableFile` is implemented through growth and out-of-memory; the block is never twice what the file needs |
| `parts` | below | one part at a time, each against what it promises |

`parts` has one conjunct in a property for each part:

| property | parts | instance |
|---|---|---|
| `StdlibRight` | `CLib` with `qsort`, `Format` | permutations of up to six elements and all arrays of up to three; fills, copies and comparisons at every alignment; strings of up to four characters; every pair of the conversions in `KernelFormats` |
| `ClockRight` | `Clock` | an update of the chip between any two of the register reads, at the ends of days, months, leap and other years, in all modes |
| `VolumesRight` | `Part`, `Mounts` | one extended record anywhere in the boot record, primary ones before and behind it; chains of up to three boot records, with their records in either order, or without partitions; tables of 0, 4 and 8 entries; up to three partitions with and without FAT, label and `.data` |
| `ListsRight` | `dynarr` in `TxView`, `CfgFile` | six elements with reallocations that fail; two keys, two values, four options |
| `ScreensRight` | `TextUI`, `TxView` | three directories with two rows on the screen; all texts of four bytes and some longer, one with a zero byte, read whole or in part; 4 columns and 2 rows |
| `ShellRight` | `Shell` with the console | 2 x 2 characters in five virtual rows, the screen switched on and off; lines of up to four characters typed and edited; lines of up to five words evaluated |
| `BytesRight` | `Serial`, `Mouse` | two ports, rings of three places, line buffer of five, four bytes each, callers' buffers of one and five; four packets, among them an overflow and the largest moves |
| `DirRight` | `FatDir` | five slots in clusters of three, long names of one and two slots, a label, erasure |
| `BootRight` | `Boot` | four geometries, six memory maps, each subset of the geometry's and the three memory calls, any read failing up to three times |
| `RunRight` | `ComRun` | programs of one and two units, clusters of two, any read failing or ending early |
| `DevicesRight` | `Pci`, `Sound` | every subset of eight functions, two access mechanisms; eight cards, transfers of 1, 256 and 65536 bytes |
| `PicturesRight` | `Splash` with `csprite` | every pattern of a row of seven pixels; every combination of missing and wrong picture files, two runs |
| `CallsEnd` | `qsort`, `Part`, `TxView`, `Boot`, `ComRun` | as above, under the fairness below |

Why the bounds are enough: each instance is the smallest in which the boundary
cases meet. In `page_alloc`, runs of three pages cross words of three pages, a hole
splits a word, and the last word has pages the search does not start at. In `heap`, requests
leave a whole block, a splittable one, and need a new page that is, or is not,
adjacent to free memory. In `timer`, three alarms are a head, a middle and a tail,
with equal ticks. In `keyboard`, the ring wraps and overruns, and a reboot needs
three of the four presses. In `intr`, two frames are one more than the code should
ever nest; two requests are one in service and one pending. In `fat_file`, a read of
nine bytes spans three clusters of three. `mem_dir`'s handles are
interchangeable (symmetry; the run checks safety only). `work_dir` covers up, down, through the
mount both ways and paths with `.`, `..`, repeated and missing components. In
`parts`, rings, windows, tables and clusters are wrapped or crossed at least once,
and tables are given one entry too few. `Part` counts boot records to `Many` = 3 and then from 1
again (the code asks only whether the number is 0) and partitions to `Most` = 12, more than a disk of
the run has. `MaxTaken` = 1 is the number of names that two entries may share. The parts share no state, so one at a time is all there is to see.

`CHECK_DEADLOCK FALSE` stands where the system may stop: a panic or a reboot, a call
that has returned, or a client that has used up a bound.

Some runs use a restricted specification because the code fails outside of it, and
section 5 shows the failure: `FatFile!CarefulSpec` leaves out the two kinds of seek
that lose the position, and clusters that cannot be read (`FaultySpec`); `WorkDir!CarefulSpec` paths
within two characters of the limit,
`MemFile!CarefulSpec` reads behind the end and the removal of an open file,
`Heap!CarefulSpec` requests that leave a rest of new pages too small for a descriptor
(`RoomForRest`) and `realloc`s that `malloc.c:335` takes to fit although they do not
(`StaysInside`), and the constants of `MCParts.cfg` leave out the inputs of the table in section 5.

### Fairness

* `Timer`: the handler goes on (WF), the search goes on (WF), and `Tick` is
  strongly fair: a tick that comes while interrupts are off stays pending in the
  8259 and is taken when they come on again.
* `Keyboard`: the main thread goes on (WF) and a tick ends a halt (WF); nobody has
  to press a key.
* `BootDev`: the interrupt goes on (WF), the call's steps are strongly fair because
  ticks interrupt them only for a moment.
* `Intr`: the CPU acknowledges what the PIC asserts (WF, and SF for `Accept`, which
  critical sections switch off again and again), handlers go on, sections and BIOS
  calls end. Devices are not fair.
* `MCParts`: `qsort`, `read_partitions`, `fv_open` and the boot loader go on once
  they are called (WF); the keyboard interrupt that runs beside a DOS program is
  taken (WF of `rm_keyb_intr` or, once the program has put its own handler in front,
  of `OwnHandler`). The DOS program itself is not fair: it may run for ever, and ESC
  must still end it.

## 4. Proofs

What the eight modules `*Proofs` show holds for every value of the constants that satisfies the
named assumptions, however large: the bounds of section 3 do not matter to them. Each
proves an invariant inductive under the specification its run checks, and TLC checked
the invariants on the run's instance before they were proved.

| module | theorem | property of a run | beside the assumptions |
|---|---|---|---|
| `MemoryProofs` | `TypeCorrect`, `LastAllocGuarantee`, `Accounting`, `Implementation` | `NoFreeBelowLastAlloc`, `BitmapAccounts`, `PromiseSpec` | |
| | `FreeListIsSane`, `CallersKeepTheirData`, `CarefulCallersDoNotPanic` | `PoolIsSane`, `ContentsStay` | |
| `DriverProofs` | `TimerTypeCorrect`, `DeltasCorrect`, `NothingOverdue`, `TimerImplements` | `DeltasAddUp`, `NoneOverdue`, `ClockSpec` | |
| | `KeysComeInOrder`, `KeysAreKnown` | `FifoUntilOverrun`, `StateIsDown` | |
| `RealModeProofs` | `NothingStaysStuck`, `SectionsAreAtomic` | `NothingStuck`, `SectionIsAtomic` | |
| | `ReadsAreRight`, `NeverOffEarly` | `ReadsWhatWasAsked`, `NotOffEarly` | `CylindersFit` |
| `FatFileProofs` | `PositionIsInCluster`, `IsAnOpenFile` | `ClusterFollowsPos`, `PromiseSpec` | not FAT12 |
| `MemFsProofs` | `RoomIsBounded`, `IsAFile` | `CapacityBounded`, `PromiseSpec` | |
| | `ListsMakeATree`, `ListingsAreComplete` | `TreeOK`, `ListingComplete` | |
| `WorkDirProofs` | `DirectoriesCountReferences`, `NodesAreWherePathsLead`, `CwdPathIsRight` | `RefsCount`, `OpenIsRight`, `CwdPathNamesCwd` | |
| `PartsProofs` | `ProgramsRunAndEnd` | `RunRight` | programs fit a cluster |
| | `BootLoaderLoads` | `BootRight` | heads a power of two |
| | `BytesComeInOrder`, `BytesAreRight` | `BytesRight` | fewer bytes than `LINEBUF` (the second) |
| | `ListsAreRight` | `ListsRight` | |
| `DeviceProofs` | `DevicesAreRight` | `DevicesRight` | `AllReached`, `CardsTaken` |

Each entry of the last column is the border of a failure that section 5 shows: above it the
property is false. The heap's callers, the working directory's and the memory files' are
those of `CarefulSpec` (section 3), for the same reason.

**Page allocator.** Assumptions: `SizesAssumption` (sizes are positive) and
`MemMapAssumption` (the machine has a bitmap word's worth of memory, the bitmap fits,
and the words just above those searched lie in a page that is marked used, which
is what keeps a run that starts in the last word in bounds). The invariant is
`TypeOK /\ NoFreeBelowLastAlloc /\ BitmapAccounts`; the second conjunct is not
inductive alone, since an allocation may move `last_alloc_idx` only over words
known to be full, nor is the third, which needs that what is free was never
reserved. `SearchKeepsGuarantee` is the heart: the first free page a search sees
bounds its new start. `Implementation` says that every behaviour is one of `PagePool`;
there `SearchIsComplete` shows that a search from `last_alloc_idx` misses no run.

**Heap.** Assumption: `HeapAssumption` (pages have words, there are some, finitely many). The heap
is seen as two sets of blocks, `F` on the free list and `U` in use. `Sane` says what the words of
the heap must be for them: each block lies in granted pages and ends before the next begins, has
its magic, and each free block's link is its successor in `F` (`Succ`), which makes the
list ordered without saying anything of the walk. Each way in which `malloc` and
`free` change words, a block given whole, split, joined with the one before, the one behind or
both, new pages, takes `Sane` to `Sane` for other sets; that `FreeList`, a recursive
function of the words, finds exactly `F` in order is shown once. `HeapInv` adds what callers
hold (`Held`) and that `free` has not panicked; `realloc` is the two in turn with a copy between.

**Timer.** The invariant is `TimerTypeOK /\ DeltasAddUp /\ NodesDistinct /\ NoneOverdue /\
Sorted /\ WalkInOrder`: deltas add up only if the list stays sorted by due tick and a
search has passed nothing due after the new alarm, and they stay so through `Tick`
only if no structure is on the list twice. `InsertKeeps` and `RemoveKeeps` are
the list lemmas; each action has its step lemma. `TimerImplements` says that the delta
list implements `AlarmClock`.

**Interrupts.** Assumption: `IntrAssumption` (the bounds are numbers, and an entry
fits). The gates clear the flag, so the stack of entries never has more than one,
whatever depth `MaxFrames` would allow (`NoNesting`); that is why `eoi_pending`, one
variable for all interrupts, is enough. `PendingIsServed` says that it names the
entry's interrupt from `dispatch_intr` to `end_of_irq`; `InServiceIsServed` says what
is in service in both PICs: the entry's interrupt, unless it is spurious and the entry
has not found that out yet, and the cascade for one of the slave's. Both properties
follow from these three.

**Boot device.** Assumption: `BootDevAssumption` (the geometry is one the BIOS reports;
fewer ticks pass during one call than the motor's delay has).
`ReadsAreRight` is about LBA calls or at most 256 cylinders (`CylindersFit`): above
them `bootdev.c:268` loses two bits of the cylinder, which section 5 shows. It says that the
sectors the BIOS reads are right, and that these are all (`RangeIsRead`) by LBA or with a BIOS
that reads on at the end of a track; with another one they are not, as section 5 shows. The
invariant has that the sector addressed by `calc_chs` is the one asked for (`CallInv`,
with the arithmetic in `ChsFacts`), that what was read is what was asked (`ReadInv`),
and `AlarmInv`: there is one alarm at most, since every call cancels before it sets
(`OneAlarm`), and what it has left and the time the drive has been left alone make
the delay (`NotDueBeforeTimeout`). `NeverOffEarly` is an action property and follows
from the last one.

**Keyboard.** The ring: as long as it has not overrun, the key with number *n* is at
place *n - 1* modulo its size, what `kb_getkey` returned is an initial piece of what
was pressed (`KeysInPlace`), and the register and the indices say so at each load and
store of `kb_getkey`, `kb_putback` and `kb_wait` (`InHand`), with `kbintr` between any
two. The decoder: what the driver would know of each key if all bytes on the wire had
been decoded is whether the key is down (`WireInv`, where `HeldBefore` looks ahead over
the wire byte by byte, prefixes included), and a reboot was asked for by the byte that
causes it. `CountInv` bounds the keys that can still come.

**Memory files.** `FileOK`: the block is never twice as large as the file, there is no block
without a file, and what is behind the end is unwritten; `HandlesOK`; and no copy went
outside of the block. `CarefulSpec` is the specification, the reads behind the end and
the removal of open files left out as in section 3. `IsAFile` maps the block's
first `size` bytes to `WritableFile`'s contents; `fgets`, which stops at the first line
end, is the lemma that takes most.

**FAT files.** Both theorems are about clusters that can be read (`CarefulSpec`), since
`fsfat.c:574` does not look whether they were. Assumption: `FatFileAssumption`, that a file's chain has different
clusters of the table and is long enough for its size, and that the volume has as many clusters
as its type may have (`ClusterLimit`, `fsfat.c:258-268`). Hypothesis: the volume is not
FAT12, whose table `fsfat.c:875` reads wrongly (section 5). `AtCluster`: `cur_clust` is
the chain's element for `cur_pos`, and -1 exactly from the end on; `BufferOK`: a valid
buffer is the current cluster's; `HasTable`: `read_fat` follows the chain.

**Memory directories.** Nodes are never freed and never reused, so a node links to
younger ones only, and removed nodes, which keep their links, still lead into
the list they were in: `LinksOK` says so of all nodes that were ever allocated, which is what makes a
cursor that stands on a removed node harmless. `ListFrom` counts a list's nodes with
`Cardinality`; `ChainIsList` shows that it gives the chain of links whatever the
number of nodes. `Appended` and `Skipped` say what the two changes of a list do to the
set of nodes reachable from any node, on the list or off it; `CreateKeeps` and
`RemoveKeeps` use them. `ListsOK` has that the tail is reachable and has no successor,
`NamesDiffer` that names in a list differ, but for what `rename` has `taken` (the induction follows
`taken` through every action) and `..` in the root, and `ListingsOK` that what a listing still
owes is reachable from its cursor.

**Working directory.** Assumption: `WorkDirAssumption`, that the volume and the memory
file system are two trees of different places. `Counted` is the heart: a loaded directory's
count is the number of nodes open on it (`RefsTo`), with those that a failing `open` lost counted by
`lost`. The walk of `open` is compared, name by name, with what the path means (`Resolve`), both
recursive functions of the names left; the directories that it loads and frees on its way are fresh
objects, so the references of others stay. The invariant holds with any directory that the disk
fails to give. A file whose entry was read in a freed directory (`stale`) is left out of
`OpenIsRight`: its entry is what the memory then held (section 5, `EntryInMemory`). For `CwdPathNamesCwd`, that the text of a path and
a relative one joined (`Append_`) resolves to what the second names from where the first leads.

**DOS programs.** `Loading` says that, unless a read failed, what was read of the file lies behind
the first 256 bytes, all of it in one round of `fread`; nothing is said of the program when one did; `Stacks` that while the program runs, whatever it calls, `saved_sp` has
the stack pointer with which `run_com_entry` was called, and that without it the
stack, the flag and the PICs' offset are the kernel's. So each of the three ends leaves them as
`run_com_binary` found them.

**Boot loader.** That sectors are right has the hypothesis `GeometryKnown`, that the BIOS tells the
geometry or it is the default one; that A20 is on and the map is right has not. `SecondStage` and `Kernel_` say which sectors are where, in terms of the next sector's
place and of `es:bx`; `MemoryMap` compares the map so far with the BIOS' regions so far. The loader's
remainder by a mask is right for powers of two (`MaskIsRemainder`).

**Serial.** `InOrder` says that the bytes `ser_getc` gave, those in the ring and those in the UART
are, in order, the bytes sent since the port was opened; `Taking` what the main thread's register
and index mean between a load and a store of `ser_getc`, with the interrupt at any point between;
`Requested` that a UART with a byte has its interrupt requested; `Counted` that what lines and the
ring hold was sent, also when the ring overran between a load and a store; `LinesOK`
that lines and the rest in `linebuf` are what `ser_getline` took.

**Mouse.** `MouseInv`: what was read and what is still to come are the two parts of one report's bytes,
and between reports the pointer is where reports and bounds have brought it.

**Lists.** `DynInv`: the array has room for its elements through reallocations that fail. `CfgInv`:
the list ascends from `head` to where its links end (`Linked`), and `tail` is its last option where
it has one.

**PCI.** `PciInv`: what was found is what is on the bus before the function being read, in the order of
reading; that some are found again (`EachOnce`, section 5) does not matter to it. `AllReached` leaves out functions 4 to 7 and the subclass without a name.

**Sound.** A session plays once, does not stop, and has a handler that is done before the card is
with its chunk; the others are section 5's `SoundAgainSpec`, `SoundStopSpec` and `SoundSlowSpec`.
`Phase` names the six states that a session of `SoundNext` goes through, what the two queues
of bytes still to be written, the card and the DMA channel are in each (`NotYet`, `Starting`,
`Playing`, `Ended`, `FilledAgain`, `Stopping`), byte by byte of each command; each step keeps the
phase or leads to the next. `CardsTaken` leaves out the card whose 8-bit channel the driver replaces.

**How recursion is proved about.** No theorem of induction that takes a predicate can be given to the
provers. Where a walk or a loop is a recursive function of the step (`find_cluster`, `read`, `FreeList`,
`open`, `fgets`), what it computes is shown for every number of steps by the least step that would
violate it (lemma `Least`).

**Only model-checked.**

* Liveness (`AlarmsGoOff`, `WaitEnds`, `ByteIsRead`, `MotorStops`, `CallsEnd`): fairness
  and `ENABLED` are out of the prover's reach.
* `StdlibRight`, `VolumesRight`, `ScreensRight`, `ShellRight`, `PicturesRight` and `DirRight` compare
  loops over data with a reference definition that folds or filters sequences: `qsort`'s result is a
  sorted permutation, a picture is what a second drawing of the whole would be. Each loop
  would need an argument of its own like those above; the runs do them on the bounded inputs given there.
* `ClockRight`: conversions between days and dates with tables of months, a matter of cases rather
  than of steps, which TLC takes in full for the dates given.

## 5. Where code and documentation disagree

The violation run:

* `heap_irq`: `timer.c:179` frees in the interrupt; `malloc` does not disable it.

The other disagreements met while modelling are reproduced by changing a run's
configuration: replace its INVARIANTS and PROPERTIES by the one in the table, make
the change, and TLC ends in a counterexample. A dash means no other change.

| configuration | change | property | what happens |
|---|---|---|---|
| `MCPageAlloc.cfg` | `MemMap <- MapEndsOnWord` | `HeldIsRam` | `mem.c:106` moves the start of a range up to `MEM_START` and keeps its size: the stack is taken from beyond the end of RAM |
| `MCPageAlloc.cfg` | - | `FlagKept` | `mem.c:248`: `alloc_ppage_range` returns with interrupts disabled when the range is not free |
| `Heap.cfg` | `SPECIFICATION HeapSpec`, `Requests = {5, 8}` | `NoMagicPointer` | `libc/malloc.c:135` writes a descriptor into a rest of one or two words, over what follows |
| `Heap.cfg` | `SPECIFICATION HeapSpec`, `Requests = {1, 3}` | `NoPanic` | `libc/malloc.c:335` grants a descriptor's size too much |
| `Heap.cfg` | `SPECIFICATION HeapSpec` | `NothingLost` | `libc/malloc.c:117` forgets the rest of a block given whole |
| `Keyboard.cfg` | `MaxKeys = 3`, `Used = {"NUM_DOT"}`, `MaxWire = 2` | `AnyMeansHeld` | `keyb.c:271` counts repeats up and releases down |
| `Keyboard.cfg` | the same, `SPECIFICATION BiosSpec` | `StateIsDown` | `lowcode.s:183` throws a key's byte away |
| `Keyboard.cfg` | the same, `MaxKeys = 5` | `OnlyOldestLost` | `keyb.c:165` advances `buf_ridx` with three instructions that `kbintr` can come between: more keys are lost than it discarded |
| `MCFatFile.cfg` | `SPECIFICATION SpecInside` | `ClusterFollowsPos` | `fsfat.c:522` keeps `cur_clust` = -1 when a seek back from the end of the last cluster does not change the cluster's index |
| `MCFatFile.cfg` | `SPECIFICATION Spec` | `NoWildCopy` | `fsfat.c:583` computes a negative length after a seek behind the end |
| `MCFatFile.cfg` | `SPECIFICATION FaultySpec` | `ClusterFollowsPos` | `fsfat.c:574` does not look at `read_cluster`'s result: the buffer keeps the bytes it had and is marked valid |
| `MCFatFile.cfg` | `SPECIFICATION FaultySpec` | `PromiseSpec` | the same: these bytes are returned as the file's |
| `MCFatFile.cfg` | `FatType = "FAT12"` | `EntriesRead` | `fsfat.c:875` indexes 16-bit words with a byte offset |
| `MCMemDir.cfg` | - | `FsnodeIsOpen` | `fsmem.c:260` leaves the pointer to a closed handle in the node |
| `MCMemDir.cfg` | - | `NamesFind` | `fsmem.c:412` gives an entry a name that another one has, and `kmain.c:170` does not ask either: the later one is not found |
| `MemFile.cfg` | `SPECIFICATION BehindSpec` | `StaysInside` | `fsmem.c:333` copies from behind the block after a seek behind the end |
| `MemFile.cfg` | `SPECIFICATION RemovedSpec` | `StaysInside` | `fsmem.c:481` frees the data of a file that is open |
| `MemFile.cfg` | - | `EndIsReported` | `libc/file.c:139`: a read at the end of the file, which gets nothing, does not set `STATUS_EOF` |
| `MCWorkDir.cfg` | `SPECIFICATION Spec` | `CwdFits` | `fs.c:112` leaves out the slash and the final zero |
| `MCWorkDir.cfg` | - | `EntryInMemory` | `fsfat.c:425` frees the directory whose entry `fsfat.c:451` reads |
| `MCWorkDir.cfg` | - | `FileIsFile` | `fsfat.c:423` opens a directory it cannot load as a file |
| `BootDev.cfg` | `num_cyl = 258`, `num_heads = 1`, `num_track_sect = 1`, no deadlock check | `ReadsWhatWasAsked` | `bootdev.c:268` shifts cylinder bits 8 and 9 away |
| `BootDev.cfg` | - | `RangeIsRead` | `bootdev.c:249` says that a read by CHS probably cannot cross track boundaries; `bootdev.c:281-284` copies and returns `nsect` sectors, however many the BIOS read |

The rest are changes of `MCParts.cfg`, with `SPECIFICATION Spec` unless another is
given.

| change | property | what happens |
|---|---|---|
| `Arrays <- EqualArrays` | `CallsEnd` | `libc/stdlib.c:257`: `qsort` swaps equal elements for ever |
| `LibCalls <- AllLibCalls` | `StdlibRight` | `libc/stdlib.c:44`: `strtol` sees a prefix and does not skip it, and none behind a sign; `libc/string.c:187`: strings that first differ in the last character compared are called equal |
| `LibCalls <- Fills` | `CLibRight` | `libc/string_asm.s:43-55`: the stores up to an aligned address do not look at the count, which then wraps |
| `LibCalls <- NothingCompared` | `CLibRight` | `libc/string.c:60`: `memcmp` of no bytes at addresses that are not aligned takes 1 from 0 |
| `LibCalls <- Found` | `CLibRight` | `libc/string.c:126`: the empty string is not found in the empty string |
| `LibCalls <- EndSearched` | `CLibRight` | `libc/string.c:108`: `strrchr` does not find the final zero |
| `Formats <- NegativeFormats` | `FormatRight` | `libc/stdio.c:242`: the zeros of a negative number are put before its sign |
| `Formats <- PercentFormats` | `FormatRight` | `libc/stdio.c:183`: the second `%` of `%%` begins a conversion |
| `Formats <- ZeroFormats` | `FormatRight` | `libc/stdio.c:199`: `%#x` of 0 is printed with the prefix |
| `Formats <- SignFormats` | `FormatRight` | `libc/stdio.c:242`: a sign of `%+d` is not counted in the width |
| `Formats <- PrefixFormats` | `FormatRight` | the same for the prefix of `%#x` |
| `Formats <- CharFormats` | `FormatRight` | `libc/stdio.c:256`: `%c` does not look at the width |
| `Formats <- MCFormats` | `FormatRight` | `libc/stdio.c:291`: flags of one conversion are still set in the next |
| `Formats <- ShortFormats` | `FormatRight` | `libc/stdio.c:363`: a buffer too short is written to its end without the final zero |
| - | `StartsRight` | `part.c:108`: from the second extended boot record on, a partition's start is taken relative to the first one and not to its own |
| - | `PrimariesMarked` | `part.c:105`: `IS_MBR` asks for `sidx`, which `part.c:92` changed at the extended record: primary partitions behind it are not marked as such |
| `TableSizes = {2}` | `PartRight` | `part.c:115`: the table's size is only tested between boot records; `part.c:108` writes behind it |
| `Disks <- CyclicDisks` | `CallsEnd` | `part.c:59-115`: a chain that comes back to a boot record, or one whose boot record has no link, is followed for ever when there is no table |
| `Disks <- CyclicDisks` | `PartRight` | the same: with a table, the same partitions fill it |
| `Disks <- GapDisks` | `PartRight` | `part.c:79-82`: the link of a boot record without a partition is not followed |
| - | `SetReadsBack` | `cfgfile.c:148`: an option that is set again is appended behind the old one, which is found |
| - | `EmptyOpens` | `libc/file.c:142`: an empty file is read as one element of no bytes, and `fread` divides by that |
| `Texts <- TabTexts`, `TxCols = 3` | `RowsAligned` | `tui/txview.c:189`: the spaces of a tab at the right edge go on into the next row |
| `Beyond = {"lf"}` | `ViewRight` | `ui/fileview.c:79`: after a carriage return at the end of the file, the byte behind the buffer is looked at and taken for the second half of the line's end |
| `SPECIFICATION ViewShortSpec` | `ViewRight` | `ui/fileview.c:95`, `107`: `dynarr_push` does not return 0 when there is no memory, and the line is lost |
| - | `FileRead` | `ui/fileview.c:41`: nobody looks at what `fread` got; what `malloc` gave is viewed |
| - | `TitleTrue` | `tui/textui.c:160`: F8 in the viewer leaves the title of its file to the list that is shown the next time |
| `SPECIFICATION UiShortSpec` | `ScreenTrue` | `ui/fsview.c:214`: when there is no memory for the entries of the new directory the list is still the old one's |
| `Erasers = {"dos"}` | `DirRight` | `fsfat.c:812`: a long name whose file was erased by a system without long names is given to the next file |
| `Labels = {"volid+archive"}` | `DirRight` | `fsfat.c:716`: a label with another attribute is listed as a file |
| `MAX_NAME = 4` | `NamesFit` | `fsfat.c:825`: the last part of a long name is copied whole |
| - | `WindowRight` | `contty.c:248`: `memcpy` between rows that overlap |
| `TAB = 1` | `TabsGoOn` | `contty.c:181`: a tab goes to columns 8 to 15, from wherever the cursor is |
| `SPECIFICATION LineSpec` | `LineRight` | `shell.c:178`: backspace inside a line does not shorten it |
| - | `FilesClosed` | `shell.c:363`: `cat` does not close its files |
| - | `WordsThere` | `shell.c:141`, `433`, `444`: commands compare an argument that is not there |
| `SPECIFICATION SerialSpec` | `QuietWhenClosed` | `serial.c:181`: only the last port to be closed has its UART turned off |
| `SPECIFICATION SerialSpec` | `SerialRight` | `serial.c:306`: a request edge that is forgotten leaves the line high and the port silent |
| `LINEBUF = 4` | `SerialRight` | `serial.c:284`: the final zero is written behind a full line buffer |
| - | `LinesWhole` | `serial.c:287`: of a line longer than the caller's buffer the rest is thrown away |
| `SPECIFICATION MouseSpec` | `PointerRight` | `psaux.c:201`: packets are not synchronised again after `int86` threw a byte away |
| - | `PointerInBounds` | `psaux.c:91`: new bounds do not move the pointer inside |
| `Drives <- OddDrives` | `BootRight` | `boot/boot.s:165`: the number of heads is used as a mask |
| - | `SectorsRight` | `boot/boot.s:88-91`: when int 13h/8 fails the geometry of a floppy is assumed, whatever the drive is, and wrong sectors are loaded |
| `MAP_MAX = 1` | `MapFits` | `boot/boot2.s:674`: the map's entries are not counted |
| - | `VectorKept` | `boot/boot2.s:716`: the value of `boot_mem_map_size` is taken for its address, and interrupt vector 0 is cleared |
| - | `ProgramWhole` | `comloader.c:39-43` does not look at what `fread` got and returns 0; `shell.c:410` runs the program |
| `Sizes = {3}` | `RunRight` | `comloader.c:29`: a program longer than a cluster is read through the buffer it is copied to |
| `SPECIFICATION ComSpec` | `RegsKept` | `lowcode.s:255`: the keyboard handler changes `al` and `bl` of the program it interrupts |
| `SPECIFICATION ComSpec` | `CharsShown` | `doscalls.s:69`: `int $10` is interrupt 10, not 10h |
| `SPECIFICATION ComSpec` | `VectorsAreCode` | `comloader.c:75-82`: the vectors are not put back; a key in a BIOS call with `ah` = 25h also sets one to the call's data |
| `SPECIFICATION ComSpec` | `BiosUncut` | `doscalls.s:20`: the entry of DOS calls stays at vector 21h, where the kernel's PICs put the keyboard: a key that comes in a later BIOS call with `ah` = 4Ch ends it |
| `SPECIFICATION ComSpec` | `ByteTaken` | `comloader.c:75`: nothing takes a byte of the mouse while a program runs, and none of the keyboard follows it |
| `SPECIFICATION MountsSpec`, `MaxPart = 2` | `MountsRight` | `fsmem.c:260`: a mount kept in a freed block is lost when something else gets the block |
| `Partitions <- AllDrives` | `MountsRight` | `kmain.c:170`: two volumes with one label get one name |
| `Volumes <- UnnamedVolumes` | `MountsRight` | `sane_fsname` (`kmain.c`) accepts an empty label |
| - | `EachOnce` | `pci.c:33`: `ADDR_FUNC` masks with 3: functions 4 to 7 are functions 0 to 3 again |
| `Boards <- FifthBoards` | `PciRight` | the same: a function 5 is not found |
| `Boards <- SignalBoards` | `PciRight` | `pci.c:376`: subclass 4 of class 15 is behind the end of the table of names |
| `SPECIFICATION SplashSpec` | `SplashRight` | `splash/splash.c:127`: the result of `create_emitter` is not looked at |
| `SPECIFICATION SplashSpec` | `FreesOnce` | `splash/splash.c:160-169`: pointers stay after their blocks were freed |
| - | `StaysInBuffer` | `splash/splash.c:220`: what is cleared behind the header is as long as the whole buffer |
| - | `FlamesComeUp` | `splash/psys.c:55`: `prev_upd` is still the last run's, and the second run begins with a negative time |
| `Cards <- ThirdCards` | `SoundRight` | `au_sb.c:343-353`: when only the 16-bit channel must be forced, the 8-bit one that was found is replaced by 1 as well |
| `SPECIFICATION SoundAgainSpec` | `SoundRight` | `au_sb.c:228`: no acknowledgement when the callback has nothing more; bytes of two threads are mixed |
| `SPECIFICATION SoundSlowSpec` | `SoundRight` | `au_sb.c:232`: the interrupt is acknowledged after the next transfer is started, and one that already ended is forgotten |
| `SPECIFICATION SoundStopSpec` | `StopsPlaying` | `au_sb.c:214`: the transfer goes on after `sb_stop`, and at its end the handler asks for more and starts the next |
| - | `PauseHolds` | `au_sb.c:204`: an interrupt that was already pending starts the next transfer on a card that was paused |

Seen in the code and too plain for a run: the port and page arithmetic of the 16-bit
DMA channels (`dma.c:41`, `dma.c:126`), `spawn_rate * dtms` overflowing for a frame
longer than 2.6 s (`splash/psys.c:63`), `ls -` reading behind its argument's end
(`shell.c:319`), and `datafile`'s limit for names computed before the path's length
is known (`datapath.c:43`).

## 6. Plan

Order: what everything else stands on first (pages, heap, timer, interrupts), then
input, then the disk and the file systems, then the rest. All of the modules planned are
written, and every safety property of the runs is proved but those of section 4's last
list. What would come next, in this order: `DirRight` (the slots of a long name are
read backwards, one pass of the loop each, so its invariant is like `CfgInv`'s);
`qsort` (the ranges on the stack cut the array, and the multiset of its elements stays); and the
dirty ranges of `TextUI`.

## 7. Not modelled

* **Third-party code.** `src/libs` (libpng, zlib) and `dtx/` (libdrawtext) are
  more than two thirds of the implementation's lines and none of its own logic; they are
  taken as they are, so the share of all lines that the modules model stays small.
* **Drawing.** `video.c` and `vbe.c` make one BIOS call each and fill in a structure;
  the rest of `image.c`, the tunnel and the fonts are arithmetic on pixels. In `Splash` the particles
  have no positions, so that `draw_psys` writes to the pixels around each of them
  (`splash/splash.c:379-388`) is not modelled, and `PicturesRight` says nothing of it; it says that blocks
  and pictures are there when they are used, and the row `StaysInBuffer` shows what is cleared. `gui/` is
  not in the Makefile's sources.
* **What has no callers:** writing to the disk, `unmask_irq`, `mask_irq`, `mtab_remove_node`,
  unmounting.
* **What runs once with interrupts off:** the polled dialogues with the keyboard
  controller and the mouse (`get_ccb` and its callers, `init_psaux`), the programming of the
  8254, `fsfat_create`'s reading of one sector, `segm.c`.
* **One call each:** `dirent.c` and the rest of `unistd.c` wrap the virtual file system;
  `ctype.c`, `rand.c` and the string functions of one loop (`strlen`, `strcpy`) decide nothing;
  `sb_volume` is empty; `power.c` and `panic.c` do not return.
* **Not compiled in:** `gdbstub.c`, the heap's multi-pool allocator.
* **Layout:** the echo of cursor keys in the shell (`shell.c:195`), borders, the clock, attributes.
