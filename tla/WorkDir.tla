------------------------------- MODULE WorkDir ------------------------------
(***************************************************************************)
(* Opening by path and the working directory: fs_open and fs_chdir of       *)
(* src/fs.c, on a FAT volume (open, close, load_dir and free_dir of         *)
(* src/fsfat.c) that is mounted in a directory of the memory filesystem.    *)
(*                                                                          *)
(* A directory of the volume that is open is loaded in memory and counts    *)
(* its references; the root directory is loaded once, and copied for each   *)
(* open.  A path is a sequence of names and of "/".                         *)
(***************************************************************************)
EXTENDS Integers, Sequences, FiniteSets

CONSTANTS
  Ents,      (* the volume: for each directory, the place each name is at;  *)
             (* directories are the domain, the other places are files      *)
  Empties,   (* the files of the volume that have no cluster                *)
  MemEnts,   (* the memory filesystem, in the same way, FatRoot being the   *)
             (* mount point                                                 *)
  Tokens,    (* names, and "/"                                              *)
  Paths,     (* the paths programs use                                      *)
  Objs,      (* bound: the directories loaded at a time, the root apart     *)
  MaxLost,   (* bound: calls that lose a loaded directory                   *)
  CWDSIZE    (* of the buffer for cwdpath, a name or "/" counting as one    *)

FatDirs == DOMAIN Ents
MemDirs == DOMAIN MemEnts
FatRoot == "fat_root"
MemRoot == "/"
Missing == "missing"

NoBad == "none"

(* A directory of the one filesystem has no entries of the other, but the   *)
(* mount point.                                                             *)
ASSUME WorkDirAssumption ==
  /\ FatRoot \in FatDirs /\ MemRoot \in MemDirs
  /\ FatDirs \cap MemDirs = {} /\ Missing \notin FatDirs \cup MemDirs
  /\ \A d \in FatDirs : \A nm \in DOMAIN Ents[d] : Ents[d][nm] \notin MemDirs \cup {Missing}
  /\ \A d \in MemDirs : \A nm \in DOMAIN MemEnts[d] :
       MemEnts[d][nm] \notin (FatDirs \ {FatRoot}) \cup {Missing}
  /\ Empties \cap (FatDirs \cup MemDirs) = {} /\ NoBad \notin FatDirs
  /\ "/" \in Tokens /\ Paths \subseteq Seq(Tokens) /\ << >> \notin Paths
  /\ Objs \subseteq Nat \ {0} /\ IsFiniteSet(Objs)
  /\ CWDSIZE \in Nat /\ MaxLost \in Nat

ROOTDIR == 0                        \* fatfs->rootdir
NoDir == -1
Free == [of |-> Missing, ref |-> 0]
NoNode == [type |-> "none", at |-> MemRoot]

VARIABLES
  obj,       (* the loaded directories: which, and their references         *)
  handle,    (* the program's open node, or NoNode                          *)
  asked,     (* history: the place it named                                 *)
  cwdnode, cwdpath,
  errno,     (* what the last fs_open that failed set                       *)
  stale,     (* history: the entry of the open file was read in a directory *)
             (* that open had freed                                         *)
  lost       (* history: calls that failed below a directory they loaded    *)

vars == << obj, handle, asked, cwdnode, cwdpath, errno, stale, lost >>

-----------------------------------------------------------------------------
(* What a path means: the place of each name, from a directory on           *)
IsName(token) == token # "/"
Names(path) ==
  LET upto[k \in 0 .. Len(path)] ==
        IF k = 0 THEN << >>
        ELSE IF IsName(path[k]) THEN Append(upto[k - 1], path[k]) ELSE upto[k - 1]
  IN  upto[Len(path)]
IsAbsolute(path) == path[1] = "/"

Enter(place, nm) ==
  IF nm = "." /\ place \in FatDirs \cup MemDirs THEN place
  ELSE IF place \in FatDirs /\ nm \in DOMAIN Ents[place] THEN Ents[place][nm]
  ELSE IF place \in MemDirs /\ nm \in DOMAIN MemEnts[place] THEN MemEnts[place][nm]
  ELSE Missing
Resolve(from, names) ==
  LET at[k \in 0 .. Len(names)] == IF k = 0 THEN from ELSE Enter(at[k - 1], names[k])
  IN  at[Len(names)]

(* The place a node is open on *)
PlaceOf(o) == IF o = ROOTDIR THEN FatRoot ELSE obj[o].of
Place(node) == IF node.type = "fat_dir" THEN PlaceOf(node.at) ELSE node.at

-----------------------------------------------------------------------------
(* fsfat.c: the walk of open.  w.dir is the directory reached, or NoDir,    *)
(* and w.dent the entry last found: the directory it is in and its place.   *)
FreeObjs(ob) == { o \in Objs : ob[o] = Free }
NewObj(ob) == CHOOSE o \in FreeObjs(ob) : \A p \in FreeObjs(ob) : o <= p

free_dir(ob, o) ==
  IF ob[o].ref - 1 > 0 THEN [ob EXCEPT ![o].ref = @ - 1] ELSE [ob EXCEPT ![o] = Free]

CwdDir == IF cwdnode.type = "fat_dir" THEN cwdnode.at ELSE NoDir

Leave(w, d) ==
  IF d = ROOTDIR \/ d = CwdDir THEN w ELSE [w EXCEPT !.obj = free_dir(@, d)]

(* One component; bad is a directory that the disk fails to give            *)
Component(w, nm, bad) ==
  LET of == IF w.dir = ROOTDIR THEN FatRoot ELSE w.obj[w.dir].of
      to == Ents[of][nm]
      new == NewObj(w.obj)
      goes == [w EXCEPT !.dent = [dir |-> w.dir, place |-> to]]
  IN  IF nm = "." THEN w
      ELSE IF nm \notin DOMAIN Ents[of] THEN [w EXCEPT !.err = "ENOENT"]
      ELSE IF to \in Empties THEN [w EXCEPT !.err = "unset"]
      ELSE IF to = FatRoot THEN Leave([goes EXCEPT !.dir = ROOTDIR], w.dir)
      ELSE IF to \notin FatDirs \/ to = bad
      THEN Leave([goes EXCEPT !.dir = NoDir], w.dir)
      ELSE Leave([goes EXCEPT !.dir = new, !.obj = [@ EXCEPT ![new] = [of |-> to, ref |-> 0]]], w.dir)

Walk(from, names, bad) ==
  LET at[k \in 0 .. Len(names)] ==
        IF k = 0 THEN [dir |-> from, obj |-> obj, err |-> "none",
                       dent |-> [dir |-> from, place |-> Missing]]
        ELSE LET w == at[k - 1] IN
          IF w.err # "none" THEN w
          ELSE IF w.dir = NoDir THEN [w EXCEPT !.err = "ENOTDIR"]
          ELSE Component(w, names[k], bad)
  IN  at[Len(names)]

(* open, after the walk: the node, or NoNode; the loaded directories; the   *)
(* error; whether the file's entry was read from a directory already freed; *)
(* and whether a loaded directory was forgotten                             *)
Failed(w) == [node |-> NoNode, obj |-> w.obj, err |-> w.err, stale |-> FALSE,
              lost |-> w.dir \notin {NoDir, ROOTDIR, CwdDir}]
OnFile(w) == [node |-> [type |-> "file", at |-> w.dent.place], obj |-> w.obj, err |-> "none",
              stale |-> w.dent.dir # ROOTDIR /\ w.obj[w.dent.dir] = Free, lost |-> FALSE]
OnDir(w, o) == [node |-> [type |-> "fat_dir", at |-> o],
                obj |-> [w.obj EXCEPT ![o].ref = @ + 1], err |-> "none",
                stale |-> FALSE, lost |-> FALSE]

Node(w) ==
  LET copy == NewObj(w.obj)
      held == [w EXCEPT !.obj = [@ EXCEPT ![copy] = [of |-> FatRoot, ref |-> 0]]]
  IN  IF w.err # "none" THEN Failed(w)
      ELSE IF w.dir = NoDir THEN OnFile(w)
      ELSE IF w.dir = ROOTDIR THEN OnDir(held, copy)
      ELSE OnDir(w, w.dir)

(* fsmem.c: open walks its own directories and leaves the rest of the path, *)
(* as an absolute one, to the filesystem of the mount point it reaches.     *)
Crossing(from, names) ==
  { k \in 0 .. Len(names) : Resolve(from, SubSeq(names, 1, k)) = FatRoot }
PastFile(from, names) ==
  \E k \in 0 .. Len(names) - 1 : Resolve(from, SubSeq(names, 1, k)) \notin MemDirs \cup {Missing}
MemNode(place) ==
  IF place = Missing THEN NoNode
  ELSE [type |-> IF place \in MemDirs THEN "mem_dir" ELSE "file", at |-> place]
OpenMem(from, names, bad) ==
  IF Crossing(from, names) = {}
  THEN LET place == Resolve(from, names) IN
       [node |-> MemNode(place), obj |-> obj, stale |-> FALSE, lost |-> FALSE,
        err |-> IF place # Missing THEN "none"
                ELSE IF PastFile(from, names) THEN "ENOTDIR" ELSE "ENOENT"]
  ELSE LET k == CHOOSE k \in Crossing(from, names) : \A j \in Crossing(from, names) : k <= j
       IN  Node(Walk(ROOTDIR, SubSeq(names, k + 1, Len(names)), bad))

(* fs.c *)
BugRelativeFromRoot(path, bad) ==
  IF IsAbsolute(path) \/ cwdnode.type # "fat_dir" THEN OpenMem(MemRoot, Names(path), bad)
  ELSE Node(Walk(cwdnode.at, Names(path), bad))
fs_open(path, bad) ==
  IF IsAbsolute(path) THEN OpenMem(MemRoot, Names(path), bad)
  ELSE IF cwdnode.type = "fat_dir" THEN Node(Walk(cwdnode.at, Names(path), bad))
  ELSE OpenMem(cwdnode.at, Names(path), bad)

(* fs_close, of the loaded directories that result *)
BugCloseNoFree(ob, node) == ob
fs_close(ob, node) == IF node.type = "fat_dir" THEN free_dir(ob, node.at) ELSE ob

-----------------------------------------------------------------------------
Init ==
  /\ obj = [o \in Objs |-> Free]
  /\ handle = NoNode /\ asked = Missing
  /\ cwdnode = [type |-> "mem_dir", at |-> MemRoot] /\ cwdpath = << "/" >>
  /\ errno = "none" /\ stale = FALSE /\ lost = 0

(* open needs room for two more loaded directories: the one it is in and    *)
(* the next                                                                 *)
Room == Cardinality(FreeObjs(obj)) >= 2

(* a file without a cluster fails to open with errno as it was              *)
Errno(err) == IF err = "unset" THEN errno ELSE err

Start(path) == IF IsAbsolute(path) THEN MemRoot ELSE Place(cwdnode)

open(path, bad) ==
  /\ handle = NoNode /\ Room
  /\ LET r == fs_open(path, bad) IN
       /\ r.lost => lost < MaxLost
       /\ handle' = r.node /\ obj' = r.obj
       /\ asked' = IF r.node = NoNode THEN Missing ELSE Resolve(Start(path), Names(path))
       /\ errno' = Errno(r.err) /\ stale' = r.stale
       /\ lost' = IF r.lost THEN lost + 1 ELSE lost
  /\ UNCHANGED << cwdnode, cwdpath >>

close ==
  /\ handle # NoNode
  /\ handle' = NoNode /\ asked' = Missing
  /\ obj' = fs_close(obj, handle) /\ stale' = FALSE
  /\ UNCHANGED << cwdnode, cwdpath, errno, lost >>

(* cwdpath without its last component: up to the last "/", which stays only *)
(* when it is the first                                                     *)
Slashes(text) == { k \in DOMAIN text : text[k] = "/" }
LastSlash(text) == CHOOSE k \in Slashes(text) : \A j \in Slashes(text) : j <= k
Up(text) == SubSeq(text, 1, IF LastSlash(text) = 1 THEN 1 ELSE LastSlash(text) - 1)

BugAlwaysAppend(text, path) ==
  IF Len(text) > 1 THEN text \o << "/" >> \o path ELSE text \o path
Append_(text, path) ==
  IF IsAbsolute(path) THEN path
  ELSE IF Len(text) > 1 THEN text \o << "/" >> \o path ELSE text \o path

(* fs_chdir to a path, text being the new cwdpath; when the path is not a   *)
(* directory the node is closed again and nothing else changes.             *)
Go(path, text, bad) ==
  LET r == fs_open(path, bad)
      isDir == r.node.type \in {"fat_dir", "mem_dir"}
  IN  /\ Room /\ (r.lost => lost < MaxLost)
      /\ errno' = Errno(r.err)
      /\ lost' = IF r.lost THEN lost + 1 ELSE lost
      /\ IF isDir
         THEN /\ cwdpath' = text
              /\ obj' = fs_close(r.obj, cwdnode)
              /\ cwdnode' = r.node
         ELSE /\ obj' = r.obj
              /\ UNCHANGED << cwdpath, cwdnode >>
      /\ UNCHANGED << handle, asked, stale >>

(* a path that is too long is a panic: the system stops *)
TooLong(path) == Len(cwdpath) + Len(path) > CWDSIZE

chdir(path, bad) ==
  /\ path \notin {<< "." >>, << ".." >>}
  /\ ~TooLong(path)
  /\ Go(path, Append_(cwdpath, path), bad)

chdir_up(bad) ==
  /\ Len(cwdpath) > 1
  /\ Go(Up(cwdpath), Up(cwdpath), bad)

-----------------------------------------------------------------------------
(* The disk may fail to give any directory but the root, in any call.       *)
AnyCall(chdirPaths) ==
  \/ \E bad \in FatDirs \cup {NoBad} :
       \/ \E p \in Paths : open(p, bad)
       \/ \E p \in chdirPaths : chdir(p, bad)
       \/ chdir_up(bad)
  \/ close

Spec == Init /\ [][AnyCall(Paths)]_vars

(* A working directory that just fits overruns the buffer: CwdFits.         *)
Fits(path) == Len(Append_(cwdpath, path)) < CWDSIZE
Careful == AnyCall({ p \in Paths : Fits(p) })
CarefulSpec == Init /\ [][Careful]_vars

-----------------------------------------------------------------------------
Nodes == {cwdnode, handle}
RefsTo(o) == (IF cwdnode.type = "fat_dir" /\ cwdnode.at = o THEN 1 ELSE 0)
             + (IF handle.type = "fat_dir" /\ handle.at = o THEN 1 ELSE 0)

TypeOK ==
  /\ \A o \in Objs : obj[o].of \in FatDirs \cup {Missing} /\ obj[o].ref \in 0 .. 2
  /\ \A n \in Nodes : n.type = "fat_dir" => n.at \in Objs
  /\ cwdnode.type \in {"fat_dir", "mem_dir"}
  /\ handle.type \in {"none", "fat_dir", "mem_dir", "file"}

(* Every loaded directory counts the nodes that are open on it, the working *)
(* directory's included, so that none is freed while it is in use; and      *)
(* those that no node is open on are what failed calls have lost: whatever  *)
(* paths the calls have, and directories the disk fails to give them.       *)
RefsCount ==
  /\ TypeOK
  /\ \A o \in Objs : obj[o].ref = RefsTo(o)
  /\ \A n \in Nodes : n.type = "fat_dir" => obj[n.at] # Free
  /\ Cardinality({ o \in Objs : obj[o] # Free /\ obj[o].ref = 0 }) = lost

(* An open node is on the place its path named when it was opened, through  *)
(* mount points, "." and "..", absolute or from the working directory: but  *)
(* a file whose entry open read in a directory it had freed is on whatever  *)
(* the memory then held.                                                    *)
OpenIsRight == handle # NoNode /\ ~stale => Place(handle) = asked

(* cwdpath names the working directory, whatever chdirs led there *)
CwdPathNamesCwd == Resolve(MemRoot, Names(cwdpath)) = Place(cwdnode)

-----------------------------------------------------------------------------
(* Statements of the code that do not hold *)

(* fsfat.c:392: fatdent is the entry that the walk found, and what open     *)
(* makes the node of a file of (451): it is still in memory then.           *)
EntryInMemory == ~stale

(* fs_chdir panics with "path too long" before cwdpath overruns its buffer, *)
(* the final 0 included.                                                    *)
CwdFits == Len(cwdpath) < CWDSIZE

(* fsfat.c:396: open gives up because "the last one wasn't a dir", and what *)
(* it opens as a file is none either.                                       *)
FileIsFile == handle.type = "file" => handle.at \notin FatDirs
=============================================================================
