------------------------------- MODULE Mounts --------------------------------
(***************************************************************************)
(* How the boot drive's partitions come into the file system: mount_boot_fs *)
(* of src/kmain.c makes a directory for each, mounts the volume there       *)
(* (fs_mount, mtab_add) and names the directory after it; init_datapath     *)
(* then looks for a directory .data on one of them.                         *)
(*                                                                          *)
(* A mount is kept in the fs_node that is open on the directory, which      *)
(* mount_boot_fs closes.  The directory keeps its pointer to that node and  *)
(* reads it when a path crosses the mount, so the block's memory counts     *)
(* after it was freed, until something else gets the block.                 *)
(***************************************************************************)
EXTENDS Integers, Sequences

CONSTANTS
  Volumes,         (* what a partition may hold: [fs, label, data], where   *)
                   (* fs says if it is a FAT volume, label is a sequence of *)
                   (* characters, and data says if /.data is on it          *)
  MaxPart,         (* partitions of the drive                               *)
  Partitions,      (* the drives: sequences of Volumes                      *)
  Spare            (* blocks for fs_nodes, besides one for each partition   *)

ASSUME MountsAssumption == MaxPart \in Nat \ {0} /\ Spare \in Nat /\ \A v \in Partitions : Len(v) <= MaxPart

VARIABLES
  vols,            (* the partitions: sequence of Volumes                   *)
  partno, doing,   (* the partition mount_boot_fs is at, and its next step  *)
  dirs,            (* the root's entries: [name, fsnode], in their order    *)
  fsn,             (* the block of the open fs_node, and where it is open   *)
  mnt,             (* the mnt field in each block's memory                  *)
  mnt_list,        (* the mount table                                       *)
  pathbuf          (* the entry init_datapath settled on                    *)

mountVars == << vols, partno, doing, dirs, fsn, mnt, mnt_list, pathbuf >>
Blocks == 1 .. MaxPart + Spare
NoFs == 0                         (* no volume, or a null pointer *)
Own(i) == << "partition", i >>    (* /partition1 and so on *)
Volume(i) == vols[i]
HasFat(i) == Volume(i).fs
(* sane_fsname: also an empty label passes *)
Unprintable == << "?" >>
Sane(label) == label # Unprintable

MountsInit(drives) ==
  /\ vols \in drives
  /\ partno = 1 /\ doing = "mkdir" /\ dirs = << >> /\ fsn = [at |-> "closed", block |-> 1]
  /\ mnt = [b \in Blocks |-> NoFs] /\ mnt_list = << >> /\ pathbuf = << >>

-----------------------------------------------------------------------------
Named(name) == { k \in DOMAIN dirs : dirs[k].name = name }
First(S) == CHOOSE k \in S : \A j \in S : k <= j

(* mkdir: open creates the directory with an fs_node and close frees it;    *)
(* the name may be there already                                            *)
mkdir(b) ==
  /\ doing = "mkdir" /\ partno <= Len(vols)
  /\ IF Named(Own(partno)) = {}
     THEN /\ dirs' = Append(dirs, [name |-> Own(partno), fsnode |-> b])
          /\ mnt' = [mnt EXCEPT ![b] = NoFs]
     ELSE UNCHANGED << dirs, mnt >>
  /\ doing' = "open"
  /\ UNCHANGED << vols, partno, fsn, mnt_list, pathbuf >>

(* fs_open: across a mount, or with an fs_node of its own                   *)
Crosses(k) == mnt[dirs[k].fsnode] # NoFs
fs_open(b) ==
  /\ doing = "open"
  /\ LET k == First(Named(Own(partno))) IN
       /\ fsn' = [at |-> IF Crosses(k) THEN "volume" ELSE "memory", block |-> b]
       /\ mnt' = [mnt EXCEPT ![b] = NoFs]
  /\ doing' = "mount"
  /\ UNCHANGED << vols, partno, dirs, mnt_list, pathbuf >>

(* fs_mount on the open fs_node, and fs_rename: rename of a node on a FAT   *)
(* volume does nothing                                                      *)
mtab_add(node, fs) == mnt_list' = Append(mnt_list, [mpt |-> node, fs |-> fs])
BugKeepName(label) == Own(partno)
MountName(label) == IF Sane(label) THEN label ELSE Own(partno)
fs_mount ==
  /\ doing = "mount" /\ HasFat(partno)
  /\ mnt' = [mnt EXCEPT ![fsn.block] = partno]
  /\ mtab_add(fsn.block, partno)
  /\ dirs' = [k \in DOMAIN dirs |->
       IF fsn.at = "memory" /\ k = First(Named(Own(partno)))
       THEN [dirs[k] EXCEPT !.name = MountName(Volume(partno).label)] ELSE dirs[k]]
  /\ fsn' = [fsn EXCEPT !.at = "closed"] /\ partno' = partno + 1 /\ doing' = "mkdir"
  /\ UNCHANGED << vols, pathbuf >>

(* or there is no file system: close, and rmdir, which opens once more      *)
rmdir(b) ==
  /\ doing = "mount" /\ ~HasFat(partno)
  /\ mnt' = [mnt EXCEPT ![b] = NoFs]
  /\ LET k == First(Named(Own(partno))) IN
       dirs' = IF fsn.at = "volume" THEN dirs
               ELSE SubSeq(dirs, 1, k - 1) \o SubSeq(dirs, k + 1, Len(dirs))
  /\ fsn' = [fsn EXCEPT !.at = "closed"] /\ partno' = partno + 1 /\ doing' = "mkdir"
  /\ UNCHANGED << vols, mnt_list, pathbuf >>

(* init_datapath: opendir of /entry/.data, for each entry in their order    *)
DataIn == { k \in DOMAIN dirs : k = First(Named(dirs[k].name)) /\ Crosses(k)
                                  /\ Volume(mnt[dirs[k].fsnode]).data }
init_datapath ==
  /\ partno > Len(vols) /\ doing = "mkdir"
  /\ pathbuf' = IF DataIn = {} THEN << >> ELSE dirs[First(DataIn)].name
  /\ doing' = "done"
  /\ UNCHANGED << vols, partno, dirs, fsn, mnt, mnt_list >>

(* calloc gives the block that the same directory's fs_node had before, or  *)
(* any that is free                                                         *)
MountsNext == mkdir(partno) \/ fs_open(partno) \/ fs_mount \/ rmdir(partno) \/ init_datapath
MountsAny ==
  \/ fs_mount \/ init_datapath
  \/ \E b \in Blocks : mkdir(b) \/ fs_open(b) \/ rmdir(b)

-----------------------------------------------------------------------------
Booted == doing = "done"
(* what a program that opens /name gets to *)
ReachedBy(name) ==
  IF Named(name) = {} THEN NoFs ELSE mnt[dirs[First(Named(name))].fsnode]
NameOf(i) == IF Sane(Volume(i).label) THEN Volume(i).label ELSE Own(i)

(* Every volume is found under its label, or under its partition's number   *)
(* if the label cannot be a name, and nothing else is in the root; the data *)
(* directory is found if a volume has one; the mount table says the same.   *)
MountsRight ==
  Booted =>
    /\ \A i \in DOMAIN vols : HasFat(i) => ReachedBy(NameOf(i)) = i
    /\ \A k \in DOMAIN dirs : dirs[k].name # << >> /\ \E i \in DOMAIN vols : HasFat(i) /\ dirs[k].name = NameOf(i)
    /\ (pathbuf = << >>) = (\A i \in DOMAIN vols : HasFat(i) => ~Volume(i).data)
    /\ Len(mnt_list) = Len(dirs)
=============================================================================
