------------------------------- MODULE FatDir -------------------------------
(***************************************************************************)
(* Reading a directory of a FAT volume (src/fsfat.c): its clusters are      *)
(* gathered along their chain, its entries parsed once into the array that  *)
(* readdir and find_entry use.  The entries on disk are the work of other   *)
(* systems: a file takes the first run of free slots, a long name is split  *)
(* over slots before the file's own, and erasing marks slots as unused.     *)
(***************************************************************************)
EXTENDS Integers, Sequences, SequencesExt, FiniteSetsExt

CONSTANTS
  LongNames,   (* sequences of characters                                   *)
  ShortNames,  (* 8.3 names without their padding, and whose they are:      *)
               (* [base, ext, attr]                                         *)
  Dot,         (* the character                                             *)
  PART,        (* characters of a name in one slot: 13                      *)
  MAX_NAME,    (* 195                                                       *)
  PerCluster,  (* slots of a cluster                                        *)
  MaxEnt,      (* bound: slots that are written                             *)
  Labels,      (* the attribute of a volume's label, "volid" or             *)
               (* "volid+archive", or "none" if it has none                 *)
  Erasers      (* "aware" of long names, or "dos"                           *)

ASSUME FatDirAssumption ==
  /\ {PART, MAX_NAME, PerCluster, MaxEnt} \subseteq Nat \ {0}
  /\ Erasers \subseteq {"aware", "dos"}

VARIABLES
  slots,       (* the entries on disk                                       *)
  files,       (* history: for each slot of a file, the file's name; files  *)
               (* are the functions' domain                                 *)
  dirstate,    (* "disk", "loading", "parsing", "open" or "failed"          *)
  ent,         (* the entries in memory                                     *)
  pi, prev,    (* the loop of parse_dir_entries                             *)
  fsent, cur_ent,
  listed       (* history: what readdir gave since the last rewinddir       *)

dirVars == << slots, files, dirstate, ent, pi, prev, fsent, cur_ent, listed >>

Slot(state, attr, name, last) == [state |-> state, attr |-> attr, name |-> name, last |-> last]
Null == Slot("null", "file", << >>, FALSE)
Short(name, attr) == Slot("used", attr, name, FALSE)
LabelName == [base |-> << 1 >>, ext |-> << >>]

DirInit(labels) ==
  /\ \E label \in labels :
       slots = [s \in 1 .. MaxEnt |-> IF label # "none" /\ s = 1 THEN Short(LabelName, label) ELSE Null]
  /\ files = << >>
  /\ dirstate = "disk" /\ ent = << >> /\ pi = 0 /\ prev = 0
  /\ fsent = << >> /\ cur_ent = 0 /\ listed = << >>
Idle == UNCHANGED << dirstate, ent, pi, prev, fsent, cur_ent, listed >>

-----------------------------------------------------------------------------
(* Another system writes the directory *)
Parts(n) == (Len(n) + PART - 1) \div PART
PartOf(n, k) == SubSeq(n, (k - 1) * PART + 1, IF k * PART < Len(n) THEN k * PART ELSE Len(n))
(* the last part comes first *)
Lfn(n) == [i \in 1 .. Parts(n) |->
             LET k == Parts(n) - i + 1 IN Slot("used", "lfn", PartOf(n, k), k = Parts(n))]

Formatted(s) == s.base \o (IF s.ext = << >> THEN << >> ELSE << Dot >> \o s.ext)
Alias == [base |-> << 0 >>, ext |-> << >>]     (* of a file with a long name *)

Runs(len) ==
  { at \in 1 .. MaxEnt - len + 1 : \A s \in at .. at + len - 1 : slots[s].state # "used" }
Write(entries, name) ==
  /\ dirstate = "disk" /\ Runs(Len(entries)) # {}
  /\ \A s \in DOMAIN files : files[s] # name
  /\ LET at == Min(Runs(Len(entries)))
         own == at + Len(entries) - 1
     IN  /\ slots' = [s \in 1 .. MaxEnt |-> IF s \in at .. own THEN entries[s - at + 1] ELSE slots[s]]
         /\ files' = [s \in DOMAIN files \union {own} |-> IF s = own THEN name ELSE files[s]]
  /\ Idle

Create ==
  \/ \E s \in ShortNames : Write(<< Short(s, s.attr) >>, Formatted(s))
  \/ \E n \in LongNames : Write(Lfn(n) \o << Short(Alias, "file") >>, n)

Erase ==
  /\ dirstate = "disk"
  /\ \E own \in DOMAIN files, by \in Erasers :
       LET before == { s \in 1 .. own - 1 : \A t \in s .. own - 1 : slots[t].attr = "lfn" }
           gone == {own} \union (IF by = "aware" THEN before ELSE {})
       IN  /\ slots' = [s \in 1 .. MaxEnt |-> IF s \in gone THEN [slots[s] EXCEPT !.state = "unused"] ELSE slots[s]]
           /\ files' = [s \in DOMAIN files \ {own} |-> files[s]]
  /\ Idle

-----------------------------------------------------------------------------
(* load_dir: a cluster at a time, of which any may not be readable *)
ReadCluster(works) ==
  /\ dirstate \in {"disk", "loading"}
  /\ IF ~works THEN dirstate' = "failed" /\ ent' = << >>
     ELSE LET upto == Len(ent) + PerCluster IN
          /\ ent' = [s \in 1 .. upto |-> IF s <= MaxEnt THEN slots[s] ELSE Null]
          /\ dirstate' = IF upto >= MaxEnt THEN "parsing" ELSE "loading"
  /\ UNCHANGED << slots, files, pi, prev, fsent, cur_ent, listed >>

(* dent_filename: the parts right before the entry, the first of them being *)
(* the nearest, up to one that is not full or is marked as the last.  Parts *)
(* of erased names have not been told from others.                          *)
BugNearest(i) == << i - 1 >>
PartsBefore(i) ==
  LET ends == { j \in prev + 1 .. i - 1 : Len(ent[j].name) < PART \/ ent[j].last }
      last == IF ends = {} THEN prev + 1 ELSE Max(ends)
  IN  [k \in 1 .. i - last |-> i - k]
dent_filename(i) ==
  IF i - 1 > prev
  THEN FlattenSeq([k \in DOMAIN PartsBefore(i) |-> ent[PartsBefore(i)[k]].name])
  ELSE IF ent[i].name.base = << >> THEN << >> ELSE Formatted(ent[i].name)

IsListed(e) == e.state # "unused" /\ e.attr \notin {"volid", "lfn"}

(* one turn of the loop of parse_dir_entries *)
ParseEntry ==
  /\ dirstate = "parsing" /\ pi < Len(ent) /\ ent[pi + 1].state # "null"
  /\ LET i == pi + 1 IN
       /\ fsent' = IF IsListed(ent[i]) /\ dent_filename(i) # << >>
                   THEN Append(fsent, [name |-> dent_filename(i), type |-> ent[i].attr, data |-> i])
                   ELSE fsent
       /\ prev' = IF ent[i].attr = "lfn" THEN prev ELSE i
       /\ pi' = i
  /\ UNCHANGED << slots, files, dirstate, ent, cur_ent, listed >>

ParseEnds ==
  /\ dirstate = "parsing" /\ (pi = Len(ent) \/ ent[pi + 1].state = "null")
  /\ dirstate' = "open" /\ cur_ent' = 0
  /\ UNCHANGED << slots, files, ent, pi, prev, fsent, listed >>

readdir ==
  /\ dirstate = "open" /\ cur_ent < Len(fsent)
  /\ cur_ent' = cur_ent + 1
  /\ listed' = Append(listed, fsent[cur_ent + 1].name)
  /\ UNCHANGED << slots, files, dirstate, ent, pi, prev, fsent >>

rewinddir ==
  /\ dirstate = "open" /\ cur_ent > 0
  /\ cur_ent' = 0 /\ listed' = << >>
  /\ UNCHANGED << slots, files, dirstate, ent, pi, prev, fsent >>

DirNext ==
  \/ Create \/ Erase
  \/ \E works \in BOOLEAN : ReadCluster(works)
  \/ ParseEntry \/ ParseEnds \/ readdir \/ rewinddir

(* the first entry of that name, or 0 *)
find_entry(name) ==
  LET hits == SelectSeq(fsent, LAMBDA e : e.name = name) IN IF hits = << >> THEN 0 ELSE hits[1].data

-----------------------------------------------------------------------------
DirTypeOK ==
  /\ dirstate \in {"disk", "loading", "parsing", "open", "failed"}
  /\ prev <= pi /\ pi <= Len(ent) /\ cur_ent \in 0 .. Len(fsent)

(* The directory lists every file once, by the name it was given, in the    *)
(* order of the slots, and finds each by that name, whatever was erased and *)
(* written in between; a listing is complete each time it comes to its end. *)
DirRight ==
  /\ DirTypeOK
  /\ dirstate = "open" =>
       /\ [k \in DOMAIN fsent |-> fsent[k].name] =
            [k \in 1 .. Cardinality(DOMAIN files) |-> files[SetToSortSeq(DOMAIN files, <)[k]]]
       /\ \A s \in DOMAIN files : find_entry(files[s]) = s
       /\ listed = SubSeq([k \in DOMAIN fsent |-> fsent[k].name], 1, cur_ent)

(* A name fits the array it is put together in *)
NamesFit == \A k \in DOMAIN fsent : Len(fsent[k].name) < MAX_NAME
=============================================================================
