------------------------------- MODULE CfgFile ------------------------------
(***************************************************************************)
(* Configuration files (src/cfgfile.c): the list of options that            *)
(* load_cfglist reads from the lines of a file and that programs add to and *)
(* remove from.  Options are linked from head to tail, and looked up from   *)
(* the head; keys that differ in case only are one key.                     *)
(***************************************************************************)
EXTENDS Integers, Sequences, FiniteSets, SequencesExt

CONSTANTS
  Keys, Values,
  CfgFiles,    (* the files: sequences of lines, each an option or Skipped  *)
  MaxOpt       (* bound: options ever allocated                             *)

Skipped == [key |-> "", val |-> 0]      (* a comment, or malformed *)
NULL == 0

ASSUME CfgAssumption ==
  /\ MaxOpt \in Nat /\ CfgFiles # {}
  /\ \A f \in CfgFiles : f \in Seq([key : Keys, val : Values] \union {Skipped})

VARIABLES
  rest,         (* the lines of the file that are still to be read          *)
  opt, next,    (* the options, and the next one of each                    *)
  head, tail,   (* tail is also Dummy, a local variable of cfg_remove       *)
  kept          (* history: the options set and not removed, oldest first   *)

cfgVars == << rest, opt, next, head, tail, kept >>
Opts == 1 .. MaxOpt
Dummy == -1

CfgInit(files) ==
  /\ rest \in files
  /\ opt = << >> /\ next = [o \in Opts |-> NULL]
  /\ head = NULL /\ tail = NULL
  /\ kept = << >>

(* The options from o on, in the list's order *)
From(o) ==
  LET at[k \in 1 .. MaxOpt] ==
        IF k = 1 THEN o ELSE IF at[k - 1] = NULL THEN NULL ELSE next[at[k - 1]]
      len == Cardinality({ k \in 1 .. MaxOpt : at[k] # NULL })
  IN  [k \in 1 .. len |-> at[k]]
Chain == From(head)

(* the first of the options es with that key, or 0 *)
FirstWith(es, key) ==
  LET hits == { k \in DOMAIN es : es[k].key = key }
  IN  IF hits = {} THEN 0 ELSE CHOOSE k \in hits : \A j \in hits : k <= j
OptionsInOrder == [k \in DOMAIN Chain |-> opt[Chain[k]]]

cfg_getopt(key) ==
  LET k == FirstWith(OptionsInOrder, key) IN IF k = 0 THEN NULL ELSE Chain[k]

cfg_setstr(key, val) ==
  LET o == Len(opt) + 1 IN
  /\ o \in Opts
  /\ opt' = Append(opt, [key |-> key, val |-> val])
  /\ IF head # NULL
     THEN next' = [next EXCEPT ![tail] = o] /\ UNCHANGED head
     ELSE head' = o /\ UNCHANGED next
  /\ tail' = o
  /\ kept' = Append(kept, opt'[o])

LoadLine ==
  /\ rest # << >>
  /\ rest' = Tail(rest)
  /\ IF Head(rest) = Skipped
     THEN UNCHANGED << opt, next, head, tail, kept >>
     ELSE cfg_setstr(Head(rest).key, Head(rest).val)

Loaded == rest = << >>
SetStr == Loaded /\ (\E k \in Keys, v \in Values : cfg_setstr(k, v)) /\ UNCHANGED rest

(* a line or a call for which malloc has no memory *)
NoMemory ==
  /\ rest # << >>
  /\ rest' = Tail(rest)
  /\ UNCHANGED << opt, next, head, tail, kept >>

Before(o) ==
  LET k == CHOOSE k \in DOMAIN Chain : Chain[k] = o
  IN  IF k = 1 THEN Dummy ELSE Chain[k - 1]

BugTailStays(o) == tail
TailWithout(o) == IF tail = o THEN Before(o) ELSE tail

cfg_remove(key) ==
  LET o == cfg_getopt(key) IN
  /\ Loaded /\ o # NULL
  /\ IF Before(o) = Dummy
     THEN head' = next[o] /\ UNCHANGED next
     ELSE next' = [next EXCEPT ![Before(o)] = next[o]] /\ UNCHANGED head
  /\ tail' = TailWithout(o)
  /\ kept' = RemoveAt(kept, FirstWith(kept, key))
  /\ UNCHANGED << rest, opt >>

CfgNext == LoadLine \/ NoMemory \/ SetStr \/ \E k \in Keys : cfg_remove(k)

-----------------------------------------------------------------------------
CfgTypeOK ==
  /\ opt \in Seq([key : Keys, val : Values])
  /\ next \in [Opts -> Opts \union {NULL}]
  /\ head \in Opts \union {NULL} /\ tail \in Opts \union {NULL, Dummy}

(* The list is what was set and not removed, in that order, after any       *)
(* options have been added behind removed ones; where it is not empty, tail *)
(* is its last option and never the local variable of a call that is over.  *)
CfgRight ==
  /\ CfgTypeOK
  /\ OptionsInOrder = kept
  /\ Chain # << >> => tail = Last(Chain)

(* What cfg_setstr has set, cfg_getstr gives *)
SetReadsBack ==
  [][\A k \in Keys, v \in Values :
       Loaded /\ cfg_setstr(k, v) => opt'[cfg_getopt(k)'].val = v]_cfgVars
=============================================================================
