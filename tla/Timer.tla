-------------------------------- MODULE Timer -------------------------------
(***************************************************************************)
(* The alarms of src/timer.c: a list of timer_event structures in the order *)
(* they are due, each with the ticks between it and the one before it.      *)
(*                                                                          *)
(* set_alarm and cancel_alarm change the list with interrupts disabled, and *)
(* set_alarm's search is taken one node at a time.  timer_handler calls the *)
(* functions of the alarms that are due from the interrupt; such a function *)
(* may set or cancel one alarm itself.                                      *)
(***************************************************************************)
EXTENDS Integers, Sequences

CONSTANTS Events, Funcs, Delays

ASSUME TimerAssumption == Delays \subseteq Nat \ {0}

VARIABLES
  evlist,    (* the list, a sequence of [ev, dt, func]                      *)
  walk,      (* set_alarm's search: the alarm, node, tsum; or NoWalk        *)
  ctx,       (* "main", or where the handler is: "loop", "func", "done"     *)
  left       (* history: what remains of the ticks each alarm was set for   *)

timerVars == << evlist, walk, ctx, left >>

NoWalk == [node |-> 0]
InUse == {evlist[k].ev : k \in DOMAIN evlist}

WithDt(node, dt) == [ev |-> node.ev, dt |-> dt, func |-> node.func]

(* evlist with a node after the first k, whose dt comes off the next one's *)
InsertAfter(k, node) ==
  [i \in 1 .. Len(evlist) + 1 |->
     IF i <= k THEN evlist[i]
     ELSE IF i = k + 1 THEN node
     ELSE IF i = k + 2 THEN WithDt(evlist[i - 1], evlist[i - 1].dt - node.dt)
     ELSE evlist[i - 1]]

BugForgetDelta(k) ==
  [i \in 1 .. Len(evlist) - 1 |-> IF i < k THEN evlist[i] ELSE evlist[i + 1]]
(* evlist without its k-th node, whose dt goes to the next one *)
Remove(k) ==
  [i \in 1 .. Len(evlist) - 1 |->
     IF i < k THEN evlist[i]
     ELSE IF i = k THEN WithDt(evlist[i + 1], evlist[i + 1].dt + evlist[k].dt)
     ELSE evlist[i + 1]]

(* a function called by the handler makes one call at most *)
MayCall == walk = NoWalk /\ ctx \in {"main", "func"}
AfterCall == IF ctx = "func" THEN "done" ELSE ctx

TimerInit ==
  /\ evlist = << >>
  /\ walk = NoWalk
  /\ ctx = "main"
  /\ left = [e \in Events |-> 0]

-----------------------------------------------------------------------------
(* set_alarm.  malloc comes before interrupts are disabled, so that the     *)
(* ticks count from here; a set_alarm that has to search has not returned.  *)
set_alarm(e, f, ticks) ==
  /\ MayCall
  /\ e \in Events \ InUse
  /\ left' = [left EXCEPT ![e] = ticks]
  /\ \/ /\ evlist # << >> => ticks < evlist[1].dt
        /\ evlist' = InsertAfter(0, [ev |-> e, dt |-> ticks, func |-> f])
        /\ ctx' = AfterCall
        /\ UNCHANGED walk
     \/ /\ evlist # << >> /\ ticks >= evlist[1].dt
        /\ walk' = [node |-> 1, tsum |-> evlist[1].dt, ev |-> e, func |-> f, ticks |-> ticks]
        /\ UNCHANGED << evlist, ctx >>

GoesOn == walk.node < Len(evlist) /\ walk.ticks > walk.tsum + evlist[walk.node + 1].dt

BugStepInPlace == walk # NoWalk /\ GoesOn /\ UNCHANGED timerVars
Step ==
  /\ walk # NoWalk /\ GoesOn
  /\ walk' = [walk EXCEPT !.node = @ + 1, !.tsum = @ + evlist[walk.node + 1].dt]
  /\ UNCHANGED << evlist, ctx, left >>

Insert ==
  /\ walk # NoWalk /\ ~GoesOn
  /\ evlist' = InsertAfter(walk.node,
                 [ev |-> walk.ev, dt |-> walk.ticks - walk.tsum, func |-> walk.func])
  /\ walk' = NoWalk
  /\ ctx' = AfterCall
  /\ UNCHANGED left

BugCancelLast(f) ==
  /\ MayCall
  /\ \/ /\ \A k \in DOMAIN evlist : evlist[k].func # f
        /\ UNCHANGED evlist
     \/ \E k \in DOMAIN evlist :
          /\ evlist[k].func = f
          /\ \A j \in k + 1 .. Len(evlist) : evlist[j].func # f
          /\ evlist' = Remove(k)
  /\ ctx' = AfterCall
  /\ UNCHANGED << walk, left >>
(* cancel_alarm takes out the first node with the function *)
cancel_alarm(f) ==
  /\ MayCall
  /\ \/ /\ \A k \in DOMAIN evlist : evlist[k].func # f
        /\ UNCHANGED evlist
     \/ \E k \in DOMAIN evlist :
          /\ evlist[k].func = f
          /\ \A j \in 1 .. k - 1 : evlist[j].func # f
          /\ evlist' = Remove(k)
  /\ ctx' = AfterCall
  /\ UNCHANGED << walk, left >>

(* timer_handler, which set_alarm and cancel_alarm keep out *)
Tick ==
  /\ ctx = "main" /\ walk = NoWalk
  /\ evlist' = [k \in DOMAIN evlist |->
                  IF k = 1 THEN WithDt(evlist[k], evlist[k].dt - 1) ELSE evlist[k]]
  /\ left' = [e \in Events |-> IF e \in InUse THEN left[e] - 1 ELSE left[e]]
  /\ ctx' = "loop"
  /\ UNCHANGED walk

BugIsDueLater == evlist # << >> /\ evlist[1].dt < 0
IsDue == evlist # << >> /\ evlist[1].dt <= 0

(* evlist = evlist->next, before the function is called *)
Fire ==
  /\ ctx = "loop" /\ IsDue
  /\ evlist' = Tail(evlist)
  /\ ctx' = "func"
  /\ UNCHANGED << walk, left >>

FuncReturns ==
  /\ ctx \in {"func", "done"} /\ walk = NoWalk
  /\ ctx' = "loop"
  /\ UNCHANGED << evlist, walk, left >>

Return ==
  /\ ctx = "loop" /\ ~IsDue
  /\ ctx' = "main"
  /\ UNCHANGED << evlist, walk, left >>

TimerNext ==
  \/ \E e \in Events, f \in Funcs, n \in Delays : set_alarm(e, f, n)
  \/ Step \/ Insert
  \/ \E f \in Funcs : cancel_alarm(f)
  \/ Tick \/ Fire \/ FuncReturns \/ Return

TimerSpec == TimerInit /\ [][TimerNext]_timerVars

(* The processor goes on, and an interrupt that comes while interrupts are  *)
(* disabled stays pending in the interrupt controller until they are        *)
(* enabled: the main thread cannot keep the tick out for ever.              *)
Fairness ==
  /\ WF_timerVars(Step \/ Insert)
  /\ WF_timerVars(Fire \/ FuncReturns \/ Return)
  /\ SF_timerVars(Tick)
LiveSpec == TimerSpec /\ Fairness

-----------------------------------------------------------------------------
Node == [ev : Events, dt : Int, func : Funcs]
Walk == [node : Nat \ {0}, tsum : Int, ev : Events, func : Funcs, ticks : Delays]

TimerTypeOK ==
  /\ evlist \in Seq(Node)
  /\ \/ walk = NoWalk
     \/ walk \in Walk /\ walk.node <= Len(evlist) /\ ctx \in {"main", "func"}
  /\ ctx \in {"main", "loop", "func", "done"}
  /\ left \in [Events -> Int]

(* The deltas of the list up to an alarm add up to what remains of the      *)
(* ticks it was set for, however alarms were set, cancelled and fired, and  *)
(* so does tsum in the middle of a search.                                  *)
DeltasAddUp ==
  /\ \A k \in DOMAIN evlist :
       left[evlist[k].ev] = evlist[k].dt + (IF k = 1 THEN 0 ELSE left[evlist[k - 1].ev])
  /\ walk # NoWalk => walk.tsum = left[evlist[walk.node].ev]

(* each structure is on the list once *)
NodesDistinct ==
  /\ \A j, k \in DOMAIN evlist : evlist[j].ev = evlist[k].ev => j = k
  /\ walk # NoWalk => walk.ev \notin InUse

(* No alarm goes by: all of them have ticks left outside of the interrupt,  *)
(* none is overdue in it.                                                   *)
NoneOverdue ==
  \A k \in DOMAIN evlist : left[evlist[k].ev] >= IF ctx = "main" THEN 1 ELSE 0

(* The list implements the set of alarms; one whose search goes on has not  *)
(* been set.                                                                *)
Clock == INSTANCE AlarmClock WITH
  alarms <- {[ev |-> evlist[k].ev, func |-> evlist[k].func, left |-> left[evlist[k].ev]] :
               k \in DOMAIN evlist}
ClockSpec == Clock!Spec

(* An alarm goes off or is cancelled, also when functions keep setting      *)
(* alarms from the interrupt and the main thread keeps setting shorter ones.*)
AlarmsGoOff == \A e \in Events : e \in InUse ~> e \notin InUse
=============================================================================
