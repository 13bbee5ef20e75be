----------------------------- MODULE AlarmClock -----------------------------
(***************************************************************************)
(* What timer.c promises: an alarm set for n ticks goes off in the n-th     *)
(* timer interrupt after the call, unless it is cancelled before, and       *)
(* cancel_alarm takes back the alarm of its function that is due first.     *)
(* Nothing is said of the order of alarms that are due in the same tick.    *)
(***************************************************************************)
EXTENDS Integers

CONSTANTS
  Events,    (* the timer_event structures malloc returns                   *)
  Funcs,     (* the functions alarms call                                   *)
  Delays     (* the numbers of ticks alarms are set for                     *)

VARIABLES
  alarms,    (* the alarms set and not over: [ev, func, left]               *)
  ctx        (* "main" outside of the interrupt; in it, "loop" when it      *)
             (* looks for the next alarm, "func" when it calls its function *)
             (* and "done" when that has made its call                      *)

clock == << alarms, ctx >>

Alarm == [ev : Events, func : Funcs, left : Int]
InUse == {a.ev : a \in alarms}
Due == {a \in alarms : a.left = 0}
AfterCall == IF ctx = "func" THEN "done" ELSE ctx

Init == alarms = {} /\ ctx = "main"

set_alarm(e, f, n) ==
  /\ ctx \in {"main", "func"}
  /\ e \in Events \ InUse
  /\ alarms' = alarms \union {[ev |-> e, func |-> f, left |-> n]}
  /\ ctx' = AfterCall

cancel_alarm(f) ==
  /\ ctx \in {"main", "func"}
  /\ LET Mine == {a \in alarms : a.func = f} IN
       IF Mine = {} THEN UNCHANGED alarms
       ELSE \E a \in Mine : /\ \A b \in Mine : a.left <= b.left
                            /\ alarms' = alarms \ {a}
  /\ ctx' = AfterCall

(* the interrupt begins: one tick has passed for every alarm *)
Tick ==
  /\ ctx = "main"
  /\ alarms' = {[a EXCEPT !.left = @ - 1] : a \in alarms}
  /\ ctx' = "loop"

Fire ==
  /\ ctx = "loop"
  /\ \E a \in Due : alarms' = alarms \ {a}
  /\ ctx' = "func"

FuncReturns ==
  /\ ctx \in {"func", "done"}
  /\ ctx' = "loop"
  /\ UNCHANGED alarms

(* the interrupt ends only when no alarm is due *)
Return ==
  /\ ctx = "loop"
  /\ Due = {}
  /\ ctx' = "main"
  /\ UNCHANGED alarms

Next ==
  \/ \E e \in Events, f \in Funcs, n \in Delays : set_alarm(e, f, n)
  \/ \E f \in Funcs : cancel_alarm(f)
  \/ Tick \/ Fire \/ FuncReturns \/ Return

Spec == Init /\ [][Next]_clock
=============================================================================
