------------------------------ MODULE RecentLog ------------------------------
(***************************************************************************)
(* What the guarding-condition log is for: each target has a log of the    *)
(* conditions its runs evaluated, a run logs to the log of the current     *)
(* target only, and the estimate read between two runs is one of the last  *)
(* Capacity conditions of the current target's log.                        *)
(***************************************************************************)
EXTENDS Integers, Sequences

CONSTANTS Targets, Records, Capacity,
          NothingSeen,  \* the estimate of an empty log
          Observe(_)    \* what a reader makes of a sequence of records

VARIABLES cur,      \* the current target
          running,  \* is the program running?
          log,      \* all that was ever logged, by target
          seen      \* the last estimate

vars == <<cur, running, log, seen>>

\* The last Capacity records of a log.
Recent(s) == IF Len(s) <= Capacity THEN s
             ELSE SubSeq(s, Len(s) - Capacity + 1, Len(s))

Init ==
  /\ cur \in Targets
  /\ running = FALSE
  /\ log = [t \in Targets |-> <<>>]
  /\ seen = NothingSeen

Switch ==
  /\ ~running
  /\ cur' \in Targets
  /\ UNCHANGED <<running, log, seen>>

Start == ~running /\ running' = TRUE /\ UNCHANGED <<cur, log, seen>>

Log ==
  /\ running
  /\ \E r \in Records : log' = [log EXCEPT ![cur] = Append(@, r)]
  /\ UNCHANGED <<cur, running, seen>>

End == running /\ running' = FALSE /\ UNCHANGED <<cur, log, seen>>

Estimate ==
  /\ ~running
  /\ seen' = Observe(Recent(log[cur]))
  /\ UNCHANGED <<cur, running, log>>

Next == Switch \/ Start \/ Log \/ End \/ Estimate

Spec == Init /\ [][Next]_vars
=============================================================================
