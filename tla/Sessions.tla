------------------------------ MODULE Sessions ------------------------------
(***************************************************************************)
(* What fuzzing several targets from one process promises: every target    *)
(* has a session of its own, which goes through its own queue in cycles    *)
(* and only ever changes by its own work, as if it were fuzzed alone.      *)
(***************************************************************************)
EXTENDS Naturals

CONSTANTS NTargets,  \* number of targets
          MaxSeeds,  \* bound: seeds a queue may grow to
          MaxCycles  \* bound: queue cycles of one target

VARIABLE sess        \* per target: seeds queued, cycles begun, seeds to do

Targets == 0 .. NTargets - 1
Idle == [paths |-> 0, cycle |-> 0, todo |-> 0]

\* The initial corpus of target t is read, once, and is never empty.
Import(t) ==
    /\ sess[t] = Idle
    /\ \E n \in 1 .. MaxSeeds :
          sess' = [sess EXCEPT ![t] = [paths |-> n, cycle |-> 0, todo |-> n]]

\* Take up a seed. A cycle begins exactly when the last one has nothing left
\* to do; within a cycle a seed may be taken up again.
Take(t) ==
    /\ sess[t].paths > 0
    /\ LET s == sess[t]
       IN  \/ /\ s.todo = 0 \/ s.cycle = 0
              /\ s.cycle <= MaxCycles
              /\ sess' = [sess EXCEPT ![t] = [paths |-> s.paths,
                                              cycle |-> s.cycle + 1,
                                              todo |-> s.paths - 1]]
           \/ /\ s.cycle > 0
              /\ s.todo > 0
              /\ sess' = [sess EXCEPT ![t] = [paths |-> s.paths,
                                              cycle |-> s.cycle,
                                              todo |-> s.todo - 1]]

\* A mutant turns out interesting and is queued, still to do in this cycle.
Find(t) ==
    /\ sess[t].cycle > 0
    /\ sess[t].paths < MaxSeeds
    /\ LET s == sess[t]
       IN  sess' = [sess EXCEPT ![t] = [paths |-> s.paths + 1,
                                        cycle |-> s.cycle,
                                        todo |-> s.todo + 1]]

Init == sess = [t \in Targets |-> Idle]
Next == \E t \in Targets : Import(t) \/ Take(t) \/ Find(t)
Spec == Init /\ [][Next]_sess
=============================================================================
