-------------------------- MODULE ProgramSideProof --------------------------
(***************************************************************************)
(* Proofs about what is put into the program under test and under it: the  *)
(* guarding-condition log, for every number of targets, every ring size and *)
(* every number of kills, the scores of the instrumentation pass, the replaced *)
(* allocator, and the fork server of the patched emulator.                 *)
(***************************************************************************)
EXTENDS GcLog, ProgramSide, FiniteSetTheorems, FunctionTheorems, SequenceTheorems,
        WellFoundedInduction, TLAPS

-----------------------------------------------------------------------------
(***************************************************************************)
(* The guarding-condition log.                                             *)
(***************************************************************************)

\* The arithmetic of the ring: `%' below twice the size of the ring.
LEMMA RingModulo ==
  ASSUME NEW M \in Nat \ {0}, NEW x \in 0 .. 2 * M - 1
  PROVE  x % M = IF x < M THEN x ELSE x - M
<1>1. CASE x < M
  BY <1>1, x \in Nat, x = 0 * M + x
<1>2. CASE x >= M
  BY <1>2, x = 1 * M + (x - M), x - M \in 0 .. M - 1
<1> QED BY <1>1, <1>2

\* Advancing the tail adds one to how far behind every filled slot is.
LEMMA NextSlotStep ==
  ASSUME NEW i \in Slots
  PROVE  /\ NextSlot(i) \in Slots
         /\ NextSlot(i) = IF i + 1 = MAX_LOG_NUM THEN 0 ELSE i + 1
<1>1. MAX_LOG_NUM \in Nat \ {0}
  BY GcLogAssumption
<1>2. i + 1 \in 0 .. 2 * MAX_LOG_NUM - 1
  BY <1>1 DEF Slots
<1> DEFINE y == i + 1
<1>3. y % MAX_LOG_NUM = IF y < MAX_LOG_NUM THEN y ELSE y - MAX_LOG_NUM
  <2> HIDE DEF y
  <2>1. y \in 0 .. 2 * MAX_LOG_NUM - 1
    BY <1>2 DEF y
  <2> QED BY <1>1, <2>1, RingModulo
<1> QED BY <1>1, <1>3 DEF NextSlot, Slots

\* The slot k records behind the tail.
LEMMA BehindIs ==
  ASSUME TypeOK, NEW t \in Targets, NEW k \in 1 .. MAX_LOG_NUM - 1
  PROVE  Behind(t, k) = IF k <= tail[t] THEN tail[t] - k
                                        ELSE tail[t] - k + MAX_LOG_NUM
<1>1. MAX_LOG_NUM \in Nat \ {0} /\ tail[t] \in 0 .. MAX_LOG_NUM - 1
  BY GcLogAssumption DEF TypeOK, Slots
<1> DEFINE y == tail[t] - k + MAX_LOG_NUM
<1>2. y \in 0 .. 2 * MAX_LOG_NUM - 1
  BY <1>1
<1>3. y % MAX_LOG_NUM = IF y < MAX_LOG_NUM THEN y ELSE y - MAX_LOG_NUM
  <2> HIDE DEF y
  <2> QED BY <1>1, <1>2, RingModulo
<1> QED BY <1>1, <1>3 DEF Behind

-----------------------------------------------------------------------------
(* Types.                                                                  *)

LEMMA TypeInit == Init => TypeOK
<1> SUFFICES ASSUME Init PROVE TypeOK
  OBVIOUS
<1> USE GcLogAssumption
<1>1. Fresh \in LogData
  BY DEF Fresh, LogData
<1>2. log_data \in [Targets -> [Slots -> LogData]]
  BY <1>1 DEF Init
<1>3. tail \in [Targets -> Slots]
  BY DEF Init, Slots
<1>4. count \in [Targets -> 0 .. MAX_LOG_NUM]
  BY DEF Init
<1>5. logged \in [Targets -> Seq(Records)]
  BY DEF Init
<1>6. cuts \in [Targets -> Nat]
  BY DEF Init
<1> QED BY <1>1, <1>2, <1>3, <1>4, <1>5, <1>6 DEF Init, TypeOK

LEMMA TypeStep == TypeOK /\ [Next]_vars => TypeOK'
<1> SUFFICES ASSUME TypeOK, [Next]_vars PROVE TypeOK'
  OBVIOUS
<1> USE GcLogAssumption
<1>1. ASSUME NEW r \in Records, Enter(r) PROVE TypeOK'
  BY <1>1 DEF TypeOK, Enter, fuzzVars, ring, history, Records, LogData
<1>2. CASE Count
  BY <1>2 DEF TypeOK, Count, fuzzVars, history
<1>3. CASE WriteIndex
  <2>1. [index |-> record.index, expr |-> log_data[dst][tail[dst]].expr] \in LogData
    BY <1>3 DEF TypeOK, LogData
  <2>2. log_data' \in [Targets -> [Slots -> LogData]]
    BY <1>3, <2>1 DEF TypeOK, WriteIndex
  <2> QED BY <1>3, <2>2 DEF TypeOK, WriteIndex, fuzzVars, history
<1>4. CASE WriteExpr
  <2>1. [index |-> log_data[dst][tail[dst]].index, expr |-> record.expr] \in LogData
    BY <1>4 DEF TypeOK, LogData
  <2>2. log_data' \in [Targets -> [Slots -> LogData]]
    BY <1>4, <2>1 DEF TypeOK, WriteExpr
  <2> QED BY <1>4, <2>2 DEF TypeOK, WriteExpr, fuzzVars, history
<1>5. CASE Advance
  <2>1. tail' \in [Targets -> Slots]
    BY <1>5, NextSlotStep DEF TypeOK, Advance
  <2>2. logged' \in [Targets -> Seq(Records)]
    BY <1>5 DEF TypeOK, Advance
  <2> QED BY <1>5, <2>1, <2>2 DEF TypeOK, Advance, fuzzVars
<1>6. CASE EndRun
  BY <1>6 DEF TypeOK, EndRun, ring, history
<1>7. CASE KillRun
  <2>1. cuts' \in [Targets -> Nat]
    BY <1>7 DEF TypeOK, KillRun
  <2> QED BY <1>7, <2>1 DEF TypeOK, KillRun, ring
<1>8. ASSUME NEW t \in Targets, SwitchTarget(t) PROVE TypeOK'
  BY <1>8 DEF TypeOK, SwitchTarget, ring, history
<1>9. CASE StartRun
  BY <1>9 DEF TypeOK, StartRun, ring, history
<1>10. CASE GetProb
  BY <1>10 DEF TypeOK, GetProb, ring, history
<1>11. CASE UNCHANGED vars
  BY <1>11 DEF TypeOK, vars, fuzzVars, ring, history
<1> QED
  BY <1>1, <1>2, <1>3, <1>4, <1>5, <1>6, <1>7, <1>8, <1>9, <1>10, <1>11 DEF Next

\* Every field of the log has its type: counters within the ring, tails in it.
THEOREM TypeCorrect == Spec => []TypeOK
BY TypeInit, TypeStep, PTL DEF Spec

-----------------------------------------------------------------------------
(* Which ring a write goes to.                                             *)

LEMMA WritesToCurrentStep == WritesToCurrent /\ [Next]_vars => WritesToCurrent'
  BY DEF WritesToCurrent, Next, vars, fuzzVars, ring, history, Enter, Count,
         WriteIndex, WriteExpr, Advance, EndRun, KillRun, SwitchTarget,
         StartRun, GetProb

\* A write that is open goes to the ring of the target selected for this run,
\* and none is open while the fuzzer reads or switches.
THEOREM WritesToCurrentHolds == Spec => []WritesToCurrent
<1>1. Init => WritesToCurrent
  BY DEF Init, WritesToCurrent
<1> QED BY <1>1, WritesToCurrentStep, PTL DEF Spec

-----------------------------------------------------------------------------
(* The counter.                                                            *)

\* While a write is open its record is counted but not yet complete.
Counted ==
  writer \in {"index", "expr", "tail"}
    => MinOf(Len(logged[dst]) + 1, MAX_LOG_NUM) <= count[dst]

LEMMA CountStep ==
  TypeOK /\ TypeOK' /\ Counted /\ CountBounded /\ [Next]_vars
    => Counted' /\ CountBounded'
<1> SUFFICES ASSUME TypeOK, TypeOK', Counted, CountBounded, [Next]_vars
             PROVE  Counted' /\ CountBounded'
  OBVIOUS
<1> USE GcLogAssumption
<1>1. ASSUME NEW r \in Records, Enter(r) PROVE Counted' /\ CountBounded'
  BY <1>1 DEF TypeOK, Counted, CountBounded, MinOf, Enter, fuzzVars, ring, history
<1>2. CASE Count
  BY <1>2 DEF TypeOK, Counted, CountBounded, MinOf, Count, fuzzVars, history
<1>3. CASE WriteIndex
  BY <1>3 DEF TypeOK, Counted, CountBounded, MinOf, WriteIndex, fuzzVars, history
<1>4. CASE WriteExpr
  BY <1>4 DEF TypeOK, Counted, CountBounded, MinOf, WriteExpr, fuzzVars, history
<1>5. CASE Advance
  BY <1>5 DEF TypeOK, Counted, CountBounded, MinOf, Advance, fuzzVars
<1>6. CASE EndRun
  BY <1>6 DEF TypeOK, Counted, CountBounded, MinOf, EndRun, ring, history
<1>7. CASE KillRun
  <2>1. Counted'
    BY <1>7 DEF Counted, KillRun
  <2>2. /\ writer' = "out" /\ dst' = dst /\ count' = count /\ logged' = logged
        /\ cuts' = [cuts EXCEPT ![dst] = cuts[dst] + 1]
    BY <1>7 DEF KillRun, ring
  <2>3. cuts \in [Targets -> Nat] /\ count \in [Targets -> 0 .. MAX_LOG_NUM] /\ dst \in Targets
    BY DEF TypeOK
  <2>4. ASSUME NEW t \in Targets
        PROVE  /\ MinOf(Len(logged'[t]), MAX_LOG_NUM) <= count'[t]
               /\ count'[t] <= MinOf(Len(logged'[t]), MAX_LOG_NUM) + cuts'[t]
    <3> DEFINE complete == MinOf(Len(logged[t]), MAX_LOG_NUM)
    <3>1. Len(logged[t]) \in Nat
      BY DEF TypeOK
    <3>2. complete \in Nat
      BY <3>1 DEF MinOf
    <3>3. complete <= count[t] /\ count[t] <= complete + cuts[t] + (IF dst = t THEN 1 ELSE 0)
      BY <2>3, <3>2 DEF CountBounded
    <3>4. MinOf(Len(logged'[t]), MAX_LOG_NUM) = complete /\ count'[t] = count[t]
      BY <2>2
    <3>5. cuts'[t] = cuts[t] + (IF dst = t THEN 1 ELSE 0)
      BY <2>2, <2>3
    <3> HIDE DEF complete
    <3> QED BY <2>3, <3>2, <3>3, <3>4, <3>5
  <2>5. ASSUME NEW t \in Targets PROVE cuts'[t] \in Nat
    BY <2>2, <2>3
  <2>6. CountBounded'
    BY <2>2, <2>3, <2>4, <2>5 DEF CountBounded, MinOf
  <2> QED BY <2>1, <2>6
<1>8. ASSUME NEW t \in Targets, SwitchTarget(t) PROVE Counted' /\ CountBounded'
  BY <1>8 DEF TypeOK, Counted, CountBounded, MinOf, SwitchTarget, ring, history
<1>9. CASE StartRun
  BY <1>9 DEF TypeOK, Counted, CountBounded, MinOf, StartRun, ring, history
<1>10. CASE GetProb
  BY <1>10 DEF TypeOK, Counted, CountBounded, MinOf, GetProb, ring, history
<1>11. CASE UNCHANGED vars
  BY <1>11 DEF Counted, CountBounded, MinOf, vars, fuzzVars, ring, history
<1> QED
  BY <1>1, <1>2, <1>3, <1>4, <1>5, <1>6, <1>7, <1>8, <1>9, <1>10, <1>11 DEF Next

\* The reader visits every completed record the ring still has; what it visits
\* beyond them is bounded by the number of writes that were cut short.
THEOREM CountBoundedHolds == Spec => []CountBounded
<1>1. Init => Counted /\ CountBounded
  BY GcLogAssumption DEF Init, Counted, CountBounded, MinOf
<1>2. TypeOK /\ TypeOK' /\ Counted /\ CountBounded /\ [Next]_vars
        => Counted' /\ CountBounded'
  BY CountStep
<1> QED BY <1>1, <1>2, TypeCorrect, PTL DEF Spec

-----------------------------------------------------------------------------
(* The records.                                                            *)

\* How far the current call got with its record.
Written ==
  /\ writer = "expr" => log_data[dst][tail[dst]].index = record.index
  /\ writer = "tail" => log_data[dst][tail[dst]] = record

\* A write into the slot at the tail does not touch the slots behind it.
LEMMA BehindIsNotTail ==
  ASSUME TypeOK, NEW t \in Targets, NEW k \in 1 .. MAX_LOG_NUM - 1
  PROVE  Behind(t, k) \in Slots /\ Behind(t, k) # tail[t]
<1>1. MAX_LOG_NUM \in Nat \ {0} /\ tail[t] \in 0 .. MAX_LOG_NUM - 1
  BY GcLogAssumption DEF TypeOK, Slots
<1>2. Behind(t, k) = IF k <= tail[t] THEN tail[t] - k
                                     ELSE tail[t] - k + MAX_LOG_NUM
  BY BehindIs
<1> QED BY <1>1, <1>2 DEF Slots

\* The steps that leave the tails, the records behind them and the completed
\* records alone leave RecentIntact true.
LEMMA RecentKept ==
  ASSUME TypeOK, RecentIntact, tail' = tail, logged' = logged,
         \A t \in Targets : \A i \in Slots :
           i # tail[t] => log_data'[t][i] = log_data[t][i]
  PROVE  RecentIntact'
<1> SUFFICES ASSUME NEW t \in Targets, NEW k \in 1 .. MAX_LOG_NUM - 1,
                    k <= Len(logged[t])
             PROVE  log_data'[t][Behind(t, k)'] = logged[t][Len(logged[t]) + 1 - k]
  BY DEF RecentIntact
<1>1. Behind(t, k)' = Behind(t, k)
  BY DEF Behind
<1>2. log_data'[t][Behind(t, k)] = log_data[t][Behind(t, k)]
  BY BehindIsNotTail
<1> QED BY <1>1, <1>2 DEF RecentIntact

LEMMA RecentAdvance ==
  ASSUME TypeOK, TypeOK', RecentIntact, Written, Advance
  PROVE  RecentIntact'
<1> USE GcLogAssumption
<1> SUFFICES ASSUME NEW t \in Targets, NEW k \in 1 .. MAX_LOG_NUM - 1,
                    k <= Len(logged'[t])
             PROVE  log_data'[t][Behind(t, k)']
                      = logged'[t][Len(logged'[t]) + 1 - k]
  BY DEF RecentIntact
<1>1. log_data' = log_data /\ tail' = [tail EXCEPT ![dst] = NextSlot(tail[dst])]
      /\ logged' = [logged EXCEPT ![dst] = Append(logged[dst], record)]
  BY DEF Advance
<1>2. CASE t # dst
  <2>1. tail'[t] = tail[t] /\ logged'[t] = logged[t]
    BY <1>1, <1>2 DEF TypeOK
  <2>2. Behind(t, k)' = Behind(t, k)
    BY <2>1 DEF Behind
  <2> QED BY <1>1, <2>1, <2>2 DEF RecentIntact
<1>3. CASE t = dst
  <2>1. logged'[t] = Append(logged[t], record) /\ logged[t] \in Seq(Records)
    BY <1>1, <1>3 DEF TypeOK
  <2>2. tail'[t] = IF tail[t] + 1 = MAX_LOG_NUM THEN 0 ELSE tail[t] + 1
    BY <1>1, <1>3, NextSlotStep DEF TypeOK
  <2>3. tail[t] \in 0 .. MAX_LOG_NUM - 1
    BY DEF TypeOK, Slots
  <2>4. Behind(t, k)' = IF k <= tail'[t] THEN tail'[t] - k
                                         ELSE tail'[t] - k + MAX_LOG_NUM
    <3> DEFINE y == tail'[t] - k + MAX_LOG_NUM
    <3>1. y \in 0 .. 2 * MAX_LOG_NUM - 1
      BY <2>2, <2>3
    <3>2. y % MAX_LOG_NUM = IF y < MAX_LOG_NUM THEN y ELSE y - MAX_LOG_NUM
      <4> HIDE DEF y
      <4> QED BY <3>1, RingModulo
    <3> QED BY <2>2, <2>3, <3>2 DEF Behind
  <2>5. CASE k = 1
    <3>1. Behind(t, k)' = tail[t]
      BY <2>2, <2>3, <2>4, <2>5
    <3>2. log_data[t][tail[t]] = record
      BY <1>3 DEF Advance, Written
    <3> QED BY <1>1, <2>1, <2>5, <3>1, <3>2
  <2>6. CASE k > 1
    <3>1. k - 1 \in 1 .. MAX_LOG_NUM - 1 /\ k - 1 <= Len(logged[t])
      BY <2>1, <2>6
    <3>2. Behind(t, k)' = Behind(t, k - 1)
      BY <2>2, <2>3, <2>4, <3>1, BehindIs
    <3>3. logged'[t][Len(logged'[t]) + 1 - k] = logged[t][Len(logged[t]) + 1 - (k - 1)]
      BY <2>1, <2>6, <3>1
    <3> QED BY <1>1, <3>1, <3>2, <3>3 DEF RecentIntact
  <2> QED BY <2>5, <2>6
<1> QED BY <1>2, <1>3

LEMMA RecentStep ==
  TypeOK /\ TypeOK' /\ RecentIntact /\ Written /\ [Next]_vars
    => RecentIntact' /\ Written'
<1> SUFFICES ASSUME TypeOK, TypeOK', RecentIntact, Written, [Next]_vars
             PROVE  RecentIntact' /\ Written'
  OBVIOUS
<1>1. ASSUME NEW r \in Records, Enter(r) PROVE RecentIntact' /\ Written'
  BY <1>1, RecentKept DEF Written, Enter, fuzzVars, ring, history
<1>2. CASE Count
  BY <1>2, RecentKept DEF Written, Count, fuzzVars, history
<1>3. CASE WriteIndex
  <2>1. RecentIntact'
    BY <1>3, RecentKept DEF TypeOK, WriteIndex, history
  <2>2. log_data'[dst][tail[dst]].index = record.index
    BY <1>3 DEF TypeOK, WriteIndex
  <2> QED BY <1>3, <2>1, <2>2 DEF Written, WriteIndex
<1>4. CASE WriteExpr
  <2>1. RecentIntact'
    BY <1>4, RecentKept DEF TypeOK, WriteExpr, history
  <2>2. log_data'[dst][tail[dst]] = [index |-> record.index, expr |-> record.expr]
    BY <1>4 DEF TypeOK, WriteExpr, Written
  <2>3. record = [index |-> record.index, expr |-> record.expr]
    BY DEF TypeOK, LogData
  <2> QED BY <1>4, <2>1, <2>2, <2>3 DEF Written, WriteExpr
<1>5. CASE Advance
  BY <1>5, RecentAdvance DEF Written, Advance
<1>6. CASE EndRun
  BY <1>6, RecentKept DEF Written, EndRun, ring, history
<1>7. CASE KillRun
  BY <1>7, RecentKept DEF Written, KillRun, ring
<1>8. ASSUME NEW t \in Targets, SwitchTarget(t) PROVE RecentIntact' /\ Written'
  BY <1>8, RecentKept DEF Written, SwitchTarget, ring, history
<1>9. CASE StartRun
  BY <1>9, RecentKept DEF Written, StartRun, ring, history
<1>10. CASE GetProb
  BY <1>10, RecentKept DEF Written, GetProb, ring, history
<1>11. CASE UNCHANGED vars
  BY <1>11, RecentKept DEF Written, vars, fuzzVars, ring, history
<1> QED
  BY <1>1, <1>2, <1>3, <1>4, <1>5, <1>6, <1>7, <1>8, <1>9, <1>10, <1>11 DEF Next

\* Whatever is killed and wherever, the last MAX_LOG_NUM - 1 completed records
\* of a target are in its ring, untorn and in order.
THEOREM RecentIntactHolds == Spec => []RecentIntact
<1>1. Init => RecentIntact /\ Written
  BY DEF Init, RecentIntact, Written
<1>2. TypeOK /\ TypeOK' /\ RecentIntact /\ Written /\ [Next]_vars
        => RecentIntact' /\ Written'
  BY RecentStep
<1> QED BY <1>1, <1>2, TypeCorrect, PTL DEF Spec

\* The three facts together, as the run gclog checks them: mdafl_gc_log
\* may be killed between any two of its steps.
THEOREM RingSoundHolds == Spec => []RingSound
<1>1. TypeOK /\ RecentIntact /\ CountBounded => RingSound
  BY DEF RingSound
<1> QED BY <1>1, TypeCorrect, RecentIntactHolds, CountBoundedHolds, PTL

-----------------------------------------------------------------------------
(* Without kills the log is the one of RecentLog.                          *)

\* The oldest slot keeps its record until the write that replaces it begins.
OldestIntact ==
  \A t \in Targets :
    (dst # t \/ writer \in {"out", "count", "index"})
      /\ MAX_LOG_NUM <= Len(logged[t]) /\ cuts[t] = 0
      => log_data[t][tail[t]] = logged[t][Len(logged[t]) + 1 - MAX_LOG_NUM]

LogInv ==
  TypeOK /\ RecentIntact /\ Written /\ Counted /\ CountBounded /\ WritesToCurrent /\ OldestIntact

\* When a record is complete, the next slot holds the one that is now oldest.
LEMMA OldestAdvance ==
  ASSUME TypeOK, TypeOK', RecentIntact, Written, OldestIntact, Advance
  PROVE  OldestIntact'
<1> USE GcLogAssumption
<1>1. /\ log_data' = log_data /\ tail' = [tail EXCEPT ![dst] = NextSlot(tail[dst])]
      /\ logged' = [logged EXCEPT ![dst] = Append(logged[dst], record)] /\ dst' = dst /\ cuts' = cuts
  BY DEF Advance
<1> SUFFICES ASSUME NEW t \in Targets, MAX_LOG_NUM <= Len(logged'[t]), cuts'[t] = 0
             PROVE  log_data'[t][tail'[t]] = logged'[t][Len(logged'[t]) + 1 - MAX_LOG_NUM]
  BY DEF OldestIntact
<1>2. CASE t # dst
  <2>1. tail'[t] = tail[t] /\ logged'[t] = logged[t]
    BY <1>1, <1>2 DEF TypeOK
  <2> QED BY <1>1, <1>2, <2>1 DEF OldestIntact
<1>3. CASE t = dst
  <2>1. logged'[t] = Append(logged[t], record) /\ logged[t] \in Seq(Records)
    BY <1>1, <1>3 DEF TypeOK
  <2>2. tail'[t] = IF tail[t] + 1 = MAX_LOG_NUM THEN 0 ELSE tail[t] + 1
    BY <1>1, <1>3, NextSlotStep DEF TypeOK
  <2>3. tail[t] \in 0 .. MAX_LOG_NUM - 1
    BY DEF TypeOK, Slots
  <2>4. CASE MAX_LOG_NUM = 1
    <3>1. tail'[t] = tail[t]
      BY <2>2, <2>3, <2>4
    <3>2. log_data[t][tail[t]] = record
      BY <1>3 DEF Advance, Written
    <3> QED BY <1>1, <2>1, <2>4, <3>1, <3>2
  <2>5. CASE MAX_LOG_NUM > 1
    <3>1. MAX_LOG_NUM - 1 \in 1 .. MAX_LOG_NUM - 1 /\ MAX_LOG_NUM - 1 <= Len(logged[t])
      BY <2>1, <2>5
    <3>2. Behind(t, MAX_LOG_NUM - 1) = tail'[t]
      BY <2>2, <2>3, <3>1, BehindIs
    <3>3. logged'[t][Len(logged'[t]) + 1 - MAX_LOG_NUM] = logged[t][Len(logged[t]) + 1 - (MAX_LOG_NUM - 1)]
      BY <2>1, <2>5, <3>1
    <3> QED BY <1>1, <3>1, <3>2, <3>3 DEF RecentIntact
  <2> QED BY <2>4, <2>5
<1> QED BY <1>2, <1>3

LEMMA OldestStep ==
  ASSUME LogInv, TypeOK', [Next]_vars
  PROVE  OldestIntact'
<1> USE DEF LogInv
<1>1. ASSUME NEW r \in Records, Enter(r) PROVE OldestIntact'
  BY <1>1 DEF OldestIntact, Enter, fuzzVars, ring, history
<1>2. CASE Count
  BY <1>2 DEF OldestIntact, Count, fuzzVars, history
<1>3. CASE WriteIndex \/ WriteExpr
  <2>1. /\ UNCHANGED <<dst, tail, logged, cuts>> /\ writer' \in {"expr", "tail"}
        /\ \A t \in Targets : t # dst => log_data'[t] = log_data[t]
    BY <1>3 DEF TypeOK, WriteIndex, WriteExpr, history
  <2> QED BY <2>1 DEF OldestIntact
<1>4. CASE Advance
  BY <1>4, OldestAdvance DEF Advance
<1>5. CASE KillRun
  <2>1. /\ UNCHANGED <<dst, tail, log_data, logged>>
        /\ cuts' = [cuts EXCEPT ![dst] = cuts[dst] + 1]
        /\ cuts \in [Targets -> Nat] /\ dst \in Targets
    BY <1>5 DEF KillRun, TypeOK, ring
  <2>2. ASSUME NEW t \in Targets, cuts'[t] = 0 PROVE t # dst /\ cuts[t] = 0
    BY <2>1, <2>2
  <2> QED BY <2>1, <2>2 DEF OldestIntact
<1>6. CASE EndRun \/ StartRun \/ GetProb \/ UNCHANGED vars \/ \E t \in Targets : SwitchTarget(t)
  <2>1. UNCHANGED <<dst, writer, tail, log_data, logged, cuts>>
    BY <1>6 DEF EndRun, StartRun, GetProb, SwitchTarget, vars, ring, history
  <2> QED BY <2>1 DEF OldestIntact
<1> QED BY <1>1, <1>2, <1>3, <1>4, <1>5, <1>6 DEF Next

\* What the reader visits, oldest first, are the last records of the log.
LEMMA VisitedIsRecent ==
  ASSUME LogInv, writer = "out", NEW t \in Targets, cuts[t] = 0
  PROVE  Visited(t) = Abstract!Recent(logged[t])
<1> USE GcLogAssumption DEF LogInv
<1> DEFINE M == MAX_LOG_NUM
           s == logged[t]
           n == Len(s)
<1>1. /\ M \in Nat \ {0} /\ tail[t] \in 0 .. M - 1 /\ count[t] \in 0 .. M
      /\ s \in Seq(Records) /\ n \in Nat
  BY DEF TypeOK, Slots
<1>2. count[t] = IF n <= M THEN n ELSE M
  BY <1>1 DEF CountBounded, MinOf
<1>3. RingHead(t) = IF count[t] <= tail[t] THEN tail[t] - count[t] ELSE tail[t] - count[t] + M
  <2> DEFINE y == tail[t] - count[t] + M
  <2>1. y \in 0 .. 2 * M - 1
    BY <1>1
  <2>2. y % M = IF y < M THEN y ELSE y - M
    <3> HIDE DEF y
    <3> QED BY <1>1, <2>1, RingModulo
  <2> QED BY <1>1, <2>2 DEF RingHead
<1>4. ASSUME NEW i \in 1 .. count[t]
      PROVE  log_data[t][(RingHead(t) + i - 1) % M] = s[n + 1 - (count[t] + 1 - i)]
  <2>0. PICK c \in 0 .. M : c = count[t]
    BY <1>1
  <2> DEFINE k == c + 1 - i
             z == RingHead(t) + i - 1
  <2>1. k \in 1 .. M /\ k <= n /\ i = c + 1 - k /\ i \in 1 .. c
    BY <1>1, <1>2, <2>0
  <2>2. RingHead(t) = IF c <= tail[t] THEN tail[t] - c ELSE tail[t] - c + M
    BY <1>3, <2>0
  <2>3. PICK a \in 0 .. M - 1 : a = tail[t]
    BY <1>1
  <2>7. PICK h \in 0 .. M - 1 : h = RingHead(t) /\ h = IF c <= a THEN a - c ELSE a - c + M
    BY <1>1, <2>0, <2>2, <2>3
  <2>4. z % M = IF z < M THEN z ELSE z - M
    <3>1. z = h + i - 1 /\ i \in 1 .. c
      BY <2>0, <2>7
    <3>2. z \in 0 .. 2 * M - 1
      BY <1>1, <3>1
    <3> HIDE DEF z
    <3> QED BY <1>1, <3>2, RingModulo
  <2>8. z = h + i - 1 /\ k = c + 1 - i /\ i \in 1 .. c
    BY <2>0, <2>7
  <2> HIDE DEF z, k
  <2>5. z % M = IF k <= tail[t] THEN tail[t] - k ELSE tail[t] - k + M
    <3>1. CASE c <= a
      <4>1. z < M /\ z = a - k /\ k <= a
        BY <2>7, <2>8, <3>1
      <4> QED BY <2>3, <2>4, <4>1
    <3>2. CASE c > a
      <4>1. z = a - c + M + i - 1 /\ k = c + 1 - i /\ i \in 1 .. c
        BY <2>7, <2>8, <3>2
      <4>2. CASE k <= a
        <5>1. ~(z < M) /\ z - M = a - k
          BY <4>1, <4>2
        <5> QED BY <2>3, <2>4, <4>2, <5>1
      <4>3. CASE k > a
        <5>1. z < M /\ z = a - k + M
          BY <4>1, <4>3
        <5>2. ~(k <= tail[t]) /\ z % M = z
          BY <2>3, <2>4, <4>1, <4>3, <5>1
        <5> QED BY <2>3, <5>1, <5>2
      <4> QED BY <4>1, <4>2, <4>3
    <3> QED BY <3>1, <3>2
  <2>6. log_data[t][z % M] = s[n + 1 - k]
    <3>1. CASE k = M
      <4>1. z % M = tail[t] /\ M <= n
        BY <1>1, <2>1, <2>5, <3>1
      <4>2. log_data[t][tail[t]] = s[n + 1 - M]
        BY <4>1 DEF OldestIntact
      <4> QED BY <3>1, <4>1, <4>2
    <3>2. CASE k # M
      <4>1. k \in 1 .. M - 1
        BY <1>1, <2>1, <3>2
      <4>2. z % M = Behind(t, k)
        BY <2>5, <4>1, BehindIs
      <4>3. log_data[t][Behind(t, k)] = s[n + 1 - k]
        BY <2>1, <4>1 DEF RecentIntact
      <4> QED BY <4>2, <4>3
    <3> QED BY <3>1, <3>2
  <2> QED BY <2>0, <2>6 DEF z, k
<1>5. CASE n <= M
  <2>1. count[t] = n /\ \A i \in 1 .. n : n + 1 - (n + 1 - i) = i
    BY <1>1, <1>2, <1>5
  <2>2. Visited(t) = [i \in 1 .. n |-> s[i]]
    BY <1>4, <2>1 DEF Visited
  <2>3. s = [i \in 1 .. n |-> s[i]]
    BY <1>1
  <2> QED BY <1>5, <2>2, <2>3 DEF Abstract!Recent
<1>6. CASE n > M
  <2> DEFINE q == SubSeq(s, n - M + 1, n)
  <2>1. count[t] = M /\ \A i \in 1 .. M : n + 1 - (M + 1 - i) = n - M + i
    <3>1. count[t] = M
      BY <1>1, <1>2, <1>6
    <3>2. ASSUME NEW m \in Nat, NEW l \in Nat, NEW i \in 1 .. m PROVE l + 1 - (m + 1 - i) = l - m + i
      OBVIOUS
    <3> QED BY <1>1, <3>1, <3>2
  <2>2. Visited(t) = [i \in 1 .. M |-> s[n - M + i]]
    BY <1>4, <2>1 DEF Visited
  <2>3. q \in Seq(Records) /\ Len(q) = M /\ \A i \in 1 .. M : q[i] = s[n - M + i]
    BY <1>1, <1>6
  <2>4. q = [i \in 1 .. M |-> q[i]]
    <3> HIDE DEF q
    <3> QED BY <2>3
  <2>5. q = Visited(t)
    <3> HIDE DEF q
    <3> QED BY <2>2, <2>3, <2>4
  <2>6. Abstract!Recent(s) = q
    BY <1>1, <1>6 DEF Abstract!Recent
  <2> QED BY <2>5, <2>6
<1> QED BY <1>1, <1>5, <1>6

\* Every step of the log is one of the abstract log, or none.
LEMMA LogStep ==
  ASSUME LogInv, cuts[shmid_ptr] = 0, [Next]_vars
  PROVE  [Abstract!Next]_(Abstract!vars)
<1> USE DEF LogInv, Abstract!Next, Abstract!vars
<1>1. ASSUME NEW r \in Records, Enter(r) PROVE UNCHANGED Abstract!vars
  BY <1>1 DEF Enter, fuzzVars, history
<1>2. CASE Count \/ WriteIndex \/ WriteExpr
  BY <1>2 DEF Count, WriteIndex, WriteExpr, fuzzVars, history
<1>3. CASE Advance
  <2>1. running /\ dst = shmid_ptr /\ record \in Records
    BY <1>3 DEF Advance, WritesToCurrent, TypeOK
  <2>2. Abstract!Log
    BY <1>3, <2>1 DEF Advance, fuzzVars, Abstract!Log
  <2> QED BY <2>2
<1>4. CASE EndRun \/ KillRun
  <2>1. Abstract!End
    BY <1>4 DEF EndRun, KillRun, history, Abstract!End
  <2> QED BY <2>1
<1>5. ASSUME NEW t \in Targets, SwitchTarget(t) PROVE Abstract!Switch
  BY <1>5 DEF SwitchTarget, history, Abstract!Switch
<1>6. CASE StartRun
  <2>1. Abstract!Start
    BY <1>6 DEF StartRun, history, Abstract!Start
  <2> QED BY <2>1
<1>7. CASE GetProb
  <2>1. writer = "out" /\ shmid_ptr \in Targets
    BY <1>7 DEF GetProb, WritesToCurrent, TypeOK
  <2>2. Visited(shmid_ptr) = Abstract!Recent(logged[shmid_ptr])
    BY <2>1, VisitedIsRecent
  <2>3. Abstract!Estimate
    BY <1>7, <2>2 DEF GetProb, history, Abstract!Estimate
  <2> QED BY <2>3
<1>8. CASE UNCHANGED vars
  BY <1>8 DEF vars, fuzzVars, history
<1> QED BY <1>1, <1>2, <1>3, <1>4, <1>5, <1>6, <1>7, <1>8 DEF Next

\* Unless a run was killed while it logged to the ring that is read, what
\* get_prob_share_time reads between two runs are the last MAX_LOG_NUM conditions
\* that the runs of the current target logged: the ring of fields written one
\* at a time, with its counter and its tail, is the log that RecentLog
\* describes.  After such a kill RecentIntact says what is left of it.
THEOREM LogRefines == Spec => Refinement
<1>1. Init => Abstract!Init
  BY DEF Init, Abstract!Init
<1>2. Init => LogInv
  <2>1. Init => WritesToCurrent /\ OldestIntact
    BY GcLogAssumption DEF Init, WritesToCurrent, OldestIntact
  <2>2. Init => RecentIntact /\ Written /\ Counted /\ CountBounded
    BY GcLogAssumption DEF Init, RecentIntact, Written, Counted, CountBounded, MinOf
  <2> QED BY <2>1, <2>2, TypeInit DEF LogInv
<1>3. LogInv /\ [Next]_vars => LogInv'
  <2> SUFFICES ASSUME LogInv, [Next]_vars PROVE LogInv'
    OBVIOUS
  <2>1. TypeOK'
    BY TypeStep DEF LogInv
  <2>2. WritesToCurrent'
    BY WritesToCurrentStep DEF LogInv
  <2>3. OldestIntact'
    BY <2>1, OldestStep
  <2> QED BY <2>1, <2>2, <2>3, CountStep, RecentStep DEF LogInv
<1>4. LogInv /\ [Next]_vars
        => [cuts[shmid_ptr] = 0 => [Abstract!Next]_(Abstract!vars)]_vars
  BY LogStep
<1> QED BY <1>1, <1>2, <1>3, <1>4, PTL DEF Spec, Refinement

-----------------------------------------------------------------------------
(***************************************************************************)
(* QemuServer: what was asked for is known or on its way.                  *)
(***************************************************************************)
Requests == QemuBlocks \cup {"none"}
QemuTypes ==
  /\ qProc \in [Procs -> {"none", "runs", "writes", "ended"}]
  /\ asks \in [Procs -> Requests] /\ tslPipe \in Seq(Requests)
  /\ answers \in Nat /\ qRuns \in Nat
NobodyRuns == \A p \in Procs : qProc[p] \in {"none", "ended"}
OnTheWay(b) == \E k \in 1 .. Len(tslPipe) : tslPipe[k] = b
QemuInv ==
  /\ QemuTypes
  /\ \A b \in requested : b \in tbServer \/ OnTheWay(b)
  /\ qServer = "read" => answers = qRuns
  /\ qServer \in {"collect", "waitpid"} => answers + 1 = qRuns
  /\ qServer # "collect" => NobodyRuns /\ tslPipe = <<>>

(* A request that is read leaves the pipe, and the others stay in it.      *)
LEMMA PipeRead ==
  ASSUME tslPipe \in Seq(Requests), tslPipe # <<>>, NEW b, OnTheWay(b)
  PROVE  b = Head(tslPipe) \/ \E k \in 1 .. Len(Tail(tslPipe)) : Tail(tslPipe)[k] = b
<1>1. PICK k \in 1 .. Len(tslPipe) : tslPipe[k] = b
  BY DEF OnTheWay
<1>2. /\ Head(tslPipe) = tslPipe[1] /\ Len(Tail(tslPipe)) = Len(tslPipe) - 1 /\ Len(tslPipe) \in Nat
      /\ \A i \in 1 .. Len(tslPipe) - 1 : Tail(tslPipe)[i] = tslPipe[i + 1]
  OBVIOUS
<1>3. CASE k = 1
  BY <1>1, <1>2, <1>3
<1>4. CASE k # 1
  <2>1. k - 1 \in 1 .. Len(tslPipe) - 1 /\ (k - 1) + 1 = k
    BY <1>2, <1>4
  <2>2. Tail(tslPipe)[k - 1] = b
    BY <1>1, <1>2, <2>1
  <2> QED BY <1>2, <2>1, <2>2
<1> QED BY <1>3, <1>4

\* Nothing is asked for at first.
LEMMA QemuInitInv == QemuInit => QemuInv
BY DEF QemuInit, QemuInv, QemuTypes, NobodyRuns, Procs, Requests

\* Every step of the emulator and its children keeps the invariant.
LEMMA QemuStepInv == QemuInv /\ [QemuNext]_qemuVars => QemuInv'
<1> SUFFICES ASSUME QemuInv, [QemuNext]_qemuVars PROVE QemuInv'
  OBVIOUS
<1>1. QemuTypes
  BY DEF QemuInv
<1>2. CASE QemuFork
  <2>1. qServer = "read" /\ answers = qRuns /\ NobodyRuns /\ tslPipe = <<>>
    BY <1>2 DEF QemuFork, QemuInv
  <2>2. UNCHANGED <<tbServer, tslPipe, asks, requested, answers>>
    BY <1>2 DEF QemuFork
  <2>3. CASE qServer' = "collect" /\ qRuns' = qRuns + 1 /\ qProc' = [qProc EXCEPT !["child"] = "runs"]
    <3>1. QemuTypes'
      <4> DEFINE forked == [qProc EXCEPT !["child"] = "runs"]
      <4>2. forked \in [Procs -> {"none", "runs", "writes", "ended"}]
        BY <1>1 DEF QemuTypes
      <4>1. qProc' \in [Procs -> {"none", "runs", "writes", "ended"}] /\ qRuns + 1 \in Nat
        <5>1. qProc' = forked
          BY <2>3
        <5> HIDE DEF forked
        <5> QED BY <1>1, <4>2, <5>1 DEF QemuTypes
      <4> QED BY <1>1, <2>2, <2>3, <4>1 DEF QemuTypes
    <3> QED BY <2>1, <2>2, <2>3, <3>1, <1>1 DEF QemuInv, OnTheWay, QemuTypes
  <2>4. CASE qServer' \in {"exit 2", "exit 3", "exit 4"} /\ UNCHANGED <<qProc, qRuns>>
    <3>1. QemuTypes' /\ NobodyRuns'
      BY <1>1, <2>1, <2>2, <2>4 DEF QemuTypes, NobodyRuns
    <3> QED BY <2>1, <2>2, <2>4, <3>1 DEF QemuInv, OnTheWay
  <2> QED BY <1>2, <2>3, <2>4 DEF QemuFork
<1>3. ASSUME NEW p \in Procs, qProc[p] \in {"runs", "writes"}
      PROVE  qServer = "collect"
  BY <1>3 DEF QemuInv, NobodyRuns
<1>4. ASSUME NEW p \in Procs, NEW b \in QemuBlocks, ExecuteBlock(p, b) PROVE QemuInv'
  <2>1. qServer = "collect" /\ qServer' = "collect"
    BY <1>3, <1>4 DEF ExecuteBlock
  <2>2. QemuTypes'
    BY <1>1, <1>4 DEF ExecuteBlock, QemuTypes, Requests
  <2> QED BY <1>4, <2>1, <2>2 DEF QemuInv, ExecuteBlock, OnTheWay
<1>5. ASSUME NEW p \in Procs, afl_request_tsl(p) PROVE QemuInv'
  <2>1. qServer = "collect" /\ qServer' = "collect"
    BY <1>3, <1>5 DEF afl_request_tsl
  <2>2. asks[p] \in Requests /\ tslPipe' = Append(tslPipe, asks[p])
    BY <1>1, <1>5 DEF afl_request_tsl, QemuTypes
  <2>3. QemuTypes'
    BY <1>1, <1>5, <2>2 DEF afl_request_tsl, QemuTypes, Requests
  <2>4. /\ Len(tslPipe') = Len(tslPipe) + 1 /\ Len(tslPipe) \in Nat
        /\ \A k \in 1 .. Len(tslPipe) : tslPipe'[k] = tslPipe[k]
        /\ tslPipe'[Len(tslPipe) + 1] = asks[p]
    BY <1>1, <2>2, AppendProperties DEF QemuTypes
  <2>5. ASSUME NEW b \in requested' PROVE b \in tbServer' \/ OnTheWay(b)'
    <3>1. b \in requested \/ b = asks[p]
      BY <1>5 DEF afl_request_tsl
    <3>2. CASE b = asks[p]
      <4>1. Len(tslPipe) + 1 \in 1 .. Len(tslPipe')
        BY <2>4
      <4> QED BY <2>4, <3>2, <4>1 DEF OnTheWay
    <3>3. CASE b \in requested /\ OnTheWay(b)
      <4>1. PICK k \in 1 .. Len(tslPipe) : tslPipe[k] = b
        BY <3>3 DEF OnTheWay
      <4>2. k \in 1 .. Len(tslPipe')
        BY <2>4
      <4> QED BY <2>4, <4>1, <4>2 DEF OnTheWay
    <3>4. CASE b \in requested /\ b \in tbServer
      BY <1>5, <3>4 DEF afl_request_tsl
    <3> QED BY <3>1, <3>2, <3>3, <3>4 DEF QemuInv
  <2> QED BY <1>5, <2>1, <2>3, <2>5 DEF QemuInv, afl_request_tsl
<1>6. ASSUME NEW p \in Procs, ProcessEnds(p) PROVE QemuInv'
  <2>1. qServer = "collect" /\ qServer' = "collect"
    BY <1>3, <1>6 DEF ProcessEnds
  <2>2. QemuTypes'
    BY <1>1, <1>6 DEF ProcessEnds, QemuTypes, Requests
  <2> QED BY <1>6, <2>1, <2>2 DEF QemuInv, ProcessEnds, OnTheWay
<1>7. CASE ProgramForks
  <2>1. qServer = "collect" /\ qServer' = "collect"
    BY <1>3, <1>7 DEF ProgramForks, Procs
  <2>2. QemuTypes'
    BY <1>1, <1>7 DEF ProgramForks, QemuTypes, Requests
  <2> QED BY <1>7, <2>1, <2>2 DEF QemuInv, ProgramForks, OnTheWay
<1>8. CASE MirrorBlock
  <2>1. /\ tslPipe # <<>> /\ tslPipe \in Seq(Requests) /\ tslPipe' = Tail(tslPipe)
        /\ tbServer' = tbServer \cup {Head(tslPipe)} /\ requested' = requested
        /\ UNCHANGED <<qServer, qProc, asks, qRuns, answers>> /\ qServer = "collect"
    BY <1>1, <1>8 DEF MirrorBlock, QemuTypes, Runtime
  <2>2. QemuTypes'
    BY <1>1, <2>1 DEF QemuTypes
  <2>3. ASSUME NEW b \in requested' PROVE b \in tbServer' \/ OnTheWay(b)'
    BY <2>1, PipeRead DEF QemuInv, OnTheWay
  <2> QED BY <2>1, <2>2, <2>3 DEF QemuInv
<1>9. CASE EndCollection
  <2>1. /\ tslPipe = <<>> /\ NobodyRuns /\ qServer = "collect" /\ qServer' = "waitpid"
        /\ UNCHANGED <<qProc, tbServer, asks, tslPipe, requested, qRuns, answers>>
    BY <1>9 DEF EndCollection, PipeBroken, NobodyRuns, Runtime
  <2>2. QemuTypes' /\ NobodyRuns'
    BY <1>1, <2>1 DEF QemuTypes, NobodyRuns
  <2> QED BY <2>1, <2>2 DEF QemuInv, OnTheWay
<1>10. CASE RelayStatus
  <2>1. /\ qServer = "waitpid" /\ tslPipe = <<>> /\ NobodyRuns /\ answers + 1 = qRuns
        /\ UNCHANGED <<tbServer, asks, tslPipe, requested, qRuns>>
    BY <1>10 DEF RelayStatus, QemuInv, Runtime
  <2>2. CASE qServer' = "read" /\ answers' = answers + 1 /\ qProc' = [p \in Procs |-> "none"]
    <3>1. QemuTypes' /\ NobodyRuns'
      BY <1>1, <2>1, <2>2 DEF QemuTypes, NobodyRuns
    <3> QED BY <2>1, <2>2, <3>1 DEF QemuInv, OnTheWay
  <2>3. CASE qServer' \in {"exit 6", "exit 7"} /\ UNCHANGED <<qProc, answers>>
    <3>1. QemuTypes' /\ NobodyRuns'
      BY <1>1, <2>1, <2>3 DEF QemuTypes, NobodyRuns
    <3> QED BY <2>1, <2>3, <3>1 DEF QemuInv, OnTheWay
  <2> QED BY <1>10, <2>2, <2>3 DEF RelayStatus
<1>11. CASE UNCHANGED qemuVars
  BY <1>11 DEF qemuVars, QemuInv, QemuTypes, NobodyRuns, OnTheWay
<1> QED BY <1>2, <1>4, <1>5, <1>6, <1>7, <1>8, <1>9, <1>10, <1>11 DEF QemuNext

\* The invariant is strong enough.
LEMMA QemuInvEnough == QemuInv => TranslatedOnce
BY DEF QemuInv, TranslatedOnce, OnTheWay, NobodyRuns

-----------------------------------------------------------------------------
(***************************************************************************)
(* The instrumentation pass.                                               *)
(***************************************************************************)

\* A set of numbers with a member and a bound has a greatest one.
LEMMA GreatestBelow ==
  ASSUME NEW N \in Nat, NEW T \in SUBSET (0 .. N), T # {}
  PROVE  \E x \in T : \A y \in T : y <= x
<1> DEFINE R == OpToRel(<, Nat)
           U == {n \in Nat : \E x \in T : n + x = N}
<1>1. IsWellFoundedOn(R, Nat)
  BY NatLessThanWellFounded
<1>2. \A x, y \in Nat : x < y => <<x, y>> \in R
  BY DEF OpToRel
<1>3. U # {} /\ U \subseteq Nat
  <2>1. PICK x \in T : TRUE
    OBVIOUS
  <2>2. N - x \in U
    BY <2>1
  <2> QED BY <2>2
<1> HIDE DEF R
<1>4. PICK n \in U : \A k \in U : ~(<<k, n>> \in R)
  <2> HIDE DEF U
  <2> QED BY <1>1, <1>3, WFMin
<1>5. PICK x \in T : n + x = N
  BY <1>4
<1>6. ASSUME NEW y \in T PROVE y <= x
  <2>1. N - y \in U
    OBVIOUS
  <2>2. ~(N - y < n)
    BY <1>2, <1>4, <2>1
  <2> QED BY <1>5, <2>2
<1> QED BY <1>6
-----------------------------------------------------------------------------
(***************************************************************************)
(* LlvmPass: what is read of the targets, and what the functions so far    *)
(* were given.                                                             *)
(***************************************************************************)
Read == Len(target_file_names)
SelectFiles == passInput.select
DfgFiles == passInput.dfg
PassTypes ==
  /\ passInput \in PassInputs /\ passPc \in {"sizes", "pairs", "functions", "done", "fatal"}
  /\ target_file_names \in Seq({SelectFiles[k].name : k \in DOMAIN SelectFiles})
  /\ instr_targets_vector \in Seq({SelectFiles[k].funcs : k \in DOMAIN SelectFiles})
  /\ dfg_map_vector \in Seq({NodeMap(DfgFiles[k].nodes) : k \in DOMAIN DfgFiles})
  /\ funcIndex \in Nat \ {0}

FilesRead ==
  /\ Len(instr_targets_vector) = Read /\ Len(dfg_map_vector) = Read
  /\ passPc = "sizes" => Read = 0
  /\ passPc \in {"pairs", "functions", "done"} => Len(SelectFiles) = Len(DfgFiles) /\ Read <= Len(SelectFiles)
  /\ passPc \in {"functions", "done"} => Read = Len(SelectFiles)
  /\ passPc \in {"pairs", "functions", "done"} =>
       \A i \in 1 .. Read :
         /\ target_file_names[i] = SelectFiles[i].name /\ SelectFiles[i].name = DfgFiles[i].name
         /\ instr_targets_vector[i] = SelectFiles[i].funcs
         /\ dfg_map_vector[i] = NodeMap(DfgFiles[i].nodes)

(* What a function with a file of its own is given. *)
Given(g) ==
  LET p == passInput.funcs[g]
  IN {[func |-> g, block |-> b, stores |-> StoresOf(p.file, p.blocks[b], SelectedBy(p.file, p.name))] :
        b \in IF SelectedBy(p.file, p.name) # {} THEN DOMAIN p.blocks ELSE {}}
FunctionsDone ==
  /\ passPc \in {"sizes", "pairs"} => funcIndex = 1 /\ blocks_done = {}
  /\ passPc = "done" => funcIndex > Len(passInput.funcs)
  /\ passPc \in {"functions", "done"} =>
       /\ \A r \in blocks_done : r.func \in 1 .. funcIndex - 1
       /\ \A g \in 1 .. funcIndex - 1 :
            passInput.funcs[g].file # "none" => {r \in blocks_done : r.func = g} = Given(g)

PassInv == PassTypes /\ FilesRead /\ FunctionsDone

(* The files of the input, by the assumption on it. *)
LEMMA PassFolders ==
  ASSUME PassTypes
  PROVE  /\ Len(SelectFiles) \in Nat /\ DOMAIN SelectFiles = 1 .. Len(SelectFiles)
         /\ Len(DfgFiles) \in Nat /\ DOMAIN DfgFiles = 1 .. Len(DfgFiles)
         /\ \A j, k \in DOMAIN SelectFiles : SelectFiles[j].name = SelectFiles[k].name => j = k
         /\ \A j, k \in DOMAIN DfgFiles : DfgFiles[j].name = DfgFiles[k].name => j = k
         /\ \A k \in DOMAIN DfgFiles :
              Len(DfgFiles[k].nodes) \in Nat /\ DOMAIN DfgFiles[k].nodes = 1 .. Len(DfgFiles[k].nodes)
         /\ Len(passInput.funcs) \in Nat /\ DOMAIN passInput.funcs = 1 .. Len(passInput.funcs)
         /\ \A f \in DOMAIN passInput.funcs : \A b \in DOMAIN passInput.funcs[f].blocks :
              IsFiniteSet(passInput.funcs[f].blocks[b])
BY PassAssumption DEF PassTypes, SelectFiles, DfgFiles

\* The invariant holds before the input is read.
LEMMA PassInitInv == PassInit => PassInv
<1> SUFFICES ASSUME PassInit PROVE PassInv
  OBVIOUS
<1>1. Len(target_file_names) = 0 /\ Len(instr_targets_vector) = 0 /\ Len(dfg_map_vector) = 0
  BY DEF PassInit
<1> QED BY <1>1 DEF PassInit, PassInv, PassTypes, FilesRead, FunctionsDone, Read

\* Every step of the pass keeps the invariant.
LEMMA PassStepInv == PassInv /\ [PassNext]_passVars => PassInv'
<1> SUFFICES ASSUME PassInv, [PassNext]_passVars PROVE PassInv'
  OBVIOUS
<1>1. PassTypes /\ FilesRead /\ FunctionsDone
  BY DEF PassInv
<1>2. CASE CompareSizes
  <2>1. /\ UNCHANGED <<passInput, target_file_names, instr_targets_vector, dfg_map_vector, funcIndex, blocks_done>>
        /\ passPc = "sizes" /\ passPc' = IF Len(SelectFiles) = Len(DfgFiles) THEN "pairs" ELSE "fatal"
    BY <1>2 DEF CompareSizes, SelectFiles, DfgFiles
  <2>2. PassTypes'
    BY <1>1, <2>1 DEF PassTypes, SelectFiles, DfgFiles
  <2>3. FilesRead'
    BY <1>1, <2>1, PassFolders DEF FilesRead, Read, SelectFiles, DfgFiles
  <2>4. FunctionsDone'
    BY <1>1, <2>1 DEF FunctionsDone
  <2> QED BY <2>2, <2>3, <2>4 DEF PassInv
<1>3. CASE ReadPair
  <2> DEFINE i == Read + 1
  <2>1. /\ passPc = "pairs" /\ i \in DOMAIN SelectFiles /\ i \in DOMAIN DfgFiles /\ Read \in Nat
        /\ UNCHANGED <<passInput, funcIndex, file_name, blocks_done>>
    BY <1>1, <1>3, PassFolders DEF ReadPair, FilesRead, Read, SelectFiles, DfgFiles, PassTypes
  <2>2. CASE /\ passPc' = "fatal"
             /\ UNCHANGED <<target_file_names, instr_targets_vector, dfg_map_vector>>
    <3>1. PassTypes'
      BY <1>1, <2>1, <2>2 DEF PassTypes, SelectFiles, DfgFiles
    <3>2. FilesRead' /\ FunctionsDone'
      BY <1>1, <2>1, <2>2 DEF FilesRead, FunctionsDone, Read
    <3> QED BY <3>1, <3>2 DEF PassInv
  <2>3. CASE /\ target_file_names' = Append(target_file_names, SelectFiles[i].name)
             /\ instr_targets_vector' = Append(instr_targets_vector, SelectFiles[i].funcs)
             /\ dfg_map_vector' = Append(dfg_map_vector, NodeMap(DfgFiles[i].nodes))
             /\ passPc' = passPc /\ SelectFiles[i].name = DfgFiles[i].name
    <3>1. PassTypes'
      <4>1. target_file_names' \in Seq({SelectFiles[k].name : k \in DOMAIN SelectFiles})
        BY <1>1, <2>1, <2>3, AppendProperties DEF PassTypes
      <4>2. instr_targets_vector' \in Seq({SelectFiles[k].funcs : k \in DOMAIN SelectFiles})
        BY <1>1, <2>1, <2>3, AppendProperties DEF PassTypes
      <4>3. dfg_map_vector' \in Seq({NodeMap(DfgFiles[k].nodes) : k \in DOMAIN DfgFiles})
        BY <1>1, <2>1, <2>3, AppendProperties DEF PassTypes
      <4>4. SelectFiles' = SelectFiles /\ DfgFiles' = DfgFiles
        BY <2>1 DEF SelectFiles, DfgFiles
      <4> QED BY <1>1, <2>1, <2>3, <4>1, <4>2, <4>3, <4>4 DEF PassTypes
    <3>2. /\ Read' = i /\ Len(instr_targets_vector') = i /\ Len(dfg_map_vector') = i
          /\ \A k \in 1 .. Read : target_file_names'[k] = target_file_names[k]
          /\ target_file_names'[i] = SelectFiles[i].name
      BY <1>1, <2>1, <2>3, AppendProperties DEF PassTypes, FilesRead, Read
    <3>3. /\ \A k \in 1 .. Read : instr_targets_vector'[k] = instr_targets_vector[k]
          /\ instr_targets_vector'[i] = SelectFiles[i].funcs
      BY <1>1, <2>1, <2>3, AppendProperties DEF PassTypes, FilesRead
    <3>4. /\ \A k \in 1 .. Read : dfg_map_vector'[k] = dfg_map_vector[k]
          /\ dfg_map_vector'[i] = NodeMap(DfgFiles[i].nodes)
      BY <1>1, <2>1, <2>3, AppendProperties DEF PassTypes, FilesRead
    <3>5. SelectFiles' = SelectFiles /\ DfgFiles' = DfgFiles
      BY <2>1 DEF SelectFiles, DfgFiles
    <3>6. ASSUME NEW k \in 1 .. Read'
          PROVE  /\ target_file_names'[k] = SelectFiles[k].name /\ SelectFiles[k].name = DfgFiles[k].name
                 /\ instr_targets_vector'[k] = SelectFiles[k].funcs
                 /\ dfg_map_vector'[k] = NodeMap(DfgFiles[k].nodes)
      <4>1. k = i \/ k \in 1 .. Read
        BY <2>1, <3>2
      <4>2. CASE k = i
        BY <2>3, <3>2, <3>3, <3>4, <4>2
      <4>3. CASE k \in 1 .. Read
        BY <1>1, <2>1, <3>2, <3>3, <3>4, <4>3 DEF FilesRead
      <4> QED BY <4>1, <4>2, <4>3
    <3>7. i <= Len(SelectFiles) /\ Len(SelectFiles) = Len(DfgFiles)
      BY <1>1, <2>1, PassFolders DEF FilesRead
    <3>8. FilesRead'
      BY <2>1, <2>3, <3>2, <3>5, <3>6, <3>7 DEF FilesRead
    <3>9. FunctionsDone'
      BY <1>1, <2>1, <2>3 DEF FunctionsDone
    <3> QED BY <3>1, <3>8, <3>9 DEF PassInv
  <2> QED BY <1>3, <2>2, <2>3 DEF ReadPair, Paired, Read, SelectFiles, DfgFiles
<1>4. CASE EndOfFolders
  <2>1. /\ UNCHANGED <<passInput, target_file_names, instr_targets_vector, dfg_map_vector, funcIndex, blocks_done>>
        /\ passPc = "pairs" /\ passPc' = "functions" /\ Read = Len(SelectFiles)
    BY <1>4 DEF EndOfFolders, SelectFiles, Read
  <2>2. PassTypes'
    BY <1>1, <2>1 DEF PassTypes, SelectFiles, DfgFiles
  <2>3. FilesRead'
    BY <1>1, <2>1 DEF FilesRead, Read, SelectFiles, DfgFiles
  <2>4. FunctionsDone'
    BY <1>1, <2>1 DEF FunctionsDone
  <2> QED BY <2>2, <2>3, <2>4 DEF PassInv
<1>5. CASE RunOnFunction
  <2> DEFINE f == passInput.funcs[funcIndex]
             file == IF f.file = "none" THEN file_name ELSE f.file
             targets == SelectedBy(file, f.name)
             added == {[func |-> funcIndex, block |-> b, stores |-> StoresOf(file, f.blocks[b], targets)] :
                         b \in IF targets # {} THEN DOMAIN f.blocks ELSE {}}
  <2>1. /\ passPc = "functions" /\ funcIndex <= Len(passInput.funcs) /\ funcIndex' = funcIndex + 1
        /\ blocks_done' = blocks_done \cup added
        /\ UNCHANGED <<passInput, passPc, target_file_names, instr_targets_vector, dfg_map_vector>>
    BY <1>5 DEF RunOnFunction
  <2>2. \A r \in added : r.func = funcIndex
    OBVIOUS
  <2>3. f.file # "none" => added = Given(funcIndex)
    BY DEF Given
  <2> HIDE DEF f, file, targets, added
  <2>4. funcIndex \in Nat \ {0} /\ funcIndex + 1 \in Nat \ {0}
    BY <1>1 DEF PassTypes
  <2>5. PassTypes'
    BY <1>1, <2>1, <2>4 DEF PassTypes, SelectFiles, DfgFiles
  <2>6. FilesRead'
    BY <1>1, <2>1 DEF FilesRead, Read, SelectFiles, DfgFiles
  <2>7. \A g : Given(g)' = Given(g)
    BY <2>1 DEF Given, StoresOf, StoreOf, LinesIn, SelectedBy
  <2>8. \A r \in blocks_done : r.func \in 1 .. funcIndex - 1
    BY <1>1, <2>1 DEF FunctionsDone
  <2>9. ASSUME NEW g \in 1 .. funcIndex, passInput.funcs[g].file # "none"
        PROVE  {r \in blocks_done' : r.func = g} = Given(g)
    <3>1. CASE g = funcIndex
      <4>1. {r \in blocks_done' : r.func = g} = added
        BY <2>1, <2>2, <2>4, <2>8, <3>1
      <4> QED BY <2>3, <2>9, <3>1, <4>1 DEF f
    <3>2. CASE g # funcIndex
      <4>1. g \in 1 .. funcIndex - 1
        BY <2>4, <3>2
      <4>2. {r \in blocks_done' : r.func = g} = {r \in blocks_done : r.func = g}
        BY <2>1, <2>2, <3>2
      <4> QED BY <1>1, <2>1, <2>9, <4>1, <4>2 DEF FunctionsDone
    <3> QED BY <3>1, <3>2
  <2>10. \A r \in blocks_done' : r.func \in 1 .. funcIndex
    BY <2>1, <2>2, <2>4, <2>8
  <2>11. funcIndex' - 1 = funcIndex
    BY <2>1, <2>4
  <2>12. FunctionsDone'
    BY <2>1, <2>7, <2>9, <2>10, <2>11 DEF FunctionsDone
  <2> QED BY <2>5, <2>6, <2>12 DEF PassInv
<1>6. CASE EndOfModule
  <2>1. /\ UNCHANGED <<passInput, target_file_names, instr_targets_vector, dfg_map_vector, funcIndex, blocks_done>>
        /\ passPc = "functions" /\ passPc' = "done" /\ funcIndex > Len(passInput.funcs)
    BY <1>6 DEF EndOfModule
  <2>2. PassTypes'
    BY <1>1, <2>1 DEF PassTypes, SelectFiles, DfgFiles
  <2>3. FilesRead'
    BY <1>1, <2>1 DEF FilesRead, Read, SelectFiles, DfgFiles
  <2>4. \A g : Given(g)' = Given(g)
    BY <2>1 DEF Given, StoresOf, StoreOf, LinesIn, SelectedBy
  <2>5. FunctionsDone'
    BY <1>1, <2>1, <2>4 DEF FunctionsDone
  <2> QED BY <2>2, <2>3, <2>5 DEF PassInv
<1>7. CASE UNCHANGED passVars
  <2>1. UNCHANGED <<passInput, passPc, target_file_names, instr_targets_vector, dfg_map_vector, funcIndex, blocks_done>>
    BY <1>7 DEF passVars
  <2>2. PassTypes'
    BY <1>1, <2>1 DEF PassTypes, SelectFiles, DfgFiles
  <2>3. FilesRead'
    BY <1>1, <2>1 DEF FilesRead, Read, SelectFiles, DfgFiles
  <2>4. \A g : Given(g)' = Given(g)
    BY <2>1 DEF Given, StoresOf, StoreOf, LinesIn, SelectedBy
  <2>5. FunctionsDone'
    BY <1>1, <2>1, <2>4 DEF FunctionsDone
  <2> QED BY <2>2, <2>3, <2>5 DEF PassInv
<1> QED BY <1>2, <1>3, <1>4, <1>5, <1>6, <1>7 DEF PassNext

(* The last mention of a line that the graph mentions. *)
LEMMA LastMentionIs ==
  ASSUME NEW nodes, DOMAIN nodes = 1 .. Len(nodes), Len(nodes) \in Nat, NEW k \in DOMAIN nodes
  PROVE  LastMention(nodes, nodes[k].line) \in DOMAIN nodes
         /\ nodes[LastMention(nodes, nodes[k].line)].line = nodes[k].line
<1> DEFINE T == {j \in DOMAIN nodes : nodes[j].line = nodes[k].line}
<1>1. T \in SUBSET (0 .. Len(nodes)) /\ T # {}
  OBVIOUS
<1> HIDE DEF T
<1>2. PICK x \in T : \A y \in T : y <= x
  BY <1>1, GreatestBelow
<1>3. \E x2 \in DOMAIN nodes :
        nodes[x2].line = nodes[k].line /\ \A j \in DOMAIN nodes : nodes[j].line = nodes[k].line => j <= x2
  BY <1>2 DEF T
<1> QED BY <1>3 DEF LastMention

(* At the end a target is a pair of files of its own. *)
LEMMA TargetFiles ==
  ASSUME PassInv, passPc = "done", NEW i \in DOMAIN target_file_names
  PROVE  /\ i \in 1 .. Read /\ i \in DOMAIN SelectFiles /\ i \in DOMAIN DfgFiles
         /\ Graph(target_file_names[i]) = DfgFiles[i].nodes
         /\ \A file, func : Selects(target_file_names[i], file, func) <=> i \in SelectedBy(file, func)
<1>1. PassTypes /\ FilesRead
  BY DEF PassInv
<1>2. /\ Len(SelectFiles) = Len(DfgFiles) /\ Read = Len(SelectFiles) /\ Read \in Nat
      /\ Len(instr_targets_vector) = Read
      /\ DOMAIN target_file_names = 1 .. Read /\ DOMAIN SelectFiles = 1 .. Read
      /\ DOMAIN DfgFiles = 1 .. Read /\ DOMAIN instr_targets_vector = 1 .. Read
  BY <1>1, PassFolders DEF FilesRead, Read, PassTypes
<1>3. /\ target_file_names[i] = SelectFiles[i].name /\ SelectFiles[i].name = DfgFiles[i].name
      /\ instr_targets_vector[i] = SelectFiles[i].funcs
  BY <1>1, <1>2 DEF FilesRead
<1>4. Graph(target_file_names[i]) = DfgFiles[i].nodes
  <2> DEFINE D == {DfgFiles[k] : k \in DOMAIN DfgFiles}
             Chosen == CHOOSE d \in D : d.name = target_file_names[i]
  <2>1. DfgFiles[i] \in D /\ DfgFiles[i].name = target_file_names[i]
    BY <1>2, <1>3
  <2>2. ASSUME NEW d \in D, d.name = target_file_names[i] PROVE d = DfgFiles[i]
    <3>1. PICK k \in DOMAIN DfgFiles : d = DfgFiles[k]
      OBVIOUS
    <3>2. k = i
      BY <1>1, <1>2, <1>3, <2>2, <3>1, PassFolders
    <3> QED BY <3>1, <3>2
  <2>3. Graph(target_file_names[i]) = Chosen.nodes
    BY DEF Graph, DfgFiles
  <2>4. Chosen = DfgFiles[i]
    <3> HIDE DEF D
    <3> QED BY <2>1, <2>2
  <2> HIDE DEF Chosen
  <2> QED BY <2>3, <2>4
<1>5. ASSUME NEW file, NEW func
      PROVE  Selects(target_file_names[i], file, func) <=> i \in SelectedBy(file, func)
  <2>1. i \in SelectedBy(file, func) <=> <<file, func>> \in SelectFiles[i].funcs
    BY <1>2, <1>3 DEF SelectedBy
  <2>2. Selects(target_file_names[i], file, func) <=>
          \E s \in DOMAIN SelectFiles :
            SelectFiles[s].name = target_file_names[i] /\ <<file, func>> \in SelectFiles[s].funcs
    BY DEF Selects, SelectFiles
  <2>3. \A s \in DOMAIN SelectFiles : SelectFiles[s].name = target_file_names[i] => s = i
    BY <1>1, <1>2, <1>3, PassFolders
  <2> QED BY <1>2, <1>3, <2>1, <2>2, <2>3
<1> QED BY <1>2, <1>4, <1>5

(* The stores of a block for a target are as many as the block's lines in  *)
(* the target's graph: lines have nodes of their own.                      *)
StoresFor(i, file, lines) == {StoreOf(i, <<file, l>>) : l \in LinesIn(i, file, lines)}
NodeLines(nodes, file, lines) == {l \in lines : \E k \in DOMAIN nodes : nodes[k].line = <<file, l>>}
ScoreOfLine(nodes, file, lines, s) ==
  /\ nodes[s.idx + 1].line \in {<<file, l>> : l \in lines}
  /\ nodes[s.idx + 1].score = s.score
\* Each line of a target's graph is stored once, with its last score.
LEMMA StoresPerLine ==
  ASSUME PassInv, passPc = "done", NEW i \in DOMAIN target_file_names,
         NEW file, NEW lines, IsFiniteSet(lines)
  PROVE  /\ Cardinality(StoresFor(i, file, lines)) = Cardinality(LinesIn(i, file, lines))
         /\ LinesIn(i, file, lines) = NodeLines(DfgFiles[i].nodes, file, lines)
         /\ \A s \in StoresFor(i, file, lines) :
              s.target = i /\ ScoreOfLine(DfgFiles[i].nodes, file, LinesIn(i, file, lines), s)
<1> DEFINE L == LinesIn(i, file, lines)
           S == {StoreOf(i, <<file, l>>) : l \in L}
           nodes == DfgFiles[i].nodes
<1>1. /\ i \in 1 .. Read /\ i \in DOMAIN DfgFiles
      /\ DOMAIN nodes = 1 .. Len(nodes) /\ dfg_map_vector[i] = NodeMap(nodes)
  BY TargetFiles, PassFolders DEF PassInv, FilesRead
<1>2. Len(nodes) \in Nat
  BY <1>1, PassFolders DEF PassInv
<1> HIDE DEF nodes
<1>3. L = {l \in lines : \E k \in DOMAIN nodes : nodes[k].line = <<file, l>>}
  BY <1>1 DEF LinesIn, NodeMap
<1>4. ASSUME NEW l \in L
      PROVE  \E x \in 1 .. Len(nodes) :
               /\ nodes[x].line = <<file, l>>
               /\ StoreOf(i, <<file, l>>) = [target |-> i, idx |-> x - 1, score |-> nodes[x].score]
  <2> DEFINE last == LastMention(nodes, <<file, l>>)
  <2>1. PICK k \in DOMAIN nodes : nodes[k].line = <<file, l>>
    BY <1>3
  <2>2. last \in DOMAIN nodes /\ nodes[last].line = <<file, l>>
    BY <1>1, <1>2, <2>1, LastMentionIs
  <2>3. <<file, l>> \in {nodes[j].line : j \in DOMAIN nodes}
    BY <2>1
  <2>4. dfg_map_vector[i][<<file, l>>] = [idx |-> last - 1, score |-> nodes[last].score]
    BY <1>1, <2>3 DEF NodeMap
  <2>5. StoreOf(i, <<file, l>>) =
          [target |-> i, idx |-> dfg_map_vector[i][<<file, l>>].idx, score |-> dfg_map_vector[i][<<file, l>>].score]
    BY DEF StoreOf
  <2> HIDE DEF last
  <2>6. StoreOf(i, <<file, l>>) = [target |-> i, idx |-> last - 1, score |-> nodes[last].score]
    BY <2>4, <2>5
  <2> QED BY <1>1, <2>2, <2>6
<1> HIDE DEF L
<1>5. ASSUME NEW l \in L
      PROVE  /\ StoreOf(i, <<file, l>>).target = i
             /\ nodes[StoreOf(i, <<file, l>>).idx + 1].line = <<file, l>>
             /\ nodes[StoreOf(i, <<file, l>>).idx + 1].score = StoreOf(i, <<file, l>>).score
  <2>1. PICK x \in 1 .. Len(nodes) :
               /\ nodes[x].line = <<file, l>>
               /\ StoreOf(i, <<file, l>>) = [target |-> i, idx |-> x - 1, score |-> nodes[x].score]
    BY <1>4
  <2>2. (x - 1) + 1 = x
    BY <1>2
  <2> QED BY <2>1, <2>2
<1>6. Cardinality(S) = Cardinality(L)
  <2> DEFINE f == [l \in L |-> StoreOf(i, <<file, l>>)]
  <2>1. f \in Bijection(L, S)
    <3>1. f \in [L -> S]
      OBVIOUS
    <3>2. ASSUME NEW l \in L, NEW m \in L, f[l] = f[m] PROVE l = m
      <4>1. <<file, l>> = <<file, m>>
        BY <1>5, <3>2
      <4> QED BY <4>1
    <3>3. \A s \in S : \E l \in L : f[l] = s
      OBVIOUS
    <3> HIDE DEF f, S
    <3> QED BY <3>1, <3>2, <3>3, Fun_IsBij
  <2>2. IsFiniteSet(L)
    BY <1>3, FS_Subset
  <2> HIDE DEF f, S
  <2> QED BY <2>1, <2>2, FS_Bijection, Fun_ExistsBij
<1> QED BY <1>3, <1>5, <1>6 DEF L, nodes, StoresFor, NodeLines, ScoreOfLine

\* What a block is given, once the pass is done.
LEMMA BlocksGiven ==
  ASSUME PassInv, passPc = "done", NEW f \in DOMAIN passInput.funcs, passInput.funcs[f].file # "none",
         NEW b \in DOMAIN passInput.funcs[f].blocks, NEW sel,
         sel = SelectedBy(passInput.funcs[f].file, passInput.funcs[f].name)
  PROVE  {q \in blocks_done : q.func = f /\ q.block = b} =
           IF sel # {}
           THEN {[func |-> f, block |-> b,
                  stores |-> StoresOf(passInput.funcs[f].file, passInput.funcs[f].blocks[b], sel)]}
           ELSE {}
<1> DEFINE p == passInput.funcs[f]
           rec(c) == [func |-> f, block |-> c, stores |-> StoresOf(p.file, p.blocks[c], sel)]
           Q == {q \in blocks_done : q.func = f /\ q.block = b}
<1>1. f \in 1 .. funcIndex - 1
  BY PassFolders DEF PassInv, PassTypes, FunctionsDone
<1>2. {q \in blocks_done : q.func = f} = Given(f)
  BY <1>1 DEF PassInv, FunctionsDone
<1>3. Given(f) = {rec(c) : c \in IF sel # {} THEN DOMAIN p.blocks ELSE {}}
  BY DEF Given
<1>4. Q = {q \in Given(f) : q.block = b}
  BY <1>2
<1>5. \A c : rec(c).block = c
  OBVIOUS
<1> HIDE DEF p, rec, Q
<1>6. CASE sel = {}
  BY <1>3, <1>4, <1>6 DEF Q
<1>7. CASE sel # {}
  <2>1. b \in DOMAIN p.blocks
    BY DEF p
  <2>2. Q = {rec(b)}
    BY <1>3, <1>4, <1>5, <1>7, <2>1
  <2> QED BY <1>7, <2>2 DEF Q, rec, p
<1> QED BY <1>6, <1>7

\* The invariant is strong enough.
LEMMA PassInvEnough == PassInv => ScoresAreTheTargets
<1> SUFFICES ASSUME PassInv, passPc = "done",
                    NEW f \in DOMAIN passInput.funcs, passInput.funcs[f].file # "none",
                    NEW b \in DOMAIN passInput.funcs[f].blocks
             PROVE  LET p == passInput.funcs[f]
                    IN /\ (\E r \in blocks_done : r.func = f /\ r.block = b)
                            <=> \E d \in DOMAIN passInput.dfg : Selects(passInput.dfg[d].name, p.file, p.name)
                       /\ \A i \in DOMAIN target_file_names :
                            LET n == target_file_names[i]
                                lines == LinesFor(n, p.file, p.name, p.blocks[b])
                            IN /\ Cardinality(StoredFor(f, b, i)) = Cardinality(lines)
                               /\ \A s \in StoredFor(f, b, i) :
                                    /\ Graph(n)[s.idx + 1].line \in {<<p.file, l>> : l \in lines}
                                    /\ Graph(n)[s.idx + 1].score = s.score
  BY DEF ScoresAreTheTargets
<1> DEFINE p == passInput.funcs[f]
           sel == SelectedBy(p.file, p.name)
           Q == {q \in blocks_done : q.func = f /\ q.block = b}
           stores == StoresOf(p.file, p.blocks[b], sel)
<1>1. Q = IF sel # {} THEN {[func |-> f, block |-> b, stores |-> stores]} ELSE {}
  BY BlocksGiven
<1>2. /\ DOMAIN target_file_names = 1 .. Read /\ DOMAIN DfgFiles = 1 .. Read
      /\ DOMAIN instr_targets_vector = 1 .. Read
      /\ \A i \in 1 .. Read : target_file_names[i] = DfgFiles[i].name
  BY PassFolders DEF PassInv, FilesRead, PassTypes, Read
<1>3. sel \subseteq 1 .. Read
  BY <1>2 DEF SelectedBy
<1>4. IsFiniteSet(p.blocks[b])
  BY PassFolders DEF PassInv
<1> HIDE DEF p, stores
<1>5. (\E r \in blocks_done : r.func = f /\ r.block = b)
        <=> \E d \in DOMAIN passInput.dfg : Selects(passInput.dfg[d].name, p.file, p.name)
  <2>1. (\E r \in blocks_done : r.func = f /\ r.block = b) <=> Q # {}
    OBVIOUS
  <2>2. Q # {} <=> sel # {}
    BY <1>1
  <2>3. \A i \in 1 .. Read : Selects(DfgFiles[i].name, p.file, p.name) <=> i \in sel
    BY <1>2, TargetFiles
  <2>4. sel # {} <=> \E d \in DOMAIN DfgFiles : Selects(DfgFiles[d].name, p.file, p.name)
    BY <1>2, <1>3, <2>3
  <2> QED BY <2>1, <2>2, <2>4 DEF DfgFiles
<1>6. ASSUME NEW i \in DOMAIN target_file_names
      PROVE  LET n == target_file_names[i]
                 lines == LinesFor(n, p.file, p.name, p.blocks[b])
             IN /\ Cardinality(StoredFor(f, b, i)) = Cardinality(lines)
                /\ \A s \in StoredFor(f, b, i) :
                     /\ Graph(n)[s.idx + 1].line \in {<<p.file, l>> : l \in lines}
                     /\ Graph(n)[s.idx + 1].score = s.score
  <2> DEFINE n == target_file_names[i]
             lines == LinesFor(n, p.file, p.name, p.blocks[b])
             L(t) == LinesIn(t, p.file, p.blocks[b])
             S(t) == StoresFor(t, p.file, p.blocks[b])
             nodes == DfgFiles[i].nodes
  <2>1. Graph(n) = nodes /\ (Selects(n, p.file, p.name) <=> i \in sel)
    BY TargetFiles
  <2>2. /\ Cardinality(S(i)) = Cardinality(L(i)) /\ L(i) = NodeLines(nodes, p.file, p.blocks[b])
        /\ \A s \in S(i) : s.target = i /\ ScoreOfLine(nodes, p.file, L(i), s)
    BY <1>4, StoresPerLine
  <2>3. lines = IF i \in sel THEN L(i) ELSE {}
    <3>1. lines = {l \in p.blocks[b] : i \in sel /\ \E k \in DOMAIN nodes : nodes[k].line = <<p.file, l>>}
      BY <2>1 DEF LinesFor
    <3> QED BY <2>2, <3>1 DEF NodeLines
  <2>4. \A t : \A s \in S(t) : s.target = t
    <3>1. ASSUME NEW t, NEW l PROVE StoreOf(t, <<p.file, l>>).target = t
      BY DEF StoreOf
    <3> QED BY <3>1 DEF StoresFor
  <2>5. stores = UNION {S(t) : t \in sel}
    BY DEF stores, StoresOf, StoresFor
  <2>6. StoredFor(f, b, i) = UNION {{s \in r.stores : s.target = i} : r \in Q}
    BY DEF StoredFor
  <2> HIDE DEF n, lines, L, S, nodes, Q, sel
  <2>7. StoredFor(f, b, i) = IF i \in sel THEN S(i) ELSE {}
    <3>1. CASE sel = {}
      BY <1>1, <2>6, <3>1
    <3>2. CASE sel # {}
      <4> DEFINE one == [func |-> f, block |-> b, stores |-> stores]
      <4>1. Q = {one} /\ one.stores = stores
        BY <1>1, <3>2
      <4> HIDE DEF one
      <4>2. StoredFor(f, b, i) = {s \in stores : s.target = i}
        BY <2>6, <4>1
      <4> QED BY <2>4, <2>5, <4>2
    <3> QED BY <3>1, <3>2
  <2>8. CASE i \in sel
    BY <2>1, <2>2, <2>3, <2>7, <2>8 DEF n, lines, ScoreOfLine
  <2>9. CASE i \notin sel
    BY <2>1, <2>2, <2>3, <2>7, <2>9 DEF n, lines, ScoreOfLine
  <2> QED BY <2>8, <2>9
<1> QED BY <1>5, <1>6 DEF p

-----------------------------------------------------------------------------
(***************************************************************************)
(* The replaced allocator.                                                 *)
(***************************************************************************)

\* A set of numbers with a member has a least one.
LEMMA LeastMember ==
  ASSUME NEW T \in SUBSET Nat, T # {}
  PROVE  \E x \in T : \A y \in T : x <= y
<1> DEFINE R == OpToRel(<, Nat)
<1>1. IsWellFoundedOn(R, Nat)
  BY NatLessThanWellFounded
<1>2. \A x, y \in Nat : x < y => <<x, y>> \in R
  BY DEF OpToRel
<1> HIDE DEF R
<1>3. PICK x \in T : \A y \in T : ~(<<y, x>> \in R)
  <2>1. T \subseteq Nat
    OBVIOUS
  <2> QED BY <1>1, <2>1, WFMin
<1>4. ASSUME NEW y \in T PROVE x <= y
  <2>1. x \in Nat /\ y \in Nat /\ ~(y < x)
    BY <1>2, <1>3
  <2> QED BY <2>1
<1> QED BY <1>4

-----------------------------------------------------------------------------
(***************************************************************************)
(* Sums over finite sets.  MapThenSumSet is a recursive function on the    *)
(* subsets that takes them apart element by element: there is one, it is   *)
(* the only one, and it does not depend on the order.                      *)
(***************************************************************************)
SumOver(w, S) == MapThenSumSet(LAMBDA x : w[x], S)
FirstOf(T) == CHOOSE x \in T : TRUE
Partial(w, g, T) == IF T = {} THEN 0 ELSE w[FirstOf(T)] + g[T \ {FirstOf(T)}]
IsSum(g, w, S) == g = [T \in SUBSET S |-> Partial(w, g, T)]

\* A sum is a recursion over subsets.
LEMMA SumUnfolds ==
  ASSUME NEW w, NEW S
  PROVE  SumOver(w, S) = (CHOOSE g : IsSum(g, w, S))[S]
BY DEF SumOver, MapThenSumSet, MapThenFoldSet, IsSum, Partial, FirstOf

(* Sets are taken by their size. *)
LEMMA OneLess ==
  ASSUME NEW T, IsFiniteSet(T), T # {}
  PROVE  /\ FirstOf(T) \in T /\ IsFiniteSet(T \ {FirstOf(T)})
         /\ Cardinality(T) \in Nat \ {0} /\ Cardinality(T \ {FirstOf(T)}) = Cardinality(T) - 1
<1>1. FirstOf(T) \in T
  BY DEF FirstOf
<1>2. Cardinality(T) \in Nat /\ Cardinality(T) # 0
  BY FS_CardinalityType, FS_EmptySet
<1> QED BY <1>1, <1>2, FS_RemoveElement

UpTo(S, n) == {T \in SUBSET S : Cardinality(T) <= n}
IsSumUpTo(g, w, S, n) == g = [T \in UpTo(S, n) |-> Partial(w, g, T)]
\* The recursion over sets with one element more.
LEMMA SumExtends ==
  ASSUME NEW w, NEW S, IsFiniteSet(S), NEW n \in Nat, NEW f, IsSumUpTo(f, w, S, n)
  PROVE  \E g : IsSumUpTo(g, w, S, n + 1)
<1> DEFINE g == [T \in UpTo(S, n + 1) |-> Partial(w, f, T)]
<1>1. ASSUME NEW T \in UpTo(S, n) PROVE T \in UpTo(S, n + 1) /\ g[T] = f[T]
  <2>1. IsFiniteSet(T) /\ Cardinality(T) \in Nat
    BY FS_Subset, FS_CardinalityType DEF UpTo
  <2>2. T \in UpTo(S, n + 1)
    BY <2>1 DEF UpTo
  <2>3. f[T] = Partial(w, f, T)
    BY DEF IsSumUpTo
  <2> QED BY <2>2, <2>3
<1>2. ASSUME NEW T \in UpTo(S, n + 1) PROVE Partial(w, f, T) = Partial(w, g, T)
  <2>1. CASE T = {}
    BY <2>1 DEF Partial
  <2>2. CASE T # {}
    <3>1. IsFiniteSet(T) /\ T \subseteq S /\ Cardinality(T) <= n + 1
      BY FS_Subset DEF UpTo
    <3>2. T \ {FirstOf(T)} \in UpTo(S, n)
      BY <2>2, <3>1, OneLess DEF UpTo
    <3>3. g[T \ {FirstOf(T)}] = f[T \ {FirstOf(T)}]
      BY <1>1, <3>2
    <3> QED BY <3>3 DEF Partial
  <2> QED BY <2>1, <2>2
<1>3. g = [T \in UpTo(S, n + 1) |-> Partial(w, g, T)]
  BY <1>2
<1> QED BY <1>3 DEF IsSumUpTo

\* The recursion over sets of a given size.
LEMMA SumExistsUpTo ==
  ASSUME NEW w, NEW S, IsFiniteSet(S), NEW n \in Nat
  PROVE  \E g : IsSumUpTo(g, w, S, n)
<1> DEFINE None == {j \in Nat : ~\E g : IsSumUpTo(g, w, S, j)}
<1>1. SUFFICES ASSUME None # {} PROVE FALSE
  OBVIOUS
<1>2. PICK j \in None : \A i \in None : j <= i
  <2>1. None \in SUBSET Nat
    OBVIOUS
  <2> HIDE DEF None
  <2> QED BY <1>1, <2>1, LeastMember
<1>3. j # 0
  <2> DEFINE g == [T \in UpTo(S, 0) |-> 0]
  <2>1. ASSUME NEW T \in UpTo(S, 0) PROVE T = {}
    <3>1. IsFiniteSet(T) /\ Cardinality(T) <= 0
      BY FS_Subset DEF UpTo
    <3> QED BY <3>1, FS_CardinalityType, FS_EmptySet
  <2>2. g = [T \in UpTo(S, 0) |-> Partial(w, g, T)]
    BY <2>1 DEF Partial
  <2> HIDE DEF g
  <2>3. IsSumUpTo(g, w, S, 0)
    BY <2>2 DEF IsSumUpTo
  <2> QED BY <1>2, <2>3
<1>4. j - 1 \in Nat /\ ~(j - 1 \in None) /\ (j - 1) + 1 = j
  <2>1. j - 1 \in Nat /\ ~(j <= j - 1) /\ (j - 1) + 1 = j
    BY <1>2, <1>3
  <2> HIDE DEF None
  <2> QED BY <1>2, <2>1
<1>5. PICK f : IsSumUpTo(f, w, S, j - 1)
  BY <1>4
<1> QED BY <1>2, <1>4, <1>5, SumExtends

\* The recursion over a finite set.
LEMMA SumExists ==
  ASSUME NEW w, NEW S, IsFiniteSet(S)
  PROVE  IsSum(CHOOSE g : IsSum(g, w, S), w, S)
<1>1. Cardinality(S) \in Nat
  BY FS_CardinalityType
<1>2. UpTo(S, Cardinality(S)) = SUBSET S
  BY FS_Subset DEF UpTo
<1>3. PICK g : IsSumUpTo(g, w, S, Cardinality(S))
  BY <1>1, SumExistsUpTo
<1>4. IsSum(g, w, S)
  BY <1>2, <1>3 DEF IsSum, IsSumUpTo
<1> QED BY <1>4

(* Weights that agree on a set have one sum over it, whatever larger sets  *)
(* the recursion is over.                                                  *)
LEMMA SumUnique ==
  ASSUME NEW w, NEW v, NEW S, NEW R, NEW f, NEW g, IsSum(f, w, S), IsSum(g, v, R),
         NEW U, IsFiniteSet(U), U \subseteq S, U \subseteq R, \A x \in U : w[x] = v[x]
  PROVE  f[U] = g[U]
<1> DEFINE Wrong == {T \in SUBSET U : f[T] # g[T]}
           Sizes == {Cardinality(T) : T \in Wrong}
<1>1. SUFFICES ASSUME Wrong # {} PROVE FALSE
  OBVIOUS
<1>2. Sizes \in SUBSET Nat /\ Sizes # {}
  BY <1>1, FS_Subset, FS_CardinalityType
<1>3. PICK n \in Sizes : \A m \in Sizes : n <= m
  <2> HIDE DEF Sizes
  <2> QED BY <1>2, LeastMember
<1>4. PICK T \in Wrong : n = Cardinality(T)
  BY <1>3
<1>5. f[T] = Partial(w, f, T) /\ g[T] = Partial(v, g, T) /\ IsFiniteSet(T) /\ T \subseteq U
  BY FS_Subset DEF IsSum
<1>6. T # {}
  BY <1>4, <1>5 DEF Partial
<1>7. T \ {FirstOf(T)} \in SUBSET U /\ T \ {FirstOf(T)} \notin Wrong /\ FirstOf(T) \in U
  <2>1. T \ {FirstOf(T)} \in SUBSET U /\ ~(n <= Cardinality(T \ {FirstOf(T)})) /\ FirstOf(T) \in U
    <3>1. /\ FirstOf(T) \in T /\ Cardinality(T) \in Nat \ {0}
          /\ Cardinality(T \ {FirstOf(T)}) = Cardinality(T) - 1
      BY <1>5, <1>6, OneLess
    <3>2. n = Cardinality(T) /\ T \subseteq U
      BY <1>4, <1>5
    <3> HIDE DEF Wrong, Sizes
    <3>3. T \ {FirstOf(T)} \in SUBSET U /\ FirstOf(T) \in U
      BY <3>1, <3>2
    <3> QED BY <3>1, <3>2, <3>3
  <2>2. Cardinality(T \ {FirstOf(T)}) \notin Sizes
    <3> HIDE DEF Sizes
    <3> QED BY <1>3, <2>1
  <2>3. T \ {FirstOf(T)} \notin Wrong
    <3> HIDE DEF Wrong
    <3> QED BY <2>2
  <2> HIDE DEF Wrong
  <2> QED BY <2>1, <2>3
<1>8. w[FirstOf(T)] = v[FirstOf(T)] /\ f[T \ {FirstOf(T)}] = g[T \ {FirstOf(T)}]
  BY <1>7
<1> QED BY <1>4, <1>5, <1>8 DEF Partial

\* Equal weights have equal sums.
LEMMA SumSame ==
  ASSUME NEW w, NEW v, NEW S, IsFiniteSet(S), \A x \in S : w[x] = v[x]
  PROVE  SumOver(w, S) = SumOver(v, S)
<1> DEFINE f == CHOOSE g : IsSum(g, w, S)
           h == CHOOSE g : IsSum(g, v, S)
<1>1. IsSum(f, w, S) /\ IsSum(h, v, S)
  BY SumExists
<1> HIDE DEF f, h
<1>2. f[S] = h[S]
  BY <1>1, SumUnique
<1> QED BY <1>2, SumUnfolds DEF f, h

\* A sum takes off one element, the one that CHOOSE picks.
LEMMA SumStep ==
  ASSUME NEW w, NEW S, IsFiniteSet(S), S # {}
  PROVE  SumOver(w, S) = w[FirstOf(S)] + SumOver(w, S \ {FirstOf(S)})
<1> DEFINE f == CHOOSE g : IsSum(g, w, S)
           R == S \ {FirstOf(S)}
           h == CHOOSE g : IsSum(g, w, R)
<1>1. IsFiniteSet(R) /\ R \subseteq S
  BY OneLess
<1>2. IsSum(f, w, S)
  BY SumExists
<1> HIDE DEF f
<1>3. IsSum(h, w, R)
  <2> HIDE DEF R
  <2> QED BY <1>1, SumExists
<1>4. f[R] = h[R]
  <2> HIDE DEF R, h
  <2> QED BY <1>1, <1>2, <1>3, SumUnique
<1>5. f[S] = w[FirstOf(S)] + f[R]
  BY <1>2 DEF IsSum, Partial
<1>6. SumOver(w, S) = f[S] /\ SumOver(w, R) = h[R]
  BY SumUnfolds DEF f
<1> QED BY <1>4, <1>5, <1>6

\* The empty sum.
LEMMA SumEmpty == ASSUME NEW w PROVE SumOver(w, {}) = 0
<1> DEFINE f == CHOOSE g : IsSum(g, w, {})
<1>1. IsSum(f, w, {})
  BY SumExists, FS_EmptySet
<1> HIDE DEF f
<1>2. f[{}] = 0
  BY <1>1 DEF IsSum, Partial
<1> QED BY <1>2, SumUnfolds DEF f

(* A sum of integers is one, and an element more adds its weight. *)
LEMMA SumIsInt ==
  ASSUME NEW w, NEW S, IsFiniteSet(S), \A x \in S : w[x] \in Int
  PROVE  SumOver(w, S) \in Int
<1> DEFINE Wrong == {T \in SUBSET S : SumOver(w, T) \notin Int}
           Sizes == {Cardinality(T) : T \in Wrong}
<1>1. SUFFICES ASSUME Wrong # {} PROVE FALSE
  OBVIOUS
<1>2. Sizes \in SUBSET Nat /\ Sizes # {}
  BY <1>1, FS_Subset, FS_CardinalityType
<1>3. PICK n \in Sizes : \A m \in Sizes : n <= m
  <2> HIDE DEF Sizes
  <2> QED BY <1>2, LeastMember
<1>4. PICK T \in Wrong : n = Cardinality(T)
  BY <1>3
<1>5. IsFiniteSet(T) /\ T \subseteq S
  BY FS_Subset
<1>6. T # {}
  BY <1>4, SumEmpty
<1>7. T \ {FirstOf(T)} \in SUBSET S /\ T \ {FirstOf(T)} \notin Wrong /\ FirstOf(T) \in S
  <2>1. T \ {FirstOf(T)} \in SUBSET S /\ ~(n <= Cardinality(T \ {FirstOf(T)})) /\ FirstOf(T) \in S
    BY <1>4, <1>5, <1>6, OneLess
  <2>2. Cardinality(T \ {FirstOf(T)}) \notin Sizes
    <3> HIDE DEF Sizes
    <3> QED BY <1>3, <2>1
  <2>3. T \ {FirstOf(T)} \notin Wrong
    <3> HIDE DEF Wrong
    <3> QED BY <2>2
  <2> HIDE DEF Wrong
  <2> QED BY <2>1, <2>3
<1>8. SumOver(w, T \ {FirstOf(T)}) \in Int /\ w[FirstOf(T)] \in Int
  BY <1>7
<1>9. SumOver(w, T) = w[FirstOf(T)] + SumOver(w, T \ {FirstOf(T)})
  BY <1>5, <1>6, SumStep
<1>10. SumOver(w, T) \in Int
  BY <1>8, <1>9
<1> QED BY <1>4, <1>10

\* A sum takes off whichever element.
LEMMA SumAdds ==
  ASSUME NEW w, NEW S, IsFiniteSet(S), \A x \in S : w[x] \in Int, NEW y \in S
  PROVE  SumOver(w, S) = w[y] + SumOver(w, S \ {y})
<1> DEFINE Adds(T, z) == SumOver(w, T) = w[z] + SumOver(w, T \ {z})
           Wrong == {T \in SUBSET S : \E z \in T : ~Adds(T, z)}
           Sizes == {Cardinality(T) : T \in Wrong}
<1>1. SUFFICES ASSUME Wrong # {} PROVE FALSE
  OBVIOUS
<1> HIDE DEF Adds
<1>2. Sizes \in SUBSET Nat /\ Sizes # {}
  BY <1>1, FS_Subset, FS_CardinalityType
<1>3. PICK n \in Sizes : \A m \in Sizes : n <= m
  <2> HIDE DEF Sizes
  <2> QED BY <1>2, LeastMember
<1>4. PICK T \in Wrong : n = Cardinality(T)
  BY <1>3
<1>5. IsFiniteSet(T) /\ T \subseteq S
  BY FS_Subset
<1>6. PICK z \in T : ~Adds(T, z)
  BY <1>4
<1> DEFINE x == FirstOf(T)
<1>7. x \in T /\ T # {} /\ SumOver(w, T) = w[x] + SumOver(w, T \ {x})
  BY <1>5, <1>6, OneLess, SumStep
<1>8. x # z
  BY <1>6, <1>7 DEF Adds
\* Smaller sets add up.
<1>9. ASSUME NEW e \in T, NEW d \in T \ {e} PROVE Adds(T \ {e}, d)
  <2>1. T \ {e} \in SUBSET S /\ ~(n <= Cardinality(T \ {e}))
    <3>1. Cardinality(T \ {e}) = Cardinality(T) - 1 /\ Cardinality(T) \in Nat
      BY <1>5, FS_RemoveElement, FS_CardinalityType
    <3> QED BY <1>4, <1>5, <3>1
  <2>2. Cardinality(T \ {e}) \notin Sizes
    <3> HIDE DEF Sizes
    <3> QED BY <1>3, <2>1
  <2>3. T \ {e} \notin Wrong
    <3> HIDE DEF Wrong
    <3> QED BY <2>2
  <2> QED BY <2>1, <2>3
<1> HIDE DEF x
<1>10. Adds(T \ {x}, z) /\ Adds(T \ {z}, x)
  BY <1>7, <1>8, <1>9
<1>11. (T \ {x}) \ {z} = (T \ {z}) \ {x}
  OBVIOUS
<1>12. /\ SumOver(w, T \ {x}) = w[z] + SumOver(w, (T \ {x}) \ {z})
       /\ SumOver(w, T \ {z}) = w[x] + SumOver(w, (T \ {x}) \ {z})
  BY <1>10, <1>11 DEF Adds
<1>13. /\ w[x] \in Int /\ w[z] \in Int /\ SumOver(w, (T \ {x}) \ {z}) \in Int
  <2>1. IsFiniteSet((T \ {x}) \ {z}) /\ (T \ {x}) \ {z} \subseteq S
    BY <1>5, FS_Subset
  <2> QED BY <1>5, <1>7, <2>1, SumIsInt
<1>14. SumOver(w, T) = w[z] + SumOver(w, T \ {z})
  BY <1>7, <1>12, <1>13
<1> QED BY <1>6, <1>14 DEF Adds

-----------------------------------------------------------------------------
(***************************************************************************)
(* Arithmetic with a size that wraps around.                               *)
(***************************************************************************)
LEMMA Wraps ==
  ASSUME NEW M \in Nat \ {0}, NEW a \in Int
  PROVE  \E q \in Int : a = q * M + (a % M) /\ a % M \in Int /\ 0 <= a % M /\ a % M < M
<1>1. M \in Nat /\ M > 0
  OBVIOUS
<1>2. PICK q \in Int, r \in 0 .. M - 1 : a = q * M + r /\ a % M = r
  BY <1>1
<1>3. a = q * M + (a % M) /\ a % M \in Int /\ 0 <= a % M /\ a % M < M
  BY <1>1, <1>2
<1> QED BY <1>3

\* A multiple smaller than its unit is zero.
LEMMA MultipleOf ==
  ASSUME NEW M \in Nat \ {0}, NEW q \in Int, NEW d \in Int, q * M = d, d < M, -d < M
  PROVE  q = 0
<1>1. CASE q >= 1
  <2>1. PICK e \in Nat : q = e + 1
    <3>1. q - 1 \in Nat /\ q = (q - 1) + 1
      BY <1>1
    <3> QED BY <3>1
  <2>2. q * M = e * M + M /\ e * M >= 0
    BY <2>1
  <2> QED BY <2>2
<1>2. CASE q <= -1
  <2>1. PICK e \in Nat : q = -e - 1
    <3>1. (-q) - 1 \in Nat /\ q = -((-q) - 1) - 1
      BY <1>2
    <3> QED BY <3>1
  <2>2. q * M = -(e * M) - M /\ e * M >= 0
    BY <2>1
  <2> QED BY <2>2
<1> QED BY <1>1, <1>2

\* Numbers that differ by a multiple have the same rest.
LEMMA SameRest ==
  ASSUME NEW M \in Nat \ {0}, NEW a \in Int, NEW b \in Int, NEW k \in Int, a = b + k * M
  PROVE  a % M = b % M
<1>1. PICK x \in Int : a = x * M + (a % M) /\ a % M \in Int /\ 0 <= a % M /\ a % M < M
  BY Wraps
<1>2. PICK y \in Int : b = y * M + (b % M) /\ b % M \in Int /\ 0 <= b % M /\ b % M < M
  BY Wraps
<1>3. (x - y - k) * M = x * M - y * M - k * M /\ x * M \in Int /\ y * M \in Int /\ k * M \in Int
  OBVIOUS
<1>4. (x - y - k) * M = (b % M) - (a % M)
  BY <1>1, <1>2, <1>3
<1> DEFINE q == x - y - k
           d == (b % M) - (a % M)
<1>5. q \in Int /\ d \in Int /\ d < M /\ -d < M /\ q * M = d
  BY <1>1, <1>2, <1>4
<1> HIDE DEF q
<1>6. q = 0
  BY <1>5, MultipleOf
<1>7. d = 0
  BY <1>5, <1>6
<1> QED BY <1>1, <1>2, <1>7

-----------------------------------------------------------------------------
(***************************************************************************)
(* Dislocator: what the threads counted is what is live, up to the wrap.     *)
(***************************************************************************)
BufferContents == {<<"clobber">>, <<"zero">>} \cup {<<"copy", k>> : k \in Nat}
BufferType == [pages : Nat, start : Int, len : Nat, content : BufferContents, access : BOOLEAN]
Guarded(b) == b.start >= 8 /\ b.start + b.len = HeapPage * b.pages
LensOf(bs) == [k \in DOMAIN bs |-> bs[k].len]
LiveIn(bs) == {k \in DOMAIN bs : bs[k].access}
LiveOf(bs) == SumOver(LensOf(bs), LiveIn(bs))
Balanced(totals, bs) ==
  /\ bs \in Seq(BufferType) /\ \A k \in DOMAIN bs : Guarded(bs[k])
  /\ totals \in [HeapThreads -> Int]
  /\ \E q \in Int : SumOver(totals, HeapThreads) = LiveOf(bs) + q * SizeLimit
HeapInv == Balanced(total_mem, buffers)

\* What the assumption says of sizes and threads.
LEMMA SizeIsPositive == SizeLimit \in Nat \ {0} /\ IsFiniteSet(HeapThreads) /\ AllocLens \subseteq Nat
BY DislocatorAssumption

\* The fields of a buffer.
LEMMA BufferFields ==
  ASSUME NEW bs \in Seq(BufferType), NEW k \in DOMAIN bs
  PROVE  bs[k] \in BufferType /\ bs[k].len \in Nat /\ LensOf(bs)[k] = bs[k].len
<1>1. bs[k] \in BufferType
  OBVIOUS
<1>2. \A b \in BufferType : b.len \in Nat
  BY DEF BufferType
<1> QED BY <1>1, <1>2 DEF LensOf

\* The buffers in use are finitely many.
LEMMA LiveFinite ==
  ASSUME NEW bs \in Seq(BufferType)
  PROVE  IsFiniteSet(LiveIn(bs)) /\ LiveIn(bs) \subseteq DOMAIN bs /\ DOMAIN bs = 1 .. Len(bs)
         /\ LiveOf(bs) \in Int
<1>1. Len(bs) \in Nat /\ DOMAIN bs = 1 .. Len(bs)
  OBVIOUS
<1>2. IsFiniteSet(1 .. Len(bs))
  BY <1>1, FS_Interval
<1>3. IsFiniteSet(LiveIn(bs)) /\ LiveIn(bs) \subseteq DOMAIN bs
  BY <1>1, <1>2, FS_Subset DEF LiveIn
<1>4. \A x \in LiveIn(bs) : LensOf(bs)[x] \in Int
  <2>1. ASSUME NEW x \in LiveIn(bs) PROVE LensOf(bs)[x] \in Nat
    BY <1>3, BufferFields
  <2> QED BY <2>1
<1> QED BY <1>1, <1>3, <1>4, SumIsInt DEF LiveOf

(* The mapping has room in front of the buffer for its length and canary.  *)
LEMMA MappingGuarded ==
  ASSUME NEW len \in Nat, NEW content \in BufferContents
  PROVE  Mapping(len, content) \in BufferType /\ Guarded(Mapping(len, content))
         /\ Mapping(len, content).access = TRUE /\ Mapping(len, content).len = len
<1> DEFINE pages == PG_COUNT(len + 8)
<1>1. HeapPage \in Nat /\ HeapPage > 8
  BY DislocatorAssumption
<1>2. pages \in Nat /\ HeapPage * pages >= len + 8 /\ HeapPage * pages \in Nat
  <2>1. PICK q \in Nat, r \in 0 .. HeapPage - 1 :
          len + 8 + HeapPage - 1 = q * HeapPage + r /\ (len + 8 + HeapPage - 1) \div HeapPage = q
    BY <1>1
  <2>2. q * HeapPage = HeapPage * q /\ HeapPage * q \in Nat
    BY <1>1
  <2> QED BY <1>1, <2>1, <2>2 DEF PG_COUNT
<1>3. Mapping(len, content) = [pages |-> pages, start |-> HeapPage * pages - len,
                               len |-> len, content |-> content, access |-> TRUE]
  BY DEF Mapping
<1> HIDE DEF pages
<1> QED BY <1>2, <1>3 DEF BufferType, Guarded

\* A buffer more in use.
LEMMA AppendLive ==
  ASSUME NEW bs \in Seq(BufferType), NEW b \in BufferType, b.access = TRUE
  PROVE  LiveOf(Append(bs, b)) = LiveOf(bs) + b.len
<1> DEFINE cs == Append(bs, b)
           new == Len(bs) + 1
<1>1. /\ cs \in Seq(BufferType) /\ Len(cs) = new /\ cs[new] = b /\ Len(bs) \in Nat
      /\ \A k \in 1 .. Len(bs) : cs[k] = bs[k]
  BY AppendProperties
<1> HIDE DEF cs
<1>2. LiveIn(cs) = LiveIn(bs) \cup {new} /\ new \notin LiveIn(bs)
  BY <1>1 DEF LiveIn
<1>3. IsFiniteSet(LiveIn(bs)) /\ IsFiniteSet(LiveIn(cs)) /\ LiveIn(cs) \ {new} = LiveIn(bs)
  BY <1>1, <1>2, LiveFinite
<1>4. \A x \in LiveIn(cs) : LensOf(cs)[x] \in Int
  <2>1. ASSUME NEW x \in LiveIn(cs) PROVE LensOf(cs)[x] \in Nat
    BY <1>1, BufferFields DEF LiveIn
  <2> QED BY <2>1
<1>5. SumOver(LensOf(cs), LiveIn(cs)) = LensOf(cs)[new] + SumOver(LensOf(cs), LiveIn(bs))
  BY <1>2, <1>3, <1>4, SumAdds
<1>6. SumOver(LensOf(cs), LiveIn(bs)) = SumOver(LensOf(bs), LiveIn(bs))
  <2>1. \A x \in LiveIn(bs) : LensOf(cs)[x] = LensOf(bs)[x]
    BY <1>1 DEF LiveIn, LensOf
  <2> QED BY <1>3, <2>1, SumSame
<1>7. LensOf(cs)[new] = b.len
  BY <1>1 DEF LensOf
<1>8. LiveOf(bs) \in Int /\ b.len \in Int
  <2>1. b.len \in Nat
    BY DEF BufferType
  <2> QED BY <2>1, LiveFinite
<1> QED BY <1>5, <1>6, <1>7, <1>8 DEF LiveOf, cs

\* A buffer less in use.
LEMMA LiveDrops ==
  ASSUME NEW bs \in Seq(BufferType), NEW cs \in Seq(BufferType), DOMAIN cs = DOMAIN bs,
         NEW k \in LiveIn(bs), LiveIn(cs) = LiveIn(bs) \ {k},
         \A j \in DOMAIN bs : cs[j].len = bs[j].len
  PROVE  LiveOf(cs) = LiveOf(bs) - bs[k].len
<1>1. IsFiniteSet(LiveIn(bs)) /\ IsFiniteSet(LiveIn(cs)) /\ LiveOf(bs) \in Int /\ LiveOf(cs) \in Int
  BY LiveFinite
<1>2. SumOver(LensOf(bs), LiveIn(bs)) = LensOf(bs)[k] + SumOver(LensOf(bs), LiveIn(cs))
  <2>1. ASSUME NEW x \in LiveIn(bs) PROVE LensOf(bs)[x] \in Int
    <3>1. x \in DOMAIN bs
      BY DEF LiveIn
    <3> QED BY <3>1, BufferFields
  <2>2. \A x \in LiveIn(bs) : LensOf(bs)[x] \in Int
    BY <2>1
  <2> DEFINE S == LiveIn(bs)
             w == LensOf(bs)
  <2>3. IsFiniteSet(S) /\ k \in S /\ \A x \in S : w[x] \in Int
    BY <1>1, <2>2
  <2> HIDE DEF S, w
  <2>4. SumOver(w, S) = w[k] + SumOver(w, S \ {k})
    BY <2>3, SumAdds
  <2> QED BY <2>4 DEF S, w
<1>3. SumOver(LensOf(cs), LiveIn(cs)) = SumOver(LensOf(bs), LiveIn(cs))
  <2>1. ASSUME NEW x \in LiveIn(cs) PROVE LensOf(cs)[x] = LensOf(bs)[x]
    <3>1. x \in DOMAIN cs /\ x \in DOMAIN bs
      BY DEF LiveIn
    <3> QED BY <3>1, BufferFields
  <2> QED BY <1>1, <2>1, SumSame
<1>4. bs[k].len \in Int /\ LensOf(bs)[k] = bs[k].len
  <2>1. k \in DOMAIN bs
    BY DEF LiveIn
  <2> QED BY <2>1, BufferFields
<1> QED BY <1>1, <1>2, <1>3, <1>4 DEF LiveOf

\* Freeing takes the buffer's length off.
LEMMA FreeLive ==
  ASSUME NEW bs \in Seq(BufferType), NEW k \in DOMAIN bs, bs[k].access,
         NEW cs, cs = [bs EXCEPT ![k].access = FALSE]
  PROVE  /\ cs \in Seq(BufferType) /\ DOMAIN cs = DOMAIN bs
         /\ \A j \in DOMAIN bs : Guarded(bs[j]) => Guarded(cs[j])
         /\ LiveOf(cs) = LiveOf(bs) - bs[k].len
<1>1. \A j \in DOMAIN bs : bs[j] \in BufferType
  OBVIOUS
<1> DEFINE freed == [bs[k] EXCEPT !.access = FALSE]
<1>2. freed \in BufferType /\ freed.len = bs[k].len /\ freed.start = bs[k].start /\ freed.pages = bs[k].pages
  BY <1>1 DEF BufferType
<1>3. freed.access = FALSE
  BY <1>1 DEF BufferType
<1>4. cs = [bs EXCEPT ![k] = freed]
  OBVIOUS
<1> HIDE DEF freed
<1>5. cs \in Seq(BufferType) /\ DOMAIN cs = DOMAIN bs /\ cs[k] = freed
      /\ \A j \in DOMAIN bs : j # k => cs[j] = bs[j]
  <2>1. bs \in [1 .. Len(bs) -> BufferType] /\ Len(bs) \in Nat
    OBVIOUS
  <2>2. cs \in [1 .. Len(bs) -> BufferType]
    BY <1>2, <1>4, <2>1
  <2>3. cs \in Seq(BufferType)
    BY <2>1, <2>2
  <2>4. DOMAIN cs = DOMAIN bs /\ cs[k] = freed /\ \A j \in DOMAIN bs : j # k => cs[j] = bs[j]
    BY <1>4, <2>1
  <2> QED BY <2>3, <2>4
<1>6. \A j \in DOMAIN bs : cs[j].len = bs[j].len /\ cs[j].start = bs[j].start /\ cs[j].pages = bs[j].pages
  BY <1>2, <1>5
<1>7. LiveIn(cs) = LiveIn(bs) \ {k} /\ k \in LiveIn(bs)
  BY <1>3, <1>5 DEF LiveIn
<1>12. LiveOf(cs) = LiveOf(bs) - bs[k].len
  BY <1>5, <1>6, <1>7, LiveDrops
<1> QED BY <1>5, <1>6, <1>12 DEF Guarded

\* A sum in which one weight changes.
LEMMA SumChanges ==
  ASSUME NEW S, IsFiniteSet(S), NEW w \in [S -> Int], NEW v \in [S -> Int], NEW t \in S,
         \A x \in S \ {t} : w[x] = v[x]
  PROVE  SumOver(w, S) \in Int /\ SumOver(v, S) = SumOver(w, S) - w[t] + v[t]
<1> DEFINE rest == S \ {t}
<1>1. IsFiniteSet(rest) /\ (\A x \in S : w[x] \in Int) /\ (\A x \in S : v[x] \in Int)
      /\ (\A x \in rest : w[x] \in Int)
  BY FS_Subset
<1>2. SumOver(w, S) = w[t] + SumOver(w, rest)
  BY <1>1, SumAdds
<1>3. SumOver(v, S) = v[t] + SumOver(v, rest)
  BY <1>1, SumAdds
<1>4. \A x \in rest : w[x] = v[x]
  OBVIOUS
<1> HIDE DEF rest
<1>5. SumOver(w, rest) = SumOver(v, rest)
  BY <1>1, <1>4, SumSame
<1>6. SumOver(w, rest) \in Int /\ w[t] \in Int /\ v[t] \in Int
  BY <1>1, SumIsInt
<1> QED BY <1>2, <1>3, <1>5, <1>6

(* A thread that counts d more, modulo size_t. *)
LEMMA TotalChanges ==
  ASSUME NEW w \in [HeapThreads -> Int], NEW v \in [HeapThreads -> Int],
         NEW t \in HeapThreads, NEW d \in Int,
         v[t] = (w[t] + d) % SizeLimit, \A x \in HeapThreads \ {t} : w[x] = v[x]
  PROVE  /\ SumOver(w, HeapThreads) \in Int
         /\ \E q \in Int : SumOver(v, HeapThreads) = SumOver(w, HeapThreads) + d + q * SizeLimit
<1>1. SizeLimit \in Nat \ {0} /\ IsFiniteSet(HeapThreads) /\ w[t] \in Int /\ v[t] \in Int
  BY SizeIsPositive
<1>2. PICK q \in Int : w[t] + d = q * SizeLimit + v[t]
  <2>1. w[t] + d \in Int
    OBVIOUS
  <2> QED BY <1>1, <2>1, Wraps
<1>3. SumOver(w, HeapThreads) \in Int /\ SumOver(v, HeapThreads) = SumOver(w, HeapThreads) - w[t] + v[t]
  BY <1>1, SumChanges, Zenon
<1>4. q * SizeLimit \in Int /\ (-q) * SizeLimit = -(q * SizeLimit) /\ -q \in Int
  BY <1>1
<1>5. SumOver(v, HeapThreads) = SumOver(w, HeapThreads) + d + (-q) * SizeLimit
  BY <1>1, <1>2, <1>3, <1>4
<1> QED BY <1>3, <1>4, <1>5

\* An allocation is counted once.
LEMMA BalancedAlloc ==
  ASSUME NEW totals, NEW bs, Balanced(totals, bs), NEW t \in HeapThreads,
         NEW len \in Nat, NEW content \in BufferContents
  PROVE  Balanced([totals EXCEPT ![t] = (totals[t] + len) % SizeLimit], Append(bs, Mapping(len, content)))
<1> DEFINE v == [totals EXCEPT ![t] = (totals[t] + len) % SizeLimit]
           b == Mapping(len, content)
           cs == Append(bs, b)
<1>1. b \in BufferType /\ Guarded(b) /\ b.access = TRUE /\ b.len = len
  BY MappingGuarded
<1> HIDE DEF b
<1>2. cs \in Seq(BufferType) /\ LiveOf(cs) = LiveOf(bs) + len
  <2>1. bs \in Seq(BufferType)
    BY DEF Balanced
  <2> QED BY <1>1, <2>1, AppendLive, AppendProperties
<1>3. \A k \in DOMAIN cs : Guarded(cs[k])
  <2>1. /\ Len(cs) = Len(bs) + 1 /\ cs[Len(bs) + 1] = b /\ \A k \in 1 .. Len(bs) : cs[k] = bs[k]
        /\ Len(bs) \in Nat /\ DOMAIN cs = 1 .. Len(bs) + 1 /\ DOMAIN bs = 1 .. Len(bs)
    BY <1>1, AppendProperties DEF Balanced
  <2> HIDE DEF cs
  <2>2. ASSUME NEW k \in DOMAIN cs PROVE Guarded(cs[k])
    <3>1. k \in 1 .. Len(bs) \/ k = Len(bs) + 1
      BY <2>1
    <3> QED BY <1>1, <2>1, <3>1 DEF Balanced
  <2> QED BY <2>2
<1>4. /\ v \in [HeapThreads -> Int] /\ SumOver(totals, HeapThreads) \in Int
      /\ \E q \in Int : SumOver(v, HeapThreads) = SumOver(totals, HeapThreads) + len + q * SizeLimit
  <2>1. totals \in [HeapThreads -> Int] /\ len \in Int
    BY DEF Balanced
  <2>2. totals[t] + len \in Int /\ SizeLimit \in Nat \ {0}
    BY <2>1, SizeIsPositive
  <2>3. (totals[t] + len) % SizeLimit \in Int
    BY <2>2, Wraps
  <2>4. v \in [HeapThreads -> Int] /\ v[t] = (totals[t] + len) % SizeLimit
        /\ \A x \in HeapThreads \ {t} : totals[x] = v[x]
    BY <2>1, <2>3
  <2> HIDE DEF v
  <2> QED BY <2>1, <2>4, TotalChanges, Zenon
<1>5. LiveOf(bs) \in Int /\ SizeLimit \in Int
  BY LiveFinite, SizeIsPositive DEF Balanced
<1> HIDE DEF v, cs
<1>6. PICK p \in Int : SumOver(totals, HeapThreads) = LiveOf(bs) + p * SizeLimit
  BY DEF Balanced
<1>7. PICK q \in Int : SumOver(v, HeapThreads) = SumOver(totals, HeapThreads) + len + q * SizeLimit
  BY <1>4
<1>8. p * SizeLimit \in Int /\ q * SizeLimit \in Int /\ (p + q) * SizeLimit = p * SizeLimit + q * SizeLimit
      /\ p + q \in Int
  BY <1>5
<1>9. SumOver(v, HeapThreads) = LiveOf(cs) + (p + q) * SizeLimit
  BY <1>2, <1>5, <1>6, <1>7, <1>8
<1>10. Balanced(v, cs)
  BY <1>2, <1>3, <1>4, <1>8, <1>9 DEF Balanced
<1> QED BY <1>10 DEF v, cs, b

\* Freeing is counted in whichever thread frees.
LEMMA BalancedFree ==
  ASSUME NEW totals, NEW bs, Balanced(totals, bs), NEW t \in HeapThreads,
         NEW k \in DOMAIN bs, bs[k].access
  PROVE  Balanced(Freed(t, k, bs, totals).totals, Freed(t, k, bs, totals).bufs)
<1> DEFINE v == [totals EXCEPT ![t] = (totals[t] - bs[k].len) % SizeLimit]
           cs == [bs EXCEPT ![k].access = FALSE]
           d == -bs[k].len
<1>1. Freed(t, k, bs, totals).totals = v /\ Freed(t, k, bs, totals).bufs = cs
  BY DEF Freed
<1>2. bs \in Seq(BufferType) /\ bs[k] \in BufferType /\ bs[k].len \in Nat
  BY BufferFields DEF Balanced
<1>3. /\ cs \in Seq(BufferType) /\ DOMAIN cs = DOMAIN bs
      /\ \A j \in DOMAIN bs : Guarded(bs[j]) => Guarded(cs[j])
      /\ LiveOf(cs) = LiveOf(bs) - bs[k].len
  BY <1>2, FreeLive
<1>4. d \in Int /\ v = [totals EXCEPT ![t] = (totals[t] + d) % SizeLimit]
  <2>1. totals[t] - bs[k].len = totals[t] + d /\ d \in Int
    BY <1>2 DEF Balanced
  <2> QED BY <2>1
<1> HIDE DEF v, cs, d
<1>5. /\ v \in [HeapThreads -> Int] /\ SumOver(totals, HeapThreads) \in Int
      /\ \E q \in Int : SumOver(v, HeapThreads) = SumOver(totals, HeapThreads) + d + q * SizeLimit
  <2>1. totals \in [HeapThreads -> Int]
    BY DEF Balanced
  <2>2. totals[t] + d \in Int /\ SizeLimit \in Nat \ {0}
    BY <1>4, <2>1, SizeIsPositive
  <2>3. (totals[t] + d) % SizeLimit \in Int
    BY <2>2, Wraps
  <2>4. v \in [HeapThreads -> Int] /\ v[t] = (totals[t] + d) % SizeLimit
        /\ \A x \in HeapThreads \ {t} : totals[x] = v[x]
    BY <1>4, <2>1, <2>3
  <2>5. d \in Int
    BY <1>4
  <2> QED BY <2>1, <2>4, <2>5, TotalChanges, Zenon
<1>6. LiveOf(bs) \in Int /\ SizeLimit \in Int /\ d = -bs[k].len
  BY LiveFinite, SizeIsPositive DEF Balanced, d
<1>7. PICK p \in Int : SumOver(totals, HeapThreads) = LiveOf(bs) + p * SizeLimit
  BY DEF Balanced
<1>8. PICK q \in Int : SumOver(v, HeapThreads) = SumOver(totals, HeapThreads) + d + q * SizeLimit
  BY <1>5
<1>9. p * SizeLimit \in Int /\ q * SizeLimit \in Int /\ (p + q) * SizeLimit = p * SizeLimit + q * SizeLimit
      /\ p + q \in Int
  BY <1>6
<1>10. SumOver(v, HeapThreads) = LiveOf(cs) + (p + q) * SizeLimit
  BY <1>2, <1>3, <1>6, <1>7, <1>8, <1>9
<1>11. Balanced(v, cs)
  BY <1>3, <1>5, <1>9, <1>10 DEF Balanced
<1> QED BY <1>1, <1>11

\* Nothing is allocated at first.
LEMMA DislocatorInitInv == DislocatorInit => HeapInv
<1> SUFFICES ASSUME DislocatorInit PROVE HeapInv
  OBVIOUS
<1>1. buffers = <<>> /\ total_mem = [t \in HeapThreads |-> 0]
  BY DEF DislocatorInit
<1>2. LiveIn(buffers) = {} /\ LiveOf(buffers) = 0
  BY <1>1, SumEmpty DEF LiveIn, LiveOf
<1>3. SumOver(total_mem, HeapThreads) = 0
  <2> DEFINE T == {s \in SUBSET HeapThreads : SumOver(total_mem, s) # 0}
             Sizes == {Cardinality(s) : s \in T}
  <2>1. SUFFICES ASSUME T # {} PROVE FALSE
    OBVIOUS
  <2>2. Sizes \in SUBSET Nat /\ Sizes # {}
    BY <2>1, SizeIsPositive, FS_Subset, FS_CardinalityType
  <2>3. PICK n \in Sizes : \A m \in Sizes : n <= m
    <3> HIDE DEF Sizes
    <3> QED BY <2>2, LeastMember
  <2>4. PICK s \in T : n = Cardinality(s)
    BY <2>3
  <2>5. IsFiniteSet(s) /\ s \subseteq HeapThreads /\ s # {}
    BY <2>4, SizeIsPositive, FS_Subset, SumEmpty
  <2>6. /\ SumOver(total_mem, s) = total_mem[FirstOf(s)] + SumOver(total_mem, s \ {FirstOf(s)})
        /\ total_mem[FirstOf(s)] = 0 /\ s \ {FirstOf(s)} \in SUBSET HeapThreads
        /\ ~(n <= Cardinality(s \ {FirstOf(s)}))
    <3>1. /\ FirstOf(s) \in s /\ Cardinality(s) \in Nat \ {0}
          /\ Cardinality(s \ {FirstOf(s)}) = Cardinality(s) - 1
      BY <2>5, OneLess
    <3>2. SumOver(total_mem, s) = total_mem[FirstOf(s)] + SumOver(total_mem, s \ {FirstOf(s)})
      BY <2>5, SumStep
    <3>3. n = Cardinality(s)
      BY <2>4
    <3> HIDE DEF T, Sizes
    <3>4. total_mem[FirstOf(s)] = 0 /\ s \ {FirstOf(s)} \in SUBSET HeapThreads
      BY <1>1, <2>5, <3>1
    <3> QED BY <3>1, <3>2, <3>3, <3>4
  <2>7. Cardinality(s \ {FirstOf(s)}) \notin Sizes
    <3> HIDE DEF Sizes
    <3> QED BY <2>3, <2>6
  <2>8. s \ {FirstOf(s)} \notin T
    <3> HIDE DEF T
    <3> QED BY <2>7
  <2>9. SumOver(total_mem, s \ {FirstOf(s)}) = 0
    BY <2>6, <2>8
  <2>10. SumOver(total_mem, s) = 0
    <3> HIDE DEF T
    <3> QED BY <2>6, <2>9
  <2> QED BY <2>4, <2>10
<1>4. 0 = 0 + 0 * SizeLimit
  BY SizeIsPositive
<1> QED BY <1>1, <1>2, <1>3, <1>4 DEF HeapInv, Balanced

\* __dislocator_alloc.
LEMMA AllocBalanced ==
  ASSUME HeapInv, NEW t \in HeapThreads, NEW len \in Nat, NEW content \in BufferContents,
         __dislocator_alloc(t, len, content)
  PROVE  HeapInv'
<1>1. CASE UNCHANGED <<buffers, total_mem>>
  BY <1>1 DEF HeapInv
<1>2. CASE /\ buffers' = Append(buffers, Mapping(len, content))
           /\ total_mem' = [total_mem EXCEPT ![t] = (total_mem[t] + len) % SizeLimit]
  BY <1>2, BalancedAlloc DEF HeapInv
<1> QED BY <1>1, <1>2 DEF __dislocator_alloc, Refused, GuardFails

\* Every call of the allocator keeps the invariant.
LEMMA DislocatorStepInv == HeapInv /\ [DislocatorNext]_heapVars => HeapInv'
<1> SUFFICES ASSUME HeapInv, [DislocatorNext]_heapVars PROVE HeapInv'
  OBVIOUS
<1>1. CASE UNCHANGED <<buffers, total_mem>>
  BY <1>1 DEF HeapInv
<1>2. ASSUME NEW t \in HeapThreads, NEW len \in AllocLens, malloc(t, len) PROVE HeapInv'
  BY <1>2, AllocBalanced, SizeIsPositive DEF malloc, BufferContents
<1>3. ASSUME NEW t \in HeapThreads, NEW size \in AllocLens, NEW counted \in AllocLens, calloc(t, size, counted)
      PROVE  HeapInv'
  <2>1. size * counted \in Nat /\ <<"zero">> \in BufferContents
    BY SizeIsPositive DEF BufferContents
  <2>2. UNCHANGED <<buffers, total_mem>> \/ __dislocator_alloc(t, size * counted, <<"zero">>)
    BY <1>3 DEF calloc
  <2> QED BY <1>1, <2>1, <2>2, AllocBalanced
<1>4. ASSUME NEW t \in HeapThreads, NEW k \in DOMAIN buffers, NEW len \in AllocLens, realloc(t, k, len)
      PROVE  HeapInv'
  <2> DEFINE grown == Append(buffers, Mapping(len, <<"copy", k>>))
             counted == [total_mem EXCEPT ![t] = (total_mem[t] + len) % SizeLimit]
             f == Freed(t, k, grown, counted)
  <2>1. \/ UNCHANGED <<buffers, total_mem>>
        \/ buffers[k].access /\ buffers' = f.bufs /\ total_mem' = f.totals
    BY <1>4 DEF realloc, Refused, GuardFails
  <2>2. CASE buffers[k].access /\ buffers' = f.bufs /\ total_mem' = f.totals
    <3>1. buffers \in Seq(BufferType) /\ k \in Nat /\ len \in Nat
      BY SizeIsPositive DEF HeapInv, Balanced
    <3>2. <<"copy", k>> \in BufferContents
      BY <3>1 DEF BufferContents
    <3>3. Balanced(counted, grown)
      BY <3>1, <3>2, BalancedAlloc DEF HeapInv
    <3>4. k \in DOMAIN grown /\ grown[k].access
      <4>1. Mapping(len, <<"copy", k>>) \in BufferType
        BY <3>1, <3>2, MappingGuarded
      <4>2. /\ Len(grown) = Len(buffers) + 1 /\ grown[k] = buffers[k] /\ grown \in Seq(BufferType)
            /\ Len(buffers) \in Nat /\ k \in 1 .. Len(buffers)
        BY <3>1, <4>1, AppendProperties
      <4> HIDE DEF grown
      <4> QED BY <2>2, <4>2
    <3> HIDE DEF grown, counted
    <3>5. Balanced(f.totals, f.bufs)
      BY <3>3, <3>4, BalancedFree
    <3> HIDE DEF f
    <3> QED BY <2>2, <3>5 DEF HeapInv
  <2> QED BY <1>1, <2>1, <2>2
<1>5. ASSUME NEW t \in HeapThreads, NEW k \in DOMAIN buffers, free(t, k) PROVE HeapInv'
  <2> DEFINE f == Freed(t, k, buffers, total_mem)
  <2>1. \/ UNCHANGED <<buffers, total_mem>>
        \/ buffers[k].access /\ buffers' = f.bufs /\ total_mem' = f.totals
    BY <1>5 DEF free, GuardFails
  <2>2. CASE buffers[k].access /\ buffers' = f.bufs /\ total_mem' = f.totals
    <3>1. Balanced(f.totals, f.bufs)
      BY <2>2, BalancedFree DEF HeapInv
    <3> HIDE DEF f
    <3> QED BY <2>2, <3>1 DEF HeapInv
  <2> QED BY <1>1, <2>1, <2>2
<1>6. ASSUME NEW k \in DOMAIN buffers, NEW offset, Access(k, offset) PROVE HeapInv'
  BY <1>1, <1>6 DEF Access
<1>7. ASSUME NEW t \in HeapThreads, HeapCall(t) PROVE HeapInv'
  BY <1>2, <1>3, <1>4, <1>5, <1>6, <1>7 DEF HeapCall
<1>8. CASE UNCHANGED heapVars
  BY <1>1, <1>8 DEF heapVars
<1> QED BY <1>7, <1>8 DEF DislocatorNext

\* The invariant is strong enough.
LEMMA HeapInvEnough == HeapInv => HeapCounts
<1> SUFFICES ASSUME HeapInv PROVE HeapCounts
  OBVIOUS
<1>1. buffers \in Seq(BufferType) /\ \A k \in DOMAIN buffers : Guarded(buffers[k])
  BY DEF HeapInv, Balanced
<1>2. PICK q \in Int : SumOver(total_mem, HeapThreads) = LiveOf(buffers) + q * SizeLimit
  BY DEF HeapInv, Balanced
<1>3. LiveOf(buffers) \in Int /\ SumOver(total_mem, HeapThreads) \in Int /\ SizeLimit \in Nat \ {0}
  <2>1. \A t \in HeapThreads : total_mem[t] \in Int
    BY DEF HeapInv, Balanced
  <2> QED BY <1>1, <2>1, LiveFinite, SizeIsPositive, SumIsInt
<1>4. SumOver(total_mem, HeapThreads) % SizeLimit = LiveOf(buffers) % SizeLimit
  BY <1>2, <1>3, SameRest
<1>5. LiveBytes = LiveOf(buffers)
  BY DEF LiveBytes, LiveOf, SumOver, Lengths, LensOf, LiveBuffers, LiveIn
<1>6. MapThenSumSet(LAMBDA t : total_mem[t], HeapThreads) = SumOver(total_mem, HeapThreads)
  BY DEF SumOver
<1>7. MapThenSumSet(LAMBDA t : total_mem[t], HeapThreads) % SizeLimit = LiveBytes % SizeLimit
  BY <1>4, <1>5, <1>6
<1>8. \A k \in DOMAIN buffers :
        buffers[k].start >= 8 /\ buffers[k].start + buffers[k].len = HeapPage * buffers[k].pages
  BY <1>1 DEF Guarded
<1> QED BY <1>7, <1>8 DEF HeapCounts

-----------------------------------------------------------------------------
(* Whatever the pass, the allocator and the emulator do: every block has   *)
(* the scores of the targets that want them, the allocator counts what is  *)
(* in use, and every translation is known before the answer                *)
(* (src/llvm_mode/afl-llvm-pass.so.cc:117-379,                             *)
(* src/libdislocator/libdislocator.so.c:90-250,                            *)
(* src/qemu_mode/patches/afl-qemu-cpu-inl.h:162-311).                      *)
THEOREM ProgramSideRightHolds == PassSpec /\ DislocatorSpec /\ QemuSpec => []ProgramSideRight
<1>1. PassSpec => []ScoresAreTheTargets
  BY PassInitInv, PassStepInv, PassInvEnough, PTL DEF PassSpec
<1>2. DislocatorSpec => []HeapCounts
  BY DislocatorInitInv, DislocatorStepInv, HeapInvEnough, PTL DEF DislocatorSpec
<1>3. QemuSpec => []TranslatedOnce
  BY QemuInitInv, QemuStepInv, QemuInvEnough, PTL DEF QemuSpec
<1> QED BY <1>1, <1>2, <1>3, PTL DEF ProgramSideRight
=============================================================================
