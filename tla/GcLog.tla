-------------------------------- MODULE GcLog --------------------------------
(***************************************************************************)
(* The guarding-condition log: one ring of MAX_LOG_NUM records per target  *)
(* in shared memory, and one more segment that says which ring is the      *)
(* current one. The instrumented program writes (mdafl_gc_log), a field at *)
(* a time and without a lock; the fuzzer reads (get_prob_share_time) and   *)
(* redirects (switch_target) between two runs. A run that exceeds its time *)
(* limit is killed wherever it is.                                         *)
(***************************************************************************)
EXTENDS Integers, Sequences, FiniteSets

CONSTANTS
  Targets,
  Indices,        \* values of LogData.index, naturals
  Exprs,          \* values of the other fields; 0 is that of fresh memory
  MAX_LOG_NUM,
  MAX_VEC_SIZE,
  MaxLogged,      \* bound on the records logged for a target
  MaxCuts         \* bound on the writes of a target that are cut short

ASSUME GcLogAssumption ==
  /\ Targets # {}
  /\ Indices \subseteq Nat
  /\ 0 \in Exprs
  /\ MAX_LOG_NUM \in Nat \ {0}
  /\ MAX_VEC_SIZE \in Nat \ {0}
  /\ MaxLogged \in Nat
  /\ MaxCuts \in Nat

VARIABLES
  shmid_ptr,   \* the segment that names the ring to log to
  running,     \* is the program under test running?
  writer,      \* where in mdafl_gc_log it is; "out" of it
  dst,         \* the ring this call of mdafl_gc_log is attached to
  record,      \* the arguments of this call
  count, tail, log_data,   \* struct SharedMemory of every target
  estimate,    \* what get_prob_share_time computed last
  logged,      \* history: the records whose logging was completed
  cuts         \* history: the writes cut short

fuzzVars == <<shmid_ptr, running, estimate>>
ring     == <<count, tail, log_data>>
history  == <<logged, cuts>>
vars     == <<fuzzVars, writer, dst, record, ring, history>>

Slots == 0 .. MAX_LOG_NUM - 1

LogData == [index : Indices \cup {0}, expr : Exprs]

\* What programs log; 0 marks fresh memory, so no record carries it.
Records == [index : Indices, expr : Exprs \ {0}]

\* shmget() returns zero-filled memory.
Fresh == [index |-> 0, expr |-> 0]

NothingSeen == [index |-> -1, exprs |-> <<>>]

\* init_parameter().
Init ==
  /\ shmid_ptr \in Targets
  /\ running = FALSE
  /\ writer = "out"
  /\ dst = shmid_ptr
  /\ record = Fresh
  /\ count = [t \in Targets |-> 0]
  /\ tail = [t \in Targets |-> 0]
  /\ log_data = [t \in Targets |-> [i \in Slots |-> Fresh]]
  /\ estimate = NothingSeen
  /\ logged = [t \in Targets |-> <<>>]
  /\ cuts = [t \in Targets |-> 0]

-----------------------------------------------------------------------------
(* The program under test.                                                 *)

\* Mutant: the ring is attached once and kept.
Enter_Cached(r) ==
  /\ running /\ writer = "out"
  /\ Len(logged[shmid_ptr]) < MaxLogged
  /\ record' = r
  /\ writer' = "count"
  /\ UNCHANGED <<fuzzVars, dst, ring, history>>

Enter(r) ==
  /\ running /\ writer = "out"
  /\ Len(logged[shmid_ptr]) < MaxLogged
  /\ dst' = shmid_ptr
  /\ record' = r
  /\ writer' = "count"
  /\ UNCHANGED <<fuzzVars, ring, history>>

Count ==
  /\ writer = "count"
  /\ count' = [count EXCEPT ![dst] = IF @ < MAX_LOG_NUM THEN @ + 1 ELSE @]
  /\ writer' = "index"
  /\ UNCHANGED <<fuzzVars, dst, record, tail, log_data, history>>

WriteIndex ==
  /\ writer = "index"
  /\ log_data' = [log_data EXCEPT ![dst][tail[dst]] =
                               [index |-> record.index, expr |-> @.expr]]
  /\ writer' = "expr"
  /\ UNCHANGED <<fuzzVars, dst, record, count, tail, history>>

\* The remaining fields of the record.
WriteExpr ==
  /\ writer = "expr"
  /\ log_data' = [log_data EXCEPT ![dst][tail[dst]] =
                               [index |-> @.index, expr |-> record.expr]]
  /\ writer' = "tail"
  /\ UNCHANGED <<fuzzVars, dst, record, count, tail, history>>

\* Mutant: no wrap.
NextSlot_NoWrap(i) == i + 1

NextSlot(i) == (i + 1) % MAX_LOG_NUM

Advance ==
  /\ writer = "tail"
  /\ tail' = [tail EXCEPT ![dst] = NextSlot(@)]
  /\ logged' = [logged EXCEPT ![dst] = Append(@, record)]
  /\ writer' = "out"
  /\ UNCHANGED <<fuzzVars, dst, record, count, log_data, cuts>>

\* The run ends by itself, outside of mdafl_gc_log.
EndRun ==
  /\ running /\ writer = "out"
  /\ running' = FALSE
  /\ UNCHANGED <<shmid_ptr, estimate, writer, dst, record, ring, history>>

\* handle_timeout(): SIGKILL, in the middle of mdafl_gc_log.
KillRun ==
  /\ running /\ writer # "out"
  /\ cuts[dst] < MaxCuts
  /\ cuts' = [cuts EXCEPT ![dst] = @ + 1]
  /\ running' = FALSE
  /\ writer' = "out"
  /\ UNCHANGED <<shmid_ptr, estimate, dst, record, ring, logged>>

-----------------------------------------------------------------------------
(* The fuzzer, between two runs.                                           *)

SwitchTarget(t) ==
  /\ ~running
  /\ shmid_ptr' = t
  /\ UNCHANGED <<running, estimate, writer, dst, record, ring, history>>

StartRun ==
  /\ ~running
  /\ running' = TRUE
  /\ UNCHANGED <<shmid_ptr, estimate, writer, dst, record, ring, history>>

\* Mutant: the reader starts at the first slot, as if the ring never wrapped.
RingHead_First(t) == 0

RingHead(t) == (tail[t] - count[t] + MAX_LOG_NUM) % MAX_LOG_NUM

\* The records the reader visits, oldest first.
Visited(t) ==
  [i \in 1 .. count[t] |-> log_data[t][(RingHead(t) + i - 1) % MAX_LOG_NUM]]

LastOf(s, n) == IF Len(s) <= n THEN s ELSE SubSeq(s, Len(s) - n + 1, Len(s))

\* The input of the estimator: the values seen for the biggest index, the last
\* MAX_VEC_SIZE of them.
Observe(s) ==
  IF s = <<>> THEN NothingSeen
  ELSE LET seenIndices == {s[i].index : i \in DOMAIN s}
           biggest     == CHOOSE b \in seenIndices : \A i \in seenIndices : i <= b
           IsBiggest(r) == r.index = biggest
           exprs == [i \in 1 .. Len(SelectSeq(s, IsBiggest)) |->
                       SelectSeq(s, IsBiggest)[i].expr]
       IN  [index |-> biggest, exprs |-> LastOf(exprs, MAX_VEC_SIZE)]

GetProb ==
  /\ ~running
  /\ estimate' = Observe(Visited(shmid_ptr))
  /\ UNCHANGED <<shmid_ptr, running, writer, dst, record, ring, history>>

Next ==
  \/ \E r \in Records : Enter(r)
  \/ Count \/ WriteIndex \/ WriteExpr \/ Advance
  \/ EndRun \/ KillRun
  \/ \E t \in Targets : SwitchTarget(t)
  \/ StartRun \/ GetProb

Spec == Init /\ [][Next]_vars

-----------------------------------------------------------------------------
(* Properties.                                                             *)

MinOf(a, b) == IF a <= b THEN a ELSE b

\* Type correctness of the rings: no counter or tail leaves its ring.
TypeOK ==
  /\ shmid_ptr \in Targets
  /\ running \in BOOLEAN
  /\ writer \in {"out", "count", "index", "expr", "tail"}
  /\ dst \in Targets
  /\ record \in LogData
  /\ writer # "out" => record \in Records
  /\ count \in [Targets -> 0 .. MAX_LOG_NUM]
  /\ tail \in [Targets -> Slots]
  /\ log_data \in [Targets -> [Slots -> LogData]]
  /\ logged \in [Targets -> Seq(Records)]
  /\ cuts \in [Targets -> Nat]

\* The slot that was filled k records ago.
Behind(t, k) == (tail[t] - k + MAX_LOG_NUM) % MAX_LOG_NUM

\* "If array is full of data, cover the oldest data": whatever was killed and
\* wherever, the last MAX_LOG_NUM - 1 records that were completed are in the
\* ring, untorn and in order.
RecentIntact ==
  \A t \in Targets : \A k \in 1 .. MAX_LOG_NUM - 1 :
    k <= Len(logged[t])
      => log_data[t][Behind(t, k)] = logged[t][Len(logged[t]) + 1 - k]

\* The reader visits every completed record the ring still has, and every
\* visited record beyond those is owed to a write that was cut short (or, in
\* the middle of a call, to that call).
CountBounded ==
  \A t \in Targets :
    LET complete == MinOf(Len(logged[t]), MAX_LOG_NUM)
        open     == IF dst = t /\ writer \in {"index", "expr", "tail"} THEN 1 ELSE 0
    IN  complete <= count[t] /\ count[t] <= complete + cuts[t] + open

\* A call of mdafl_gc_log writes to the ring of the target the fuzzer selected
\* for this run, and none is open when the fuzzer reads or switches.
WritesToCurrent == writer # "out" => running /\ dst = shmid_ptr

\* What the log is for: the last MAX_LOG_NUM records of the current target.
Abstract == INSTANCE RecentLog WITH
  Capacity <- MAX_LOG_NUM, cur <- shmid_ptr, log <- logged, seen <- estimate

\* The rings implement the abstract log as long as no run was killed while it
\* logged to the ring that is read; kills in others' rings do it no harm. An
\* estimate is one of the current target's most recent conditions.
Refinement ==
  /\ Abstract!Init
  /\ [][cuts[shmid_ptr] = 0 => [Abstract!Next]_(Abstract!vars)]_vars

\* "int count;  // current log number": between two runs, the number of
\* records logged (up to the size of the ring).
CountIsLogNumber ==
  ~running => \A t \in Targets :
                count[t] = MinOf(Len(logged[t]), MAX_LOG_NUM)

\* The ring buffers withstand kills anywhere in mdafl_gc_log
\* (src/llvm_mode/afl-llvm-rt.o.c:405-460): the newest records are whole and
\* in order, and the reader's count is off by the cut writes at most.
RingSound == TypeOK /\ RecentIntact /\ CountBounded
=============================================================================
