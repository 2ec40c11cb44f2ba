------------------------------ MODULE Calibration ------------------------------
(***************************************************************************)
(* Recognising new coverage: has_new_bits, calibrate_case, and what        *)
(* save_if_interesting keeps (src/afl-fuzz.c:1102-1480, 2904-3090,         *)
(* 3530-3742).                                                             *)
(*                                                                         *)
(* A trace is a function from the bytes of the map to the set of its bits  *)
(* (a class of hit counts is one bit); bytes are grouped into words.  The  *)
(* checksum of a trace is the trace.  Inputs are model values; some behave *)
(* differently from run to run: Traces gives all traces of an input.       *)
(***************************************************************************)
EXTENDS Integers, Sequences, FiniteSets

CONSTANTS
  Inputs,        \* inputs that can be run
  Words,         \* set of sets of bytes: the words of the map
  CountBits,     \* bits of a byte
  Traces,        \* [input -> set of traces]
  CAL_CYCLES, CAL_CYCLES_LONG, CAL_CHANCES,
  KEEP_UNIQUE    \* KEEP_UNIQUE_HANG, KEEP_UNIQUE_CRASH

ASSUME CalibrationAssumption ==
  /\ CAL_CYCLES \in Nat \ {0} /\ CAL_CYCLES <= CAL_CYCLES_LONG
  /\ \A v, w \in Words : v # w => v \cap w = {}

MapBytes == UNION Words
Empty == [b \in MapBytes |-> {}]
Pristine == [b \in MapBytes |-> CountBits]

ASSUME CalibrationInputs ==
  /\ IsFiniteSet(Inputs) /\ Inputs # {}
  /\ \E b, c \in CountBits : b # c
  /\ \A i \in Inputs : Traces[i] \subseteq [MapBytes -> SUBSET CountBits]

VARIABLES
  calPhase,      \* "main", "round", "found", "hang"
  trace_bits,    \* the trace of the last run
  subject,       \* the input calibrated or tried
  round,         \* calibrate_case: [cur, max, first, first_trace, new, var]
  seed,          \* [input -> fields of its queue entry, or NoSeed]
  virgin,        \* [queue, tmout, crash -> map]
  var_bytes,
  counters       \* queued_with_cov, queued_variable, total_bitmap_entries, ...

calVars == <<calPhase, trace_bits, subject, round, seed, virgin, var_bytes, counters>>

NoSeed == [queued |-> FALSE, exec_cksum |-> Empty, cal_failed |-> 0, var |-> FALSE,
           new_cov |-> FALSE, file |-> FALSE, calibrated |-> FALSE]
NoRound == [cur |-> 0, max |-> 0, first |-> FALSE, first_trace |-> Empty, new |-> 0, var |-> FALSE]

CalInit ==
  /\ calPhase = "main" /\ trace_bits = Empty /\ subject = CHOOSE i \in Inputs : TRUE
  /\ round = NoRound /\ seed = [i \in Inputs |-> NoSeed]
  /\ virgin = [m \in {"queue", "tmout", "crash"} |-> Pristine]
  /\ var_bytes = {}
  /\ counters = [with_cov |-> 0, variable |-> 0, entries |-> 0, hangs |-> 0, crashes |-> 0]

(***************************************************************************)
(* has_new_bits.                                                           *)
(***************************************************************************)
(* The words with something new; only these are looked at byte by byte, for
   one that was hit and is still pristine, and none after such a byte.     *)
FreshWords(cur, vir) == {w \in Words : \E b \in w : cur[b] \cap vir[b] # {}}
NewByte(cur, vir, w) == \E b \in w : cur[b] # {} /\ vir[b] = CountBits

has_new_bits(cur, vir) ==
  IF FreshWords(cur, vir) = {} THEN 0
  ELSE IF \E w \in FreshWords(cur, vir) : NewByte(cur, vir, w) THEN 2 ELSE 1

Cleared(cur, vir) ==
  [b \in MapBytes |->
     IF b \in UNION FreshWords(cur, vir) THEN vir[b] \ cur[b] ELSE vir[b]]

(* simplify_trace: hit counts are dropped, bytes without a hit get a bit of
   their own.                                                              *)
HitBit  == CHOOSE b \in CountBits : TRUE
MissBit == CHOOSE b \in CountBits : b # HitBit
simplify_trace(t) == [b \in MapBytes |-> IF t[b] = {} THEN {MissBit} ELSE {HitBit}]
count_bytes(t) == Cardinality({b \in MapBytes : t[b] # {}})

(***************************************************************************)
(* calibrate_case.                                                         *)
(***************************************************************************)
(* Entry for input i, whose exec_cksum is sum: with a checksum the trace of
   the last run is taken for the seed's.                                   *)
StartCalibration(i, sum, s, vir) ==
  LET h == IF sum # Empty THEN has_new_bits(trace_bits, vir) ELSE 0
  IN /\ subject' = i
     /\ seed' = [seed EXCEPT ![i] = [s EXCEPT !.cal_failed = @ + 1, !.exec_cksum = sum]]
     /\ round' = [cur |-> 0, max |-> CAL_CYCLES, first |-> sum = Empty,
                  first_trace |-> IF sum # Empty THEN trace_bits ELSE Empty,
                  new |-> h, var |-> FALSE]
     /\ virgin' = [virgin EXCEPT !.queue = IF h > 0 THEN Cleared(trace_bits, vir) ELSE vir]
     /\ calPhase' = "round"

(* perform_dry_run on an initial input.                                    *)
DryRun(i) ==
  /\ calPhase = "main" /\ ~seed[i].queued
  /\ StartCalibration(i, Empty, [NoSeed EXCEPT !.queued = TRUE, !.file = TRUE], virgin.queue)
  /\ UNCHANGED <<trace_bits, var_bytes, counters>>

\* Mutant: the checksum of the failed calibration is kept.
RetryCalibration_Keep(i) ==
  /\ calPhase = "main"
  /\ seed[i].queued /\ seed[i].cal_failed > 0 /\ seed[i].cal_failed < CAL_CHANCES
  /\ StartCalibration(i, seed[i].exec_cksum, seed[i], virgin.queue)
  /\ UNCHANGED <<trace_bits, var_bytes, counters>>

(* fuzz_one gives a seed whose calibration failed another chance.  It
   forgets the checksum, so that the trace of whatever ran last is not
   taken for this seed's.                                                  *)
RetryCalibration(i) ==
  /\ calPhase = "main"
  /\ seed[i].queued /\ seed[i].cal_failed > 0 /\ seed[i].cal_failed < CAL_CHANCES
  /\ StartCalibration(i, Empty, seed[i], virgin.queue)
  /\ UNCHANGED <<trace_bits, var_bytes, counters>>

(* abort_calibration, also reached at the end of the loop; a seed that was
   just found gets its file now.                                           *)
Leave(s, c, r) ==
  LET newcov == r.new = 2 /\ ~s.new_cov
      newvar == r.var /\ ~s.var
  IN /\ seed' = [seed EXCEPT ![subject] =
                   [s EXCEPT !.new_cov = @ \/ newcov, !.var = @ \/ newvar, !.file = TRUE]]
     /\ counters' = [c EXCEPT !.with_cov = IF newcov THEN @ + 1 ELSE @,
                              !.variable = IF newvar THEN @ + 1 ELSE @]
     /\ round' = NoRound
     /\ calPhase' = "main"

(* A run of the loop: a trace of the seed.                                 *)
CalibrationRun(t) ==
  /\ calPhase = "round" /\ round.cur < round.max
  /\ t \in Traces[subject] /\ count_bytes(t) > 0
  /\ trace_bits' = t
  /\ LET sum  == seed[subject].exec_cksum
         h    == IF t # sum THEN has_new_bits(t, virgin.queue) ELSE 0
         diff == IF t # sum /\ sum # Empty
                 THEN {b \in MapBytes : round.first_trace[b] # t[b]} \ var_bytes ELSE {}
     IN /\ virgin' = [virgin EXCEPT !.queue = IF h > 0 THEN Cleared(t, @) ELSE @]
        /\ var_bytes' = var_bytes \cup diff
        /\ round' = [round EXCEPT !.cur = @ + 1,
                       !.max = IF diff # {} THEN CAL_CYCLES_LONG ELSE @,
                       !.new = IF h > @ THEN h ELSE @,
                       !.var = @ \/ (t # sum /\ sum # Empty),
                       !.first_trace = IF sum = Empty THEN t ELSE @]
        /\ seed' = IF sum = Empty THEN [seed EXCEPT ![subject].exec_cksum = t] ELSE seed
  /\ UNCHANGED <<calPhase, subject, counters>>

(* A run that times out, crashes or cannot be made ends the calibration.   *)
CalibrationFault ==
  /\ calPhase = "round" /\ round.cur < round.max
  /\ \E t \in Traces[subject] : trace_bits' = t
  /\ Leave(seed[subject], counters, round)
  /\ UNCHANGED <<subject, virgin, var_bytes>>

CalibrationDone ==
  /\ calPhase = "round" /\ round.cur = round.max
  /\ Leave([seed[subject] EXCEPT !.cal_failed = 0, !.calibrated = TRUE],
           [counters EXCEPT !.entries = @ + 1], round)
  /\ UNCHANGED <<trace_bits, subject, virgin, var_bytes>>

(***************************************************************************)
(* save_if_interesting, after a run of input i.                            *)
(***************************************************************************)
(* A normal run.  With new bits the input is queued with the checksum of
   this run and calibrated at once; the file is written after that.        *)
FoundNormal(i, t) ==
  /\ calPhase = "main" /\ ~seed[i].queued /\ t \in Traces[i]
  /\ trace_bits' = t
  /\ LET h == has_new_bits(t, virgin.queue)
     IN /\ virgin' = [virgin EXCEPT !.queue = Cleared(t, @)]
        /\ IF h = 0
           THEN UNCHANGED <<calPhase, subject, seed, counters>>
           ELSE /\ calPhase' = "found" /\ subject' = i
                /\ seed' = [seed EXCEPT ![i] =
                     [NoSeed EXCEPT !.queued = TRUE, !.exec_cksum = t, !.new_cov = h = 2]]
                /\ counters' = [counters EXCEPT !.with_cov = IF h = 2 THEN @ + 1 ELSE @]
  /\ UNCHANGED <<round, var_bytes>>

CalibrateFound ==
  /\ calPhase = "found"
  /\ StartCalibration(subject, seed[subject].exec_cksum, seed[subject], virgin.queue)
  /\ UNCHANGED <<trace_bits, var_bytes, counters>>

(* A run of any other input in between (a mutated seed with nothing new).  *)
RunOther(i, t) ==
  /\ calPhase = "main" /\ t \in Traces[i]
  /\ has_new_bits(t, virgin.queue) = 0
  /\ trace_bits' = t
  /\ UNCHANGED <<calPhase, subject, round, seed, virgin, var_bytes, counters>>

(* A timeout: kept if its simplified trace is new among timeouts, and if it
   times out again with the longer limit.  What crashes then is a crash.   *)
FoundTimeout(i, t) ==
  /\ calPhase = "main" /\ t \in Traces[i] /\ counters.hangs < KEEP_UNIQUE
  /\ LET s == simplify_trace(t)
     IN /\ trace_bits' = s
        /\ calPhase' = IF has_new_bits(s, virgin.tmout) > 0 THEN "hang" ELSE "main"
        /\ virgin' = [virgin EXCEPT !.tmout = Cleared(s, @)]
  /\ subject' = i
  /\ UNCHANGED <<round, seed, var_bytes, counters>>

KeepCrash(i, t) ==
  LET s == simplify_trace(t)
      new == has_new_bits(s, virgin.crash) > 0
  IN /\ counters.crashes < KEEP_UNIQUE
     /\ trace_bits' = s
     /\ virgin' = [virgin EXCEPT !.crash = Cleared(s, @)]
     /\ counters' = IF new THEN [counters EXCEPT !.crashes = @ + 1] ELSE counters

ConfirmHang(again, t) ==
  /\ calPhase = "hang" /\ t \in Traces[subject]
  /\ calPhase' = "main"
  /\ \/ /\ again = "tmout"
        /\ counters' = [counters EXCEPT !.hangs = @ + 1]
        /\ trace_bits' = t /\ UNCHANGED virgin
     \/ again = "crash" /\ KeepCrash(subject, t)
     \/ again = "none" /\ trace_bits' = t /\ UNCHANGED <<counters, virgin>>
  /\ UNCHANGED <<subject, round, seed, var_bytes>>

FoundCrash(i, t) ==
  /\ calPhase = "main" /\ t \in Traces[i]
  /\ KeepCrash(i, t)
  /\ UNCHANGED <<calPhase, subject, round, seed, var_bytes>>

CalNext ==
  \/ \E i \in Inputs : DryRun(i) \/ RetryCalibration(i)
  \/ \E t \in UNION {Traces[i] : i \in Inputs} : CalibrationRun(t)
  \/ CalibrationFault \/ CalibrationDone \/ CalibrateFound
  \/ \E i \in Inputs : \E t \in Traces[i] :
       FoundNormal(i, t) \/ RunOther(i, t) \/ FoundTimeout(i, t) \/ FoundCrash(i, t)
  \/ \E t \in UNION {Traces[i] : i \in Inputs}, a \in {"tmout", "crash", "none"} : ConfirmHang(a, t)

CalSpec == CalInit /\ [][CalNext]_calVars

(***************************************************************************)
(* Properties.                                                             *)
(***************************************************************************)
(* A byte is called variable only if one and the same input can set it
   differently: the trace of another input is never compared with a seed's,
   however calibrations fail, are retried and mix with other runs.         *)
Varies(i) == {b \in MapBytes : \E t, u \in Traces[i] : t[b] # u[b]}
VariableBytesReal == var_bytes \subseteq UNION {Varies(i) : i \in Inputs}

(* The totals behind the averages of calculate_score count every calibrated
   seed once, however often its calibration was tried; the same for the
   seeds with new coverage and the variable ones.                          *)
TotalsCountOnce ==
  calPhase # "found" =>
    /\ counters.entries = Cardinality({i \in Inputs : seed[i].calibrated})
    /\ counters.with_cov = Cardinality({i \in Inputs : seed[i].new_cov})
    /\ counters.variable = Cardinality({i \in Inputs : seed[i].var})
    /\ \A i \in Inputs : seed[i].queued /\ calPhase = "main" =>
         seed[i].file /\ (seed[i].calibrated <=> seed[i].cal_failed = 0)

(* has_new_bits, which looks at bytes only in words with something new and
   stops looking once it has seen a new byte, answers the question asked:
   2 for a byte never hit before, 1 for a new hit count, 0 otherwise; and
   what it has reported once it does not report again.                     *)
NewBitsRight ==
  \A i \in Inputs : \A t \in Traces[i] : \A m \in DOMAIN virgin :
    LET v == virgin[m]
        r == has_new_bits(t, v)
    IN /\ r = 2 <=> \E b \in MapBytes : t[b] # {} /\ v[b] = CountBits
       /\ r = 0 <=> \A b \in MapBytes : t[b] \cap v[b] = {}
       /\ has_new_bits(t, Cleared(t, v)) = 0

(* Calibration and the recognition of new coverage are right, whatever mix
   of seeds, retries and hangs they see (src/afl-fuzz.c:1102-1172,
   2904-3087).                                                             *)
CalibrationRight == VariableBytesReal /\ TotalsCountOnce /\ NewBitsRight
==============================================================================
