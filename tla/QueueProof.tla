----------------------------- MODULE QueueProof -----------------------------
(***************************************************************************)
(* Proofs about the seeds and tokens that a target's fuzzing lives on: what *)
(* calibration concludes from repeated runs, the two dictionaries, and the *)
(* queue in the order of the proximity scores.                             *)
(***************************************************************************)
EXTENDS Calibration, Dictionary, SeedQueue, FiniteSetTheorems, FunctionTheorems,
        SequenceTheorems, WellFoundedInduction, TLAPS

-----------------------------------------------------------------------------
(***************************************************************************)
(* Calibration.  Types, and what a comparison of traces may be made with.  *)
(***************************************************************************)
Maps == [MapBytes -> SUBSET CountBits]
SeedFields == [queued : BOOLEAN, exec_cksum : Maps, cal_failed : Nat, var : BOOLEAN,
               new_cov : BOOLEAN, file : BOOLEAN, calibrated : BOOLEAN]
RoundFields == [cur : Nat, max : {0, CAL_CYCLES, CAL_CYCLES_LONG}, first : BOOLEAN,
                first_trace : Maps, new : 0 .. 2, var : BOOLEAN]
CounterFields == [with_cov : Nat, variable : Nat, entries : Nat, hangs : Nat, crashes : Nat]

CalTypes ==
  /\ calPhase \in {"main", "round", "found", "hang"}
  /\ trace_bits \in Maps /\ subject \in Inputs
  /\ round \in RoundFields /\ seed \in [Inputs -> SeedFields]
  /\ virgin \in [{"queue", "tmout", "crash"} -> Maps]
  /\ counters \in CounterFields

(* A seed with a checksum is compared with a trace of its own. *)
Compared ==
  /\ calPhase = "found" => trace_bits \in Traces[subject]
  /\ calPhase = "round" /\ seed[subject].exec_cksum # Empty =>
       round.first_trace \in Traces[subject]

(* A seed that is not being worked on has its file, and was calibrated     *)
(* unless it waits for another try.                                        *)
Settled(i) == seed[i].file /\ (seed[i].calibrated <=> seed[i].cal_failed = 0)
AtWork == calPhase \in {"found", "round"}
Accounts ==
  /\ \A i \in Inputs :
       ~seed[i].queued => ~seed[i].calibrated /\ ~seed[i].new_cov /\ ~seed[i].var
  /\ \A i \in Inputs : seed[i].queued /\ (AtWork => i # subject) => Settled(i)
  /\ AtWork => seed[subject].queued /\ ~seed[subject].calibrated
  /\ calPhase = "round" => seed[subject].cal_failed > 0

Totals ==
  /\ counters.entries = Cardinality({i \in Inputs : seed[i].calibrated})
  /\ counters.with_cov = Cardinality({i \in Inputs : seed[i].new_cov})
  /\ counters.variable = Cardinality({i \in Inputs : seed[i].var})

CalInv == CalTypes /\ Compared /\ Accounts /\ Totals /\ VariableBytesReal

-----------------------------------------------------------------------------
(* A set of inputs with one more counts one more. *)
LEMMA OneMore ==
  ASSUME NEW A \in SUBSET Inputs, NEW x \in Inputs, x \notin A
  PROVE  Cardinality(A \cup {x}) = Cardinality(A) + 1 /\ Cardinality(A) \in Nat
<1>1. IsFiniteSet(A)
  BY CalibrationInputs, FS_Subset
<1> QED BY <1>1, FS_AddElement, FS_CardinalityType

(* What has_new_bits answers, whatever the maps are. *)
LEMMA HasNewBits ==
  ASSUME NEW t \in Maps, NEW v \in Maps
  PROVE  /\ has_new_bits(t, v) \in 0 .. 2
         /\ has_new_bits(t, v) = 2 <=> \E b \in MapBytes : t[b] # {} /\ v[b] = CountBits
         /\ has_new_bits(t, v) = 0 <=> \A b \in MapBytes : t[b] \cap v[b] = {}
         /\ Cleared(t, v) \in Maps
         /\ has_new_bits(t, Cleared(t, v)) = 0
<1>1. \A b \in MapBytes : \E w \in Words : b \in w
  BY DEF MapBytes
<1>2. \A w \in Words : w \subseteq MapBytes
  BY DEF MapBytes
<1>3. FreshWords(t, v) = {} <=> \A b \in MapBytes : t[b] \cap v[b] = {}
  BY <1>1, <1>2 DEF FreshWords
<1>4. ASSUME NEW b \in MapBytes, t[b] # {}, v[b] = CountBits
      PROVE  \E w \in FreshWords(t, v) : NewByte(t, v, w)
  <2>1. t[b] \subseteq CountBits
    BY DEF Maps
  <2>2. t[b] \cap v[b] # {}
    BY <1>4, <2>1
  <2> QED BY <1>1, <1>4, <2>2 DEF FreshWords, NewByte
<1>5. (\E w \in FreshWords(t, v) : NewByte(t, v, w)) => \E b \in MapBytes : t[b] # {} /\ v[b] = CountBits
  BY <1>2 DEF FreshWords, NewByte
<1>6. Cleared(t, v) \in Maps
  BY DEF Cleared, Maps
<1>7. ASSUME NEW b \in MapBytes PROVE t[b] \cap Cleared(t, v)[b] = {}
  <2>1. CASE b \in UNION FreshWords(t, v)
    BY <2>1 DEF Cleared
  <2>2. CASE b \notin UNION FreshWords(t, v)
    BY <1>1, <2>2 DEF Cleared, FreshWords
  <2> QED BY <2>1, <2>2
<1>8. FreshWords(t, Cleared(t, v)) = {}
  BY <1>2, <1>7 DEF FreshWords
<1> QED BY <1>3, <1>4, <1>5, <1>6, <1>8 DEF has_new_bits

\* What the assumption on the inputs says of their traces.
LEMMA CalMaps ==
  /\ Empty \in Maps /\ Pristine \in Maps
  /\ \A t \in Maps : simplify_trace(t) \in Maps
  /\ \A i \in Inputs : Traces[i] \subseteq Maps
  /\ NoSeed \in SeedFields /\ NoRound \in RoundFields
<1>1. Empty \in Maps /\ Pristine \in Maps
  BY DEF Empty, Pristine, Maps
<1>2. HitBit \in CountBits /\ MissBit \in CountBits
  BY CalibrationInputs DEF HitBit, MissBit
<1>3. \A t \in Maps : simplify_trace(t) \in Maps
  BY <1>2 DEF simplify_trace, Maps
<1> QED BY <1>1, <1>3, CalibrationInputs DEF Maps, NoSeed, NoRound, SeedFields, RoundFields

\* The invariant holds before the dry run.
LEMMA CalInitInv == CalInit => CalInv
<1> SUFFICES ASSUME CalInit PROVE CalInv
  OBVIOUS
<1>1. CalTypes
  <2>1. subject \in Inputs
    BY CalibrationInputs DEF CalInit
  <2> QED BY <2>1, CalMaps DEF CalInit, CalTypes, CounterFields
<1>2. Totals
  <2>1. /\ {i \in Inputs : seed[i].calibrated} = {} /\ {i \in Inputs : seed[i].new_cov} = {}
        /\ {i \in Inputs : seed[i].var} = {}
    BY DEF CalInit, NoSeed
  <2> QED BY <2>1, FS_EmptySet DEF CalInit, Totals
<1> QED BY <1>1, <1>2 DEF CalInit, CalInv, Compared, Accounts, AtWork, NoSeed, VariableBytesReal

-----------------------------------------------------------------------------
(* Entering calibrate_case: the trace of the last run is compared with only *)
(* if it is one of the seed's.                                             *)
LEMMA CalStartStep ==
  ASSUME CalInv, NEW i \in Inputs, NEW sum \in Maps, NEW s \in SeedFields,
         calPhase \in {"main", "found"}, calPhase = "found" => i = subject,
         s.queued, ~s.calibrated, s.new_cov = seed[i].new_cov, s.var = seed[i].var,
         ~seed[i].calibrated, sum # Empty => trace_bits \in Traces[i],
         StartCalibration(i, sum, s, virgin.queue),
         UNCHANGED <<trace_bits, var_bytes, counters>>
  PROVE  CalInv'
<1> DEFINE q == [s EXCEPT !.cal_failed = @ + 1, !.exec_cksum = sum]
<1>1. /\ q \in SeedFields /\ q.queued /\ ~q.calibrated /\ q.cal_failed > 0 /\ q.exec_cksum = sum
      /\ q.new_cov = seed[i].new_cov /\ q.var = seed[i].var
  <2>1. s.cal_failed + 1 \in Nat /\ s.cal_failed + 1 > 0
    BY DEF SeedFields
  <2>2. q = [s EXCEPT !.cal_failed = s.cal_failed + 1, !.exec_cksum = sum]
    OBVIOUS
  <2>3. q \in SeedFields /\ q.cal_failed = s.cal_failed + 1 /\ q.exec_cksum = sum
    BY <2>1 DEF SeedFields
  <2>4. q.queued = s.queued /\ q.calibrated = s.calibrated /\ q.new_cov = s.new_cov /\ q.var = s.var
    BY DEF SeedFields
  <2> HIDE DEF q
  <2> QED BY <2>1, <2>3, <2>4
<1>2. seed' = [seed EXCEPT ![i] = q] /\ subject' = i /\ calPhase' = "round"
  BY DEF StartCalibration
<1> HIDE DEF q
<1>3. seed'[i] = q /\ \A j \in Inputs \ {i} : seed'[j] = seed[j]
  BY <1>2 DEF CalInv, CalTypes
<1>4. CalTypes'
  <2>1. /\ has_new_bits(trace_bits, virgin.queue) \in 0 .. 2
        /\ Cleared(trace_bits, virgin.queue) \in Maps
    BY HasNewBits DEF CalInv, CalTypes
  <2>2. round' \in RoundFields
    BY <2>1, CalMaps DEF StartCalibration, RoundFields, CalInv, CalTypes
  <2>3. virgin' \in [{"queue", "tmout", "crash"} -> Maps]
    BY <2>1 DEF StartCalibration, CalInv, CalTypes
  <2> QED BY <1>1, <1>2, <2>2, <2>3 DEF CalInv, CalTypes
<1>5. Compared'
  <2>1. sum # Empty => round'.first_trace = trace_bits
    BY DEF StartCalibration
  <2> QED BY <1>1, <1>2, <1>3, <2>1 DEF Compared
<1>6. Accounts'
  BY <1>1, <1>2, <1>3 DEF CalInv, CalTypes, Accounts, AtWork, Settled
<1>7. Totals'
  <2>1. /\ {j \in Inputs : seed'[j].calibrated} = {j \in Inputs : seed[j].calibrated}
        /\ {j \in Inputs : seed'[j].new_cov} = {j \in Inputs : seed[j].new_cov}
        /\ {j \in Inputs : seed'[j].var} = {j \in Inputs : seed[j].var}
    BY <1>1, <1>3
  <2> QED BY <2>1 DEF CalInv, Totals
<1> QED BY <1>4, <1>5, <1>6, <1>7 DEF CalInv, VariableBytesReal, Varies

(* Leaving it, calibrated or not: a total grows with the set it counts.    *)
LEMMA CalLeaveStep ==
  ASSUME CalInv, calPhase = "round",
         NEW s \in SeedFields, NEW c \in CounterFields,
         s.queued, s.calibrated <=> s.cal_failed = 0,
         s.new_cov = seed[subject].new_cov, s.var = seed[subject].var,
         c.with_cov = counters.with_cov, c.variable = counters.variable,
         c.entries = IF s.calibrated THEN counters.entries + 1 ELSE counters.entries,
         Leave(s, c, round), trace_bits' \in Maps,
         UNCHANGED <<subject, virgin, var_bytes>>
  PROVE  CalInv'
<1> DEFINE newcov == round.new = 2 /\ ~s.new_cov
           newvar == round.var /\ ~s.var
           q == [s EXCEPT !.new_cov = @ \/ newcov, !.var = @ \/ newvar, !.file = TRUE]
<1>1. /\ q \in SeedFields /\ q.queued /\ q.file /\ q.calibrated = s.calibrated /\ q.cal_failed = s.cal_failed
      /\ q.new_cov = (s.new_cov \/ newcov) /\ q.var = (s.var \/ newvar)
  BY DEF SeedFields
<1>2. /\ seed' = [seed EXCEPT ![subject] = q] /\ calPhase' = "main" /\ round' = NoRound
      /\ counters' = [c EXCEPT !.with_cov = IF newcov THEN @ + 1 ELSE @,
                               !.variable = IF newvar THEN @ + 1 ELSE @]
  BY DEF Leave
<1>3. /\ counters' \in CounterFields
      /\ counters'.entries = c.entries
      /\ counters'.with_cov = IF newcov THEN c.with_cov + 1 ELSE c.with_cov
      /\ counters'.variable = IF newvar THEN c.variable + 1 ELSE c.variable
  <2> DEFINE w == IF newcov THEN c.with_cov + 1 ELSE c.with_cov
             v == IF newvar THEN c.variable + 1 ELSE c.variable
  <2>1. w \in Nat /\ v \in Nat
    BY DEF CounterFields
  <2>2. counters' = [c EXCEPT !.with_cov = w, !.variable = v]
    BY <1>2
  <2> HIDE DEF w, v
  <2>3. /\ counters' \in CounterFields /\ counters'.entries = c.entries
        /\ counters'.with_cov = w /\ counters'.variable = v
    BY <2>1, <2>2 DEF CounterFields
  <2> QED BY <2>3 DEF w, v
<1>n. newcov \in BOOLEAN /\ newvar \in BOOLEAN /\ (newcov => ~s.new_cov) /\ (newvar => ~s.var)
  OBVIOUS
<1> HIDE DEF q, newcov, newvar
<1>4. seed'[subject] = q /\ \A j \in Inputs \ {subject} : seed'[j] = seed[j]
  BY <1>2 DEF CalInv, CalTypes
<1>5. CalTypes'
  BY <1>1, <1>2, <1>3, CalMaps DEF CalInv, CalTypes
<1>6. Compared'
  BY <1>2 DEF Compared
<1>7. Accounts'
  BY <1>1, <1>2, <1>4 DEF CalInv, CalTypes, Accounts, AtWork, Settled
<1>8. Totals'
  <2> subject \in Inputs
    BY DEF CalInv, CalTypes
  <2>1. counters'.entries = Cardinality({j \in Inputs : seed'[j].calibrated})
    <3>1. CASE s.calibrated
      <4>1. /\ {j \in Inputs : seed'[j].calibrated} = {j \in Inputs : seed[j].calibrated} \cup {subject}
            /\ subject \notin {j \in Inputs : seed[j].calibrated}
        BY <1>1, <1>4, <3>1 DEF CalInv, Accounts, AtWork
      <4> HIDE DEF CalInv
      <4>2. Cardinality({j \in Inputs : seed[j].calibrated} \cup {subject})
              = Cardinality({j \in Inputs : seed[j].calibrated}) + 1
        BY <4>1, OneMore
      <4> QED BY <1>3, <3>1, <4>1, <4>2 DEF CalInv, Totals
    <3>2. CASE ~s.calibrated
      <4>1. {j \in Inputs : seed'[j].calibrated} = {j \in Inputs : seed[j].calibrated}
        BY <1>1, <1>4, <3>2 DEF CalInv, Accounts, AtWork
      <4> QED BY <1>3, <3>2, <4>1 DEF CalInv, Totals
    <3> QED BY <3>1, <3>2
  <2>2. counters'.with_cov = Cardinality({j \in Inputs : seed'[j].new_cov})
    <3>1. CASE newcov
      <4>1. /\ {j \in Inputs : seed'[j].new_cov} = {j \in Inputs : seed[j].new_cov} \cup {subject}
            /\ subject \notin {j \in Inputs : seed[j].new_cov}
        BY <1>1, <1>4, <1>n, <3>1
      <4>2. Cardinality({j \in Inputs : seed[j].new_cov} \cup {subject})
              = Cardinality({j \in Inputs : seed[j].new_cov}) + 1
        BY <4>1, OneMore
      <4> QED BY <1>3, <3>1, <4>1, <4>2 DEF CalInv, Totals
    <3>2. CASE ~newcov
      <4>1. {j \in Inputs : seed'[j].new_cov} = {j \in Inputs : seed[j].new_cov}
        BY <1>1, <1>4, <3>2
      <4> QED BY <1>3, <3>2, <4>1 DEF CalInv, Totals
    <3> QED BY <3>1, <3>2, <1>n
  <2>3. counters'.variable = Cardinality({j \in Inputs : seed'[j].var})
    <3>1. CASE newvar
      <4>1. /\ {j \in Inputs : seed'[j].var} = {j \in Inputs : seed[j].var} \cup {subject}
            /\ subject \notin {j \in Inputs : seed[j].var}
        BY <1>1, <1>4, <1>n, <3>1
      <4>2. Cardinality({j \in Inputs : seed[j].var} \cup {subject})
              = Cardinality({j \in Inputs : seed[j].var}) + 1
        BY <4>1, OneMore
      <4> QED BY <1>3, <3>1, <4>1, <4>2 DEF CalInv, Totals
    <3>2. CASE ~newvar
      <4>1. {j \in Inputs : seed'[j].var} = {j \in Inputs : seed[j].var}
        BY <1>1, <1>4, <3>2
      <4> QED BY <1>3, <3>2, <4>1 DEF CalInv, Totals
    <3> QED BY <3>1, <3>2, <1>n
  <2> QED BY <2>1, <2>2, <2>3 DEF Totals
<1> QED BY <1>5, <1>6, <1>7, <1>8 DEF CalInv, VariableBytesReal, Varies

(* A run of the loop: bytes that differ are bytes in which the seed varies. *)
LEMMA CalRunStep ==
  ASSUME CalInv, NEW t, CalibrationRun(t)
  PROVE  CalInv'
<1> DEFINE sum  == seed[subject].exec_cksum
           h    == IF t # sum THEN has_new_bits(t, virgin.queue) ELSE 0
           diff == IF t # sum /\ sum # Empty
                   THEN {b \in MapBytes : round.first_trace[b] # t[b]} \ var_bytes ELSE {}
<1>1. /\ calPhase = "round" /\ t \in Traces[subject] /\ subject \in Inputs /\ t \in Maps
      /\ calPhase' = "round" /\ subject' = subject /\ counters' = counters /\ trace_bits' = t
  BY CalMaps DEF CalibrationRun, CalInv, CalTypes
<1>2. t # Empty
  <2>1. {b \in MapBytes : Empty[b] # {}} = {}
    BY DEF Empty
  <2>2. count_bytes(Empty) = 0
    BY <2>1, FS_EmptySet DEF count_bytes
  <2> QED BY <2>2 DEF CalibrationRun
<1>3. /\ has_new_bits(t, virgin.queue) \in 0 .. 2 /\ Cleared(t, virgin.queue) \in Maps
      /\ sum \in Maps
  BY <1>1, HasNewBits DEF CalInv, CalTypes, SeedFields
<1>4. /\ seed' = IF sum = Empty THEN [seed EXCEPT ![subject].exec_cksum = t] ELSE seed
      /\ var_bytes' = var_bytes \cup diff
      /\ virgin' = [virgin EXCEPT !.queue = IF h > 0 THEN Cleared(t, @) ELSE @]
      /\ round' = [round EXCEPT !.cur = @ + 1,
                       !.max = IF diff # {} THEN CAL_CYCLES_LONG ELSE @,
                       !.new = IF h > @ THEN h ELSE @,
                       !.var = @ \/ (t # sum /\ sum # Empty),
                       !.first_trace = IF sum = Empty THEN t ELSE @]
  BY DEF CalibrationRun
<1>5. h \in 0 .. 2
  BY <1>3
<1>6. /\ round' \in RoundFields
      /\ round'.first_trace = IF sum = Empty THEN t ELSE round.first_trace
  <2> HIDE DEF h, diff, sum
  <2> round \in RoundFields
    BY DEF CalInv, CalTypes
  <2> DEFINE max == IF diff # {} THEN CAL_CYCLES_LONG ELSE round.max
             new == IF h > round.new THEN h ELSE round.new
             var == round.var \/ (t # sum /\ sum # Empty)
             fst == IF sum = Empty THEN t ELSE round.first_trace
  <2>1. /\ max \in {0, CAL_CYCLES, CAL_CYCLES_LONG} /\ new \in 0 .. 2 /\ var \in BOOLEAN
        /\ fst \in Maps /\ round.cur + 1 \in Nat
    BY <1>1, <1>5 DEF RoundFields
  <2>2. round' = [round EXCEPT !.cur = round.cur + 1, !.max = max, !.new = new, !.var = var,
                               !.first_trace = fst]
    BY <1>4
  <2>3. fst = IF sum = Empty THEN t ELSE round.first_trace
    OBVIOUS
  <2> HIDE DEF max, new, var, fst
  <2>4. round' \in RoundFields /\ round'.first_trace = fst
    BY <2>1, <2>2 DEF RoundFields
  <2> QED BY <2>3, <2>4
<1>7. virgin' \in [{"queue", "tmout", "crash"} -> Maps]
  <2> HIDE DEF h, diff, sum
  <2> QED BY <1>3, <1>4, <1>5 DEF CalInv, CalTypes
<1>8. /\ seed' \in [Inputs -> SeedFields]
      /\ \A j \in Inputs :
            /\ seed'[j].queued = seed[j].queued /\ seed'[j].calibrated = seed[j].calibrated
            /\ seed'[j].cal_failed = seed[j].cal_failed /\ seed'[j].file = seed[j].file
            /\ seed'[j].new_cov = seed[j].new_cov /\ seed'[j].var = seed[j].var
            /\ j # subject => seed'[j] = seed[j]
      /\ seed'[subject].exec_cksum = IF sum = Empty THEN t ELSE sum
  <2> USE DEF CalInv, CalTypes
  <2>1. CASE sum = Empty
    <3> DEFINE q == [seed[subject] EXCEPT !.exec_cksum = t]
    <3>1. /\ q \in SeedFields /\ q.queued = seed[subject].queued /\ q.calibrated = seed[subject].calibrated
          /\ q.cal_failed = seed[subject].cal_failed /\ q.file = seed[subject].file
          /\ q.new_cov = seed[subject].new_cov /\ q.var = seed[subject].var /\ q.exec_cksum = t
      BY <1>1 DEF SeedFields
    <3>2. seed' = [seed EXCEPT ![subject] = q]
      BY <1>4, <2>1
    <3> HIDE DEF q
    <3> QED BY <1>1, <2>1, <3>1, <3>2
  <2>2. CASE sum # Empty
    BY <1>1, <1>4, <2>2
  <2> QED BY <2>1, <2>2
<1>9. VariableBytesReal'
  <2>1. CASE t # sum /\ sum # Empty
    <3>1. round.first_trace \in Traces[subject]
      BY <1>1, <2>1 DEF CalInv, Compared
    <3>2. diff \subseteq Varies(subject)
      BY <1>1, <3>1 DEF Varies
    <3> QED BY <1>1, <1>4, <3>2 DEF CalInv, VariableBytesReal, Varies
  <2>2. CASE ~(t # sum /\ sum # Empty)
    BY <1>4, <2>2 DEF CalInv, VariableBytesReal, Varies
  <2> QED BY <2>1, <2>2
<1>10. Compared'
  BY <1>1, <1>2, <1>6, <1>8 DEF CalInv, Compared
<1>11. CalTypes'
  BY <1>1, <1>6, <1>7, <1>8 DEF CalInv, CalTypes
<1>12. Accounts'
  <2> HIDE DEF h, diff, sum
  <2> QED BY <1>1, <1>8 DEF CalInv, CalTypes, Accounts, AtWork, Settled
<1>13. Totals'
  <2>1. /\ {j \in Inputs : seed'[j].calibrated} = {j \in Inputs : seed[j].calibrated}
        /\ {j \in Inputs : seed'[j].new_cov} = {j \in Inputs : seed[j].new_cov}
        /\ {j \in Inputs : seed'[j].var} = {j \in Inputs : seed[j].var}
    BY <1>8
  <2> QED BY <1>1, <2>1 DEF CalInv, Totals
<1> QED BY <1>9, <1>10, <1>11, <1>12, <1>13 DEF CalInv

(* A normal run of an input that is no seed yet. *)
LEMMA CalFoundStep ==
  ASSUME CalInv, NEW i \in Inputs, NEW t \in Traces[i], FoundNormal(i, t)
  PROVE  CalInv'
<1> DEFINE h == has_new_bits(t, virgin.queue)
<1>1. /\ calPhase = "main" /\ ~seed[i].queued /\ t \in Maps /\ trace_bits' = t
      /\ round' = round /\ var_bytes' = var_bytes
      /\ virgin' = [virgin EXCEPT !.queue = Cleared(t, @)]
  BY CalMaps DEF FoundNormal
<1>2. h \in 0 .. 2 /\ Cleared(t, virgin.queue) \in Maps
  BY <1>1, HasNewBits DEF CalInv, CalTypes
<1>3. virgin' \in [{"queue", "tmout", "crash"} -> Maps]
  BY <1>1, <1>2 DEF CalInv, CalTypes
<1>4. CASE h = 0
  <2>1. UNCHANGED <<calPhase, subject, seed, counters>>
    BY <1>4 DEF FoundNormal
  <2>2. CalTypes'
    BY <1>1, <1>3, <2>1 DEF CalInv, CalTypes
  <2>3. Compared' /\ Accounts'
    BY <1>1, <2>1 DEF CalInv, Compared, Accounts, AtWork, Settled
  <2>4. Totals'
    BY <2>1 DEF CalInv, Totals
  <2> QED BY <1>1, <2>2, <2>3, <2>4 DEF CalInv, VariableBytesReal, Varies
<1>5. CASE h # 0
  <2> DEFINE q == [NoSeed EXCEPT !.queued = TRUE, !.exec_cksum = t, !.new_cov = h = 2]
  <2>1. /\ seed' = [seed EXCEPT ![i] = q] /\ calPhase' = "found" /\ subject' = i
        /\ counters' = [counters EXCEPT !.with_cov = IF h = 2 THEN @ + 1 ELSE @]
    BY <1>5 DEF FoundNormal
  <2>2. /\ q \in SeedFields /\ q.queued /\ ~q.calibrated /\ q.cal_failed = 0 /\ ~q.var
        /\ q.new_cov <=> h = 2
    BY <1>1, CalMaps DEF SeedFields, NoSeed
  <2>3. /\ counters' \in CounterFields
        /\ counters'.entries = counters.entries /\ counters'.variable = counters.variable
        /\ counters'.with_cov = IF h = 2 THEN counters.with_cov + 1 ELSE counters.with_cov
    <3> HIDE DEF h
    <3> counters \in CounterFields
      BY DEF CalInv, CalTypes
    <3> QED BY <1>2, <2>1 DEF CounterFields
  <2> HIDE DEF q, h
  <2>4. seed'[i] = q /\ \A j \in Inputs \ {i} : seed'[j] = seed[j]
    BY <2>1 DEF CalInv, CalTypes
  <2>5. CalTypes'
    BY <1>1, <1>3, <2>1, <2>2, <2>3 DEF CalInv, CalTypes
  <2>6. Compared'
    BY <1>1, <2>1 DEF Compared
  <2>7. Accounts'
    BY <1>1, <2>1, <2>2, <2>4 DEF CalInv, CalTypes, Accounts, AtWork, Settled
  <2>8. ~seed[i].calibrated /\ ~seed[i].new_cov /\ ~seed[i].var
    BY <1>1 DEF CalInv, Accounts
  <2>9. Totals'
    <3>1. /\ {j \in Inputs : seed'[j].calibrated} = {j \in Inputs : seed[j].calibrated}
          /\ {j \in Inputs : seed'[j].var} = {j \in Inputs : seed[j].var}
      BY <2>2, <2>4, <2>8
    <3>2. counters'.with_cov = Cardinality({j \in Inputs : seed'[j].new_cov})
      <4>1. CASE h = 2
        <5>1. /\ {j \in Inputs : seed'[j].new_cov} = {j \in Inputs : seed[j].new_cov} \cup {i}
              /\ i \notin {j \in Inputs : seed[j].new_cov}
          BY <2>2, <2>4, <2>8, <4>1
        <5>2. Cardinality({j \in Inputs : seed[j].new_cov} \cup {i})
                = Cardinality({j \in Inputs : seed[j].new_cov}) + 1
          BY <5>1, OneMore
        <5> QED BY <2>3, <4>1, <5>1, <5>2 DEF CalInv, Totals
      <4>2. CASE h # 2
        <5>1. {j \in Inputs : seed'[j].new_cov} = {j \in Inputs : seed[j].new_cov}
          BY <2>2, <2>4, <2>8, <4>2
        <5> QED BY <2>3, <4>2, <5>1 DEF CalInv, Totals
      <4> QED BY <4>1, <4>2
    <3> QED BY <2>3, <3>1, <3>2 DEF CalInv, Totals
  <2> QED BY <1>1, <2>5, <2>6, <2>7, <2>9 DEF CalInv, VariableBytesReal, Varies
<1> QED BY <1>4, <1>5

(* The steps that touch no seed: other runs, timeouts and crashes. *)
LEMMA CalQuietStep ==
  ASSUME CalInv, ~AtWork, calPhase' \in {"main", "hang"}, trace_bits' \in Maps, subject' \in Inputs,
         virgin' \in [{"queue", "tmout", "crash"} -> Maps], counters' \in CounterFields,
         counters'.entries = counters.entries, counters'.with_cov = counters.with_cov,
         counters'.variable = counters.variable, UNCHANGED <<round, seed, var_bytes>>
  PROVE  CalInv'
<1>1. CalTypes'
  BY DEF CalInv, CalTypes
<1>2. Compared' /\ Accounts'
  BY DEF CalInv, Compared, Accounts, AtWork, Settled
<1>3. Totals'
  BY DEF CalInv, Totals
<1> QED BY <1>1, <1>2, <1>3 DEF CalInv, VariableBytesReal, Varies

\* A crash is kept when its trace shows something new.
LEMMA CalKeepCrash ==
  ASSUME CalInv, NEW i \in Inputs, NEW t \in Traces[i], KeepCrash(i, t)
  PROVE  /\ trace_bits' \in Maps /\ virgin' \in [{"queue", "tmout", "crash"} -> Maps]
         /\ counters' \in CounterFields
         /\ counters'.entries = counters.entries /\ counters'.with_cov = counters.with_cov
         /\ counters'.variable = counters.variable
<1> DEFINE s == simplify_trace(t)
<1>1. s \in Maps
  BY CalMaps
<1>2. /\ trace_bits' = s /\ virgin' = [virgin EXCEPT !.crash = Cleared(s, @)]
      /\ counters' = [counters EXCEPT !.crashes = @ + 1] \/ counters' = counters
  BY DEF KeepCrash
<1>3. Cleared(s, virgin.crash) \in Maps
  BY <1>1, HasNewBits DEF CalInv, CalTypes
<1> HIDE DEF s
<1>4. counters \in CounterFields /\ virgin \in [{"queue", "tmout", "crash"} -> Maps]
  BY DEF CalInv, CalTypes
<1>5. virgin' \in [{"queue", "tmout", "crash"} -> Maps]
  BY <1>2, <1>3, <1>4
<1> QED BY <1>1, <1>2, <1>4, <1>5 DEF CounterFields

\* A run of the stages: only the maps and the crashes move.
LEMMA CalOtherStep ==
  ASSUME CalInv, NEW i \in Inputs, NEW t \in Traces[i],
         RunOther(i, t) \/ FoundTimeout(i, t) \/ FoundCrash(i, t)
  PROVE  CalInv'
<1>1. t \in Maps /\ simplify_trace(t) \in Maps
  BY CalMaps
<1>2. /\ counters \in CounterFields /\ virgin \in [{"queue", "tmout", "crash"} -> Maps]
      /\ subject \in Inputs
  BY DEF CalInv, CalTypes
<1>3. CASE RunOther(i, t)
  BY <1>1, <1>2, <1>3, CalQuietStep DEF RunOther, AtWork
<1>4. CASE FoundTimeout(i, t)
  <2>1. Cleared(simplify_trace(t), virgin.tmout) \in Maps
    BY <1>1, <1>2, HasNewBits
  <2>2. virgin' \in [{"queue", "tmout", "crash"} -> Maps]
    BY <1>2, <1>4, <2>1 DEF FoundTimeout
  <2>3. calPhase' \in {"main", "hang"} /\ trace_bits' = simplify_trace(t)
    BY <1>4 DEF FoundTimeout
  <2> QED BY <1>1, <1>2, <1>4, <2>2, <2>3, CalQuietStep DEF FoundTimeout, AtWork
<1>5. CASE FoundCrash(i, t)
  BY <1>2, <1>5, CalKeepCrash, CalQuietStep DEF FoundCrash, AtWork
<1> QED BY <1>3, <1>4, <1>5

\* The longer run that confirms a hang, or shows it to be none.
LEMMA CalConfirmStep ==
  ASSUME CalInv, NEW again, NEW t, ConfirmHang(again, t)
  PROVE  CalInv'
<1>1. /\ calPhase = "hang" /\ subject \in Inputs /\ t \in Traces[subject] /\ t \in Maps
      /\ calPhase' = "main" /\ UNCHANGED <<subject, round, seed, var_bytes>>
  BY CalMaps DEF ConfirmHang, CalInv, CalTypes
<1>2. /\ counters \in CounterFields /\ virgin \in [{"queue", "tmout", "crash"} -> Maps]
  BY DEF CalInv, CalTypes
<1>3. CASE again = "tmout"
  <2>1. counters' = [counters EXCEPT !.hangs = @ + 1] /\ trace_bits' = t /\ virgin' = virgin
    BY <1>3 DEF ConfirmHang
  <2>2. /\ counters' \in CounterFields /\ counters'.entries = counters.entries
        /\ counters'.with_cov = counters.with_cov /\ counters'.variable = counters.variable
    BY <1>2, <2>1 DEF CounterFields
  <2> QED BY <1>1, <1>2, <2>1, <2>2, CalQuietStep DEF AtWork
<1>4. CASE again = "crash"
  <2>1. KeepCrash(subject, t)
    BY <1>4 DEF ConfirmHang
  <2> QED BY <1>1, <2>1, CalKeepCrash, CalQuietStep DEF AtWork
<1>5. CASE again = "none"
  <2>1. trace_bits' = t /\ counters' = counters /\ virgin' = virgin
    BY <1>5 DEF ConfirmHang
  <2> QED BY <1>1, <1>2, <2>1, CalQuietStep DEF AtWork
<1> QED BY <1>3, <1>4, <1>5 DEF ConfirmHang

\* Every step of the calibration keeps the invariant.
LEMMA CalStepInv == CalInv /\ [CalNext]_calVars => CalInv'
<1> SUFFICES ASSUME CalInv, [CalNext]_calVars PROVE CalInv'
  OBVIOUS
<1>1. ASSUME NEW i \in Inputs, DryRun(i) PROVE CalInv'
  <2> DEFINE s == [NoSeed EXCEPT !.queued = TRUE, !.file = TRUE]
  <2>1. s \in SeedFields /\ s.queued /\ ~s.calibrated /\ ~s.new_cov /\ ~s.var
    BY CalMaps DEF NoSeed, SeedFields
  <2>2. /\ calPhase = "main" /\ StartCalibration(i, Empty, s, virgin.queue)
        /\ UNCHANGED <<trace_bits, var_bytes, counters>> /\ ~seed[i].queued
    BY <1>1 DEF DryRun
  <2>3. ~seed[i].calibrated /\ ~seed[i].new_cov /\ ~seed[i].var
    BY <2>2 DEF CalInv, Accounts
  <2>4. seed[i] \in SeedFields
    BY DEF CalInv, CalTypes
  <2>5. s.new_cov = seed[i].new_cov /\ s.var = seed[i].var
    BY <2>1, <2>3, <2>4 DEF SeedFields
  <2> HIDE DEF s
  <2> QED BY <2>1, <2>2, <2>3, <2>5, CalMaps, CalStartStep
<1>2. ASSUME NEW i \in Inputs, RetryCalibration(i) PROVE CalInv'
  <2>1. /\ calPhase = "main" /\ seed[i].queued /\ seed[i].cal_failed > 0
        /\ StartCalibration(i, Empty, seed[i], virgin.queue)
        /\ UNCHANGED <<trace_bits, var_bytes, counters>>
    BY <1>2 DEF RetryCalibration
  <2>2. ~seed[i].calibrated /\ seed[i] \in SeedFields
    BY <2>1 DEF CalInv, CalTypes, Accounts, AtWork, Settled
  <2> QED BY <2>1, <2>2, CalMaps, CalStartStep
<1>3. ASSUME NEW t, CalibrationRun(t) PROVE CalInv'
  BY <1>3, CalRunStep
<1>4. CASE CalibrationFault
  <2>1. calPhase = "round" /\ subject \in Inputs /\ seed[subject] \in SeedFields /\ counters \in CounterFields
    BY <1>4 DEF CalibrationFault, CalInv, CalTypes
  <2>2. Leave(seed[subject], counters, round) /\ UNCHANGED <<subject, virgin, var_bytes>>
    BY <1>4 DEF CalibrationFault
  <2>3. trace_bits' \in Maps
    BY <1>4, <2>1, CalMaps DEF CalibrationFault
  <2>4. seed[subject].queued /\ ~seed[subject].calibrated /\ seed[subject].cal_failed > 0
    BY <2>1 DEF CalInv, Accounts, AtWork
  <2> QED BY <2>1, <2>2, <2>3, <2>4, CalLeaveStep
<1>5. CASE CalibrationDone
  <2> DEFINE s == [seed[subject] EXCEPT !.cal_failed = 0, !.calibrated = TRUE]
             c == [counters EXCEPT !.entries = @ + 1]
  <2>1. /\ calPhase = "round" /\ subject \in Inputs /\ seed[subject] \in SeedFields
        /\ counters \in CounterFields /\ trace_bits \in Maps
    BY <1>5 DEF CalibrationDone, CalInv, CalTypes
  <2>2. Leave(s, c, round) /\ UNCHANGED <<trace_bits, subject, virgin, var_bytes>>
    BY <1>5 DEF CalibrationDone
  <2>3. seed[subject].queued
    BY <2>1 DEF CalInv, Accounts, AtWork
  <2>4. /\ s \in SeedFields /\ s.queued /\ s.calibrated /\ s.cal_failed = 0
        /\ s.new_cov = seed[subject].new_cov /\ s.var = seed[subject].var
    BY <2>1, <2>3 DEF SeedFields
  <2>5. /\ c \in CounterFields /\ c.entries = counters.entries + 1
        /\ c.with_cov = counters.with_cov /\ c.variable = counters.variable
    BY <2>1 DEF CounterFields
  <2> HIDE DEF s, c
  <2> QED BY <2>1, <2>2, <2>4, <2>5, CalLeaveStep
<1>6. CASE CalibrateFound
  <2>1. /\ calPhase = "found" /\ subject \in Inputs /\ seed[subject] \in SeedFields
        /\ StartCalibration(subject, seed[subject].exec_cksum, seed[subject], virgin.queue)
        /\ UNCHANGED <<trace_bits, var_bytes, counters>>
    BY <1>6 DEF CalibrateFound, CalInv, CalTypes
  <2>2. /\ seed[subject].queued /\ ~seed[subject].calibrated /\ trace_bits \in Traces[subject]
    BY <2>1 DEF CalInv, Accounts, AtWork, Compared
  <2>3. seed[subject].exec_cksum \in Maps
    BY <2>1 DEF SeedFields
  <2> QED BY <2>1, <2>2, <2>3, CalStartStep
<1>7. ASSUME NEW i \in Inputs, NEW t \in Traces[i],
             FoundNormal(i, t) \/ RunOther(i, t) \/ FoundTimeout(i, t) \/ FoundCrash(i, t)
      PROVE  CalInv'
  BY <1>7, CalFoundStep, CalOtherStep
<1>8. ASSUME NEW t, NEW a, ConfirmHang(a, t) PROVE CalInv'
  BY <1>8, CalConfirmStep
<1>9. CASE UNCHANGED calVars
  BY <1>9 DEF calVars, CalInv, CalTypes, Compared, Accounts, AtWork, Settled, Totals,
              VariableBytesReal, Varies
<1> QED BY <1>1, <1>2, <1>3, <1>4, <1>5, <1>6, <1>7, <1>8, <1>9 DEF CalNext

(* For every map, every set of inputs and every mixture of runs: only a    *)
(* byte that one input can set differently is called variable, no total    *)
(* counts a seed twice, and has_new_bits answers what it is asked.         *)
THEOREM CalibrationRightHolds == CalSpec => []CalibrationRight
<1>1. CalInv => CalibrationRight
  <2> SUFFICES ASSUME CalInv PROVE CalibrationRight
    OBVIOUS
  <2>1. TotalsCountOnce
    BY DEF CalInv, Totals, Accounts, AtWork, Settled, TotalsCountOnce
  <2>2. NewBitsRight
    <3> SUFFICES ASSUME NEW i \in Inputs, NEW t \in Traces[i], NEW m \in DOMAIN virgin
                 PROVE  LET v == virgin[m]
                            r == has_new_bits(t, v)
                        IN /\ r = 2 <=> \E b \in MapBytes : t[b] # {} /\ v[b] = CountBits
                           /\ r = 0 <=> \A b \in MapBytes : t[b] \cap v[b] = {}
                           /\ has_new_bits(t, Cleared(t, v)) = 0
      BY DEF NewBitsRight
    <3>1. t \in Maps /\ virgin[m] \in Maps
      BY CalMaps DEF CalInv, CalTypes
    <3> QED BY <3>1, HasNewBits
  <2> QED BY <2>1, <2>2 DEF CalInv, CalibrationRight
<1> QED BY <1>1, CalInitInv, CalStepInv, PTL DEF CalSpec

-----------------------------------------------------------------------------
(***************************************************************************)
(* The dictionaries.                                                       *)
(***************************************************************************)

\* A set of numbers with a member has a least one.
LEMMA LeastMember ==
  ASSUME NEW T \in SUBSET Nat, T # {}
  PROVE  \E x \in T : \A y \in T : x <= y
<1> DEFINE R == OpToRel(<, Nat)
<1>1. IsWellFoundedOn(R, Nat)
  BY NatLessThanWellFounded
<1>2. \A x, y \in Nat : x < y => <<x, y>> \in R
  BY DEF OpToRel
<1> HIDE DEF R
<1>3. PICK x \in T : \A y \in T : ~(<<y, x>> \in R)
  <2>1. T \subseteq Nat
    OBVIOUS
  <2> QED BY <1>1, <2>1, WFMin
<1>4. ASSUME NEW y \in T PROVE x <= y
  <2>1. x \in Nat /\ y \in Nat /\ ~(y < x)
    BY <1>2, <1>3
  <2> QED BY <2>1
<1> QED BY <1>4

-----------------------------------------------------------------------------
(***************************************************************************)
(* Sorting is a permutation.                                               *)
(***************************************************************************)
Perms(n) == {q \in [1..n -> 1..n] : /\ \A i, j \in 1..n : q[i] = q[j] => i = j
                                    /\ \A j \in 1..n : \E i \in 1..n : q[i] = j}

(* Places given away once each are all given away. *)
LEMMA AllPlaces ==
  ASSUME NEW n \in Nat, NEW q \in [1..n -> 1..n], \A i, j \in 1..n : q[i] = q[j] => i = j
  PROVE  q \in Perms(n)
<1>1. IsFiniteSet(1..n)
  BY FS_Interval
<1>2. q \in Injection(1..n, 1..n)
  BY Fun_IsInj
<1>3. q \in Surjection(1..n, 1..n)
  BY <1>1, <1>2, FS_Injection
<1>4. \A j \in 1..n : \E i \in 1..n : q[i] = j
  BY <1>3, Fun_SurjectionProperties
<1> QED BY <1>4 DEF Perms

\* A sorted table is the old one in another order.
LEMMA ReorderedIs ==
  ASSUME NEW E, NEW s \in Seq(E), NEW r \in Reordered(s)
  PROVE  /\ r \in Seq(E) /\ Len(r) = Len(s)
         /\ \E q \in Perms(Len(s)) : \A i \in 1..Len(s) : r[i] = s[q[i]]
<1>1. DOMAIN s = 1..Len(s) /\ Len(s) \in Nat /\ \A i \in 1..Len(s) : s[i] \in E
  OBVIOUS
<1>2. PICK q \in [1..Len(s) -> 1..Len(s)] :
        (\A i, j \in 1..Len(s) : q[i] = q[j] => i = j) /\ r = [i \in 1..Len(s) |-> s[q[i]]]
  BY <1>1 DEF Reordered
<1>3. q \in Perms(Len(s))
  BY <1>1, <1>2, AllPlaces
<1>4. \A i \in 1..Len(s) : r[i] = s[q[i]] /\ s[q[i]] \in E
  BY <1>1, <1>2
<1>5. r \in [1..Len(s) -> E]
  BY <1>2, <1>4
<1>6. r \in Seq(E) /\ Len(r) = Len(s)
  BY <1>1, <1>5, IsASeq
<1> QED BY <1>3, <1>4, <1>6

Entry == [tok : FoundTokens, hit : Nat, early : BOOLEAN]

TopSorted(table) ==
  LET n == Fewer(USE_AUTO_EXTRAS, Len(table))
  IN /\ \A i \in 1..n : \A j \in n + 1 .. Len(table) : table[i].hit >= table[j].hit
     /\ \A i, j \in 1..n : i < j => table[i].tok.len <= table[j].tok.len

(* sort_a_extras leaves the same entries, and the first of them are the    *)
(* ones hit most, by their lengths.                                        *)
LEMMA SortedIs ==
  ASSUME NEW s \in Seq(Entry), NEW r \in sort_a_extras(s)
  PROVE  /\ r \in Seq(Entry) /\ Len(r) = Len(s) /\ TopSorted(r)
         /\ \E q \in Perms(Len(s)) : \A i \in 1..Len(s) : r[i] = s[q[i]]
<1>1. PICK u \in ByUse(s) : r \in TopByLen(u)
  BY DEF sort_a_extras
<1>2. u \in Reordered(s) /\ \A i, j \in DOMAIN u : i < j => u[i].hit >= u[j].hit
  BY DEF ByUse
<1>3. u \in Seq(Entry) /\ Len(u) = Len(s)
  BY <1>2, ReorderedIs
<1>4. PICK p \in Perms(Len(s)) : \A i \in 1..Len(s) : u[i] = s[p[i]]
  BY <1>2, ReorderedIs
<1> DEFINE n == Fewer(USE_AUTO_EXTRAS, Len(u))
           m == Len(u)
<1>5. n \in Nat /\ m \in Nat /\ n <= m /\ m = Len(s)
  BY <1>3, DictionaryAssumption DEF Fewer
<1>6. /\ SubSeq(u, 1, n) \in Seq(Entry) /\ Len(SubSeq(u, 1, n)) = n
      /\ \A i \in 1..n : SubSeq(u, 1, n)[i] = u[i]
  <2>1. 1 \in 1..m + 1 /\ n \in 1 - 1 .. m
    BY <1>5
  <2> HIDE DEF n
  <2> QED BY <1>3, <1>5, <2>1, SubSeqProperties
<1>7. PICK t \in Reordered(SubSeq(u, 1, n)) :
        /\ \A i, j \in DOMAIN t : i < j => t[i].tok.len <= t[j].tok.len
        /\ r = t \o SubSeq(u, n + 1, m)
  BY <1>1 DEF TopByLen
<1>8. t \in Seq(Entry) /\ Len(t) = n
  BY <1>6, <1>7, ReorderedIs
<1>9. PICK q \in Perms(n) : \A i \in 1..n : t[i] = SubSeq(u, 1, n)[q[i]]
  <2> DEFINE v == SubSeq(u, 1, n)
  <2>1. v \in Seq(Entry) /\ Len(v) = n /\ t \in Reordered(v)
    BY <1>6, <1>7
  <2> HIDE DEF n, v
  <2>2. \E q \in Perms(Len(v)) : \A i \in 1..Len(v) : t[i] = v[q[i]]
    BY <2>1, ReorderedIs
  <2>3. \E q \in Perms(n) : \A i \in 1..n : t[i] = v[q[i]]
    BY <2>1, <2>2
  <2> QED BY <2>3 DEF v
<1>10. /\ SubSeq(u, n + 1, m) \in Seq(Entry) /\ Len(SubSeq(u, n + 1, m)) = m - n
       /\ \A i \in 1 .. m - n : SubSeq(u, n + 1, m)[i] = u[n + i]
  <2> HIDE DEF n
  <2>1. n + 1 \in 1..m + 1 /\ m \in (n + 1) - 1 .. m
    BY <1>5
  <2>2. /\ SubSeq(u, n + 1, m) \in Seq(Entry)
        /\ Len(SubSeq(u, n + 1, m)) = IF n + 1 <= m THEN m - (n + 1) + 1 ELSE 0
    BY <1>3, <2>1, SubSeqProperties
  <2>3. \A i \in 1 .. m - n : SubSeq(u, n + 1, m)[i] = u[n + i]
    BY <1>3, <1>5
  <2> QED BY <1>5, <2>2, <2>3
<1> HIDE DEF n, m
<1>11. /\ r \in Seq(Entry) /\ Len(r) = m
       /\ \A i \in 1..n : r[i] = t[i]
       /\ \A i \in n + 1 .. m : r[i] = u[i]
  <2>1. r \in Seq(Entry) /\ Len(r) = n + (m - n)
    BY <1>7, <1>8, <1>10, ConcatProperties
  <2>2. \A i \in 1..n : r[i] = t[i]
    BY <1>5, <1>7, <1>8, <1>10
  <2>3. ASSUME NEW i \in n + 1 .. m PROVE r[i] = u[i]
    <3>1. i - n \in 1 .. m - n /\ n + (i - n) = i /\ i \in 1 .. n + (m - n) /\ i > n
      BY <1>5
    <3>2. r[i] = SubSeq(u, n + 1, m)[i - n]
      BY <1>5, <1>7, <1>8, <1>10, <3>1
    <3> QED BY <1>10, <3>1, <3>2
  <2> QED BY <1>5, <2>1, <2>2, <2>3
<1>12. /\ q \in [1..n -> 1..n] /\ (\A i, j \in 1..n : q[i] = q[j] => i = j)
       /\ p \in [1..m -> 1..m] /\ (\A i, j \in 1..m : p[i] = p[j] => i = j)
  BY <1>4, <1>5, <1>9 DEF Perms
<1> DEFINE w == [i \in 1..m |-> IF i <= n THEN p[q[i]] ELSE p[i]]
<1>13. w \in [1..m -> 1..m]
  BY <1>5, <1>12
<1>14. \A i, j \in 1..m : w[i] = w[j] => i = j
  <2>1. ASSUME NEW i \in 1..m, NEW j \in 1..m, w[i] = w[j] PROVE i = j
    <3> DEFINE a == IF i <= n THEN q[i] ELSE i
               b == IF j <= n THEN q[j] ELSE j
    <3>1. a \in 1..m /\ b \in 1..m /\ p[a] = w[i] /\ p[b] = w[j]
      BY <1>5, <1>12
    <3>2. a = b
      <4> HIDE DEF a, b, w
      <4> QED BY <1>12, <2>1, <3>1
    <3>3. (i <= n <=> a <= n) /\ (j <= n <=> b <= n)
      BY <1>5, <1>12
    <3>4. CASE i <= n
      BY <1>5, <1>12, <3>2, <3>3, <3>4
    <3>5. CASE ~(i <= n)
      BY <1>5, <3>2, <3>3, <3>5
    <3> QED BY <3>4, <3>5
  <2> QED BY <2>1
<1>15. w \in Perms(m)
  <2> HIDE DEF w
  <2> QED BY <1>5, <1>13, <1>14, AllPlaces
<1>16. ASSUME NEW i \in 1..m PROVE r[i] = s[w[i]]
  <2>1. CASE i <= n
    <3>1. i \in 1..n /\ q[i] \in 1..n /\ q[i] \in 1..m
      BY <1>5, <1>12, <2>1
    <3>2. r[i] = u[q[i]]
      BY <1>6, <1>9, <1>11, <3>1
    <3> QED BY <1>4, <1>5, <2>1, <3>1, <3>2
  <2>2. CASE ~(i <= n)
    <3>1. i \in n + 1 .. m
      BY <1>5, <2>2
    <3> QED BY <1>4, <1>5, <1>11, <2>2, <3>1
  <2> QED BY <2>1, <2>2
<1>17. \E x \in Perms(Len(s)) : \A i \in 1..Len(s) : r[i] = s[x[i]]
  <2> HIDE DEF w
  <2> QED BY <1>5, <1>15, <1>16
<1>18. TopSorted(r)
  <2>1. n = Fewer(USE_AUTO_EXTRAS, Len(r))
    BY <1>11 DEF n, m
  <2>2. ASSUME NEW i \in 1..n, NEW j \in n + 1 .. m PROVE r[i].hit >= r[j].hit
    <3>1. q[i] \in 1..n /\ q[i] \in DOMAIN u /\ j \in DOMAIN u /\ q[i] < j
      BY <1>3, <1>5, <1>12 DEF m
    <3>2. r[i] = u[q[i]] /\ r[j] = u[j]
      BY <1>6, <1>9, <1>11, <3>1
    <3> QED BY <1>2, <3>1, <3>2
  <2>3. ASSUME NEW i \in 1..n, NEW j \in 1..n, i < j PROVE r[i].tok.len <= r[j].tok.len
    <3>1. i \in DOMAIN t /\ j \in DOMAIN t
      BY <1>8
    <3> QED BY <1>7, <1>11, <2>3, <3>1
  <2> QED BY <1>11, <2>1, <2>2, <2>3 DEF TopSorted
<1> QED BY <1>5, <1>11, <1>17, <1>18

-----------------------------------------------------------------------------
(***************************************************************************)
(* What maybe_add_auto makes of a table.                                   *)
(***************************************************************************)
Distinct(table) ==
  \A i, j \in DOMAIN table : i # j => ~memcmp_nocase(table[i].tok, table[j].tok)

TokensOf(table) == {table[i].tok : i \in DOMAIN table}

(* An entry that was in the table, but for its hits, or the new one. *)
Stems(e, table, t, early) ==
  \/ \E j \in DOMAIN table : e.tok = table[j].tok /\ e.early = table[j].early
  \/ e.tok = t /\ e.early = early

\* What holds of all entries, or of all pairs of them, survives a new order.
LEMMA PermKeeps ==
  ASSUME NEW s \in Seq(Entry), NEW r \in Seq(Entry), Len(r) = Len(s),
         NEW q \in Perms(Len(s)), \A i \in 1..Len(s) : r[i] = s[q[i]]
  PROVE  /\ Distinct(s) => Distinct(r)
         /\ TokensOf(r) = TokensOf(s)
         /\ \A i \in DOMAIN r : \E j \in DOMAIN s : r[i] = s[j]
<1>1. DOMAIN s = 1..Len(s) /\ DOMAIN r = 1..Len(s)
  BY LenProperties
<1>2. /\ \A i \in 1..Len(s) : q[i] \in 1..Len(s)
      /\ \A i, j \in 1..Len(s) : q[i] = q[j] => i = j
      /\ \A j \in 1..Len(s) : \E i \in 1..Len(s) : q[i] = j
  BY DEF Perms
<1> HIDE DEF Perms
<1>3. ASSUME Distinct(s) PROVE Distinct(r)
  <2>1. ASSUME NEW i \in DOMAIN r, NEW j \in DOMAIN r, i # j
        PROVE  ~memcmp_nocase(r[i].tok, r[j].tok)
    <3>1. /\ q[i] \in DOMAIN s /\ q[j] \in DOMAIN s /\ q[i] # q[j]
          /\ r[i] = s[q[i]] /\ r[j] = s[q[j]]
      BY <1>1, <1>2, <2>1
    <3> QED BY <1>3, <3>1 DEF Distinct
  <2> QED BY <2>1 DEF Distinct
<1>4. TokensOf(r) = TokensOf(s)
  <2>1. ASSUME NEW i \in DOMAIN r PROVE r[i].tok \in TokensOf(s)
    BY <1>1, <1>2 DEF TokensOf
  <2>2. ASSUME NEW j \in DOMAIN s PROVE s[j].tok \in TokensOf(r)
    <3>1. PICK i \in DOMAIN r : q[i] = j
      BY <1>1, <1>2
    <3> QED BY <1>1, <3>1 DEF TokensOf
  <2> QED BY <2>1, <2>2 DEF TokensOf
<1> QED BY <1>1, <1>2, <1>3, <1>4

(* The table before it is sorted. *)
Unsorted(w, table, t, early) ==
  /\ w \in Seq(Entry) /\ Len(w) <= MAX_AUTO_EXTRAS /\ Distinct(w)
  /\ \A i \in DOMAIN w : Stems(w[i], table, t, early)

\* A token that the table has is counted, and the table sorted again.
LEMMA HitAgain ==
  ASSUME NEW table \in Seq(Entry), Len(table) <= MAX_AUTO_EXTRAS, Distinct(table),
         NEW t, NEW early, NEW i \in DOMAIN table, NEW h \in Nat
  PROVE  Unsorted([table EXCEPT ![i].hit = h], table, t, early)
<1> DEFINE w == [table EXCEPT ![i].hit = h]
<1>1. DOMAIN table = 1..Len(table) /\ Len(table) \in Nat /\ \A j \in DOMAIN table : table[j] \in Entry
  OBVIOUS
<1>2. [table[i] EXCEPT !.hit = h] \in Entry
  BY <1>1 DEF Entry
<1>3. w = [table EXCEPT ![i] = [table[i] EXCEPT !.hit = h]]
  OBVIOUS
<1>4. w \in Seq(Entry) /\ Len(w) = Len(table) /\ DOMAIN w = DOMAIN table
  BY <1>1, <1>2, <1>3, ExceptSeq
<1>5. \A j \in DOMAIN table : w[j].tok = table[j].tok /\ w[j].early = table[j].early
  BY <1>1 DEF Entry
<1> HIDE DEF w
<1>6. Distinct(w)
  BY <1>4, <1>5 DEF Distinct
<1>7. \A j \in DOMAIN w : Stems(w[j], table, t, early)
  BY <1>4, <1>5 DEF Stems
<1> QED BY <1>4, <1>6, <1>7 DEF Unsorted, w

(* A new token at a place of the table or behind it. *)
LEMMA Placed ==
  ASSUME NEW table \in Seq(Entry), Len(table) <= MAX_AUTO_EXTRAS, Distinct(table),
         NEW t \in FoundTokens, NEW early \in BOOLEAN,
         \A j \in DOMAIN table : ~memcmp_nocase(table[j].tok, t)
  PROVE  LET new == [tok |-> t, hit |-> 0, early |-> early]
         IN /\ Len(table) < MAX_AUTO_EXTRAS => Unsorted(Append(table, new), table, t, early)
            /\ \A i \in DOMAIN table : Unsorted([table EXCEPT ![i] = new], table, t, early)
<1> DEFINE new == [tok |-> t, hit |-> 0, early |-> early]
<1>1. DOMAIN table = 1..Len(table) /\ Len(table) \in Nat /\ \A j \in DOMAIN table : table[j] \in Entry
  OBVIOUS
<1>2. new \in Entry /\ new.tok = t /\ new.early = early
  BY DEF Entry
<1> HIDE DEF new
<1>3. \A j \in DOMAIN table : ~memcmp_nocase(t, table[j].tok)
  BY DEF memcmp_nocase
<1>4. ASSUME Len(table) < MAX_AUTO_EXTRAS PROVE Unsorted(Append(table, new), table, t, early)
  <2> DEFINE w == Append(table, new)
  <2>1. /\ w \in Seq(Entry) /\ Len(w) = Len(table) + 1 /\ w[Len(table) + 1] = new
        /\ \A j \in 1..Len(table) : w[j] = table[j]
    BY <1>2, AppendProperties
  <2> HIDE DEF w
  <2>2. DOMAIN w = 1 .. Len(table) + 1
    BY <2>1
  <2>3. \A j \in DOMAIN w : j \in DOMAIN table \/ j = Len(table) + 1
    BY <1>1, <2>2
  <2>4. Distinct(w)
    BY <1>1, <1>2, <1>3, <2>1, <2>3 DEF Distinct
  <2>5. \A j \in DOMAIN w : Stems(w[j], table, t, early)
    BY <1>1, <1>2, <2>1, <2>3 DEF Stems
  <2>6. Len(w) <= MAX_AUTO_EXTRAS
    BY <1>1, <1>4, <2>1, DictionaryAssumption
  <2> QED BY <2>1, <2>4, <2>5, <2>6 DEF Unsorted, w
<1>5. ASSUME NEW i \in DOMAIN table PROVE Unsorted([table EXCEPT ![i] = new], table, t, early)
  <2> DEFINE w == [table EXCEPT ![i] = new]
  <2>1. w \in Seq(Entry) /\ Len(w) = Len(table) /\ DOMAIN w = DOMAIN table
    BY <1>1, <1>2, ExceptSeq
  <2>2. \A j \in DOMAIN table : w[j] = IF j = i THEN new ELSE table[j]
    OBVIOUS
  <2> HIDE DEF w
  <2>3. Distinct(w)
    BY <1>2, <1>3, <2>1, <2>2 DEF Distinct
  <2>4. \A j \in DOMAIN w : Stems(w[j], table, t, early)
    BY <1>2, <2>1, <2>2 DEF Stems
  <2> QED BY <2>1, <2>3, <2>4 DEF Unsorted, w
<1> QED BY <1>4, <1>5 DEF new

\* The place for a new token is in the second half of the table.
LEMMA Halves ==
  ASSUME NEW M \in Nat
  PROVE  M \div 2 \in Nat /\ (M + 1) \div 2 \in Nat /\ M \div 2 + (M + 1) \div 2 <= M
OBVIOUS

\* maybe_add_auto before its two sorts.
LEMMA AddedUnsorted ==
  ASSUME NEW table \in Seq(Entry), Len(table) <= MAX_AUTO_EXTRAS, Distinct(table),
         NEW t \in FoundTokens, NEW early \in BOOLEAN, NEW r \in Added(table, t, early)
  PROVE  \E w : Unsorted(w, table, t, early) /\ r \in sort_a_extras(w)
<1> DEFINE same == {i \in DOMAIN table : memcmp_nocase(table[i].tok, t)}
           new == [tok |-> t, hit |-> 0, early |-> early]
<1>1. DOMAIN table = 1..Len(table) /\ Len(table) \in Nat /\ \A j \in DOMAIN table : table[j] \in Entry
  OBVIOUS
<1>2. CASE same # {}
  <2> DEFINE i == CHOOSE k \in same : \A m \in same : k <= m
             h == Fewer(table[i].hit + 1, MaxHits)
  <2>1. i \in same
    <3>1. same \in SUBSET Nat
      BY <1>1
    <3> HIDE DEF same
    <3>2. \E k \in same : \A m \in same : k <= m
      BY <1>2, <3>1, LeastMember
    <3> QED BY <3>2
  <2>2. r \in sort_a_extras([table EXCEPT ![i].hit = h])
    BY <1>2 DEF Added
  <2>3. i \in DOMAIN table
    BY <2>1
  <2> HIDE DEF i, same
  <2>4. h \in Nat
    <3>1. table[i].hit \in Nat
      BY <1>1, <2>3 DEF Entry
    <3> QED BY <3>1, DictionaryAssumption DEF Fewer
  <2> HIDE DEF h
  <2>5. Unsorted([table EXCEPT ![i].hit = h], table, t, early)
    BY <2>3, <2>4, HitAgain
  <2> QED BY <2>2, <2>5
<1>3. CASE same = {} /\ Len(table) < MAX_AUTO_EXTRAS
  <2>1. r \in sort_a_extras(Append(table, new))
    BY <1>3 DEF Added
  <2>2. \A j \in DOMAIN table : ~memcmp_nocase(table[j].tok, t)
    BY <1>3
  <2>3. Unsorted(Append(table, new), table, t, early)
    BY <1>3, <2>2, Placed
  <2> QED BY <2>1, <2>3
<1>4. CASE same = {} /\ ~(Len(table) < MAX_AUTO_EXTRAS)
  <2> DEFINE half == MAX_AUTO_EXTRAS \div 2
             rest == (MAX_AUTO_EXTRAS + 1) \div 2
  <2>1. PICK i \in half .. (half + rest - 1) : r \in sort_a_extras([table EXCEPT ![i + 1] = new])
    BY <1>4 DEF Added
  <2>2. i + 1 \in DOMAIN table
    <3>1. MAX_AUTO_EXTRAS \in Nat
      BY DictionaryAssumption
    <3>2. half \in Nat /\ rest \in Nat /\ half + rest <= MAX_AUTO_EXTRAS
      BY <3>1, Halves
    <3> HIDE DEF half, rest
    <3> QED BY <1>1, <1>4, <3>1, <3>2
  <2>3. \A j \in DOMAIN table : ~memcmp_nocase(table[j].tok, t)
    BY <1>4
  <2>4. Unsorted([table EXCEPT ![i + 1] = new], table, t, early)
    BY <2>2, <2>3, Placed
  <2> QED BY <2>1, <2>4
<1> QED BY <1>2, <1>3, <1>4

(* The table is within its size, without doubles, in order, and holds what *)
(* it held and the token.                                                  *)
GoodTable(table) ==
  table \in Seq(Entry) /\ Len(table) <= MAX_AUTO_EXTRAS /\ Distinct(table) /\ TopSorted(table)

\* maybe_add_auto: the table stays sorted, without doubles and in its bounds.
LEMMA AddedIs ==
  ASSUME NEW table \in Seq(Entry), Len(table) <= MAX_AUTO_EXTRAS, Distinct(table),
         NEW t \in FoundTokens, NEW early \in BOOLEAN, NEW r \in Added(table, t, early)
  PROVE  GoodTable(r) /\ \A i \in DOMAIN r : Stems(r[i], table, t, early)
<1>1. PICK w : Unsorted(w, table, t, early) /\ r \in sort_a_extras(w)
  BY AddedUnsorted
<1>2. w \in Seq(Entry) /\ Len(w) <= MAX_AUTO_EXTRAS /\ Distinct(w)
  BY <1>1 DEF Unsorted
<1>3. r \in Seq(Entry) /\ Len(r) = Len(w) /\ TopSorted(r)
  BY <1>1, <1>2, SortedIs
<1>4. PICK q \in Perms(Len(w)) : \A i \in 1..Len(w) : r[i] = w[q[i]]
  BY <1>1, <1>2, SortedIs
<1>5. Distinct(r) /\ \A i \in DOMAIN r : \E j \in DOMAIN w : r[i] = w[j]
  BY <1>2, <1>3, <1>4, PermKeeps
<1>6. \A i \in DOMAIN r : Stems(r[i], table, t, early)
  BY <1>1, <1>5 DEF Unsorted
<1> QED BY <1>2, <1>3, <1>5, <1>6 DEF GoodTable

\* With room left a new token is put behind the others.
LEMMA AppendedIs ==
  ASSUME NEW table \in Seq(Entry), Len(table) < MAX_AUTO_EXTRAS,
         NEW t \in FoundTokens, NEW early \in BOOLEAN,
         \A j \in DOMAIN table : ~memcmp_nocase(table[j].tok, t), NEW r \in Added(table, t, early)
  PROVE  Len(r) = Len(table) + 1 /\ TokensOf(r) = TokensOf(table) \cup {t}
<1> DEFINE new == [tok |-> t, hit |-> 0, early |-> early]
           w == Append(table, new)
<1>1. r \in sort_a_extras(w)
  BY DEF Added
<1>2. new \in Entry /\ new.tok = t
  BY DEF Entry
<1> HIDE DEF new
<1>3. /\ w \in Seq(Entry) /\ Len(w) = Len(table) + 1 /\ w[Len(table) + 1] = new
      /\ \A j \in 1..Len(table) : w[j] = table[j]
  BY <1>2, AppendProperties
<1> HIDE DEF w
<1>4. r \in Seq(Entry) /\ Len(r) = Len(w)
  BY <1>1, <1>3, SortedIs
<1>5. PICK q \in Perms(Len(w)) : \A i \in 1..Len(w) : r[i] = w[q[i]]
  BY <1>1, <1>3, SortedIs
<1>6. TokensOf(r) = TokensOf(w)
  BY <1>3, <1>4, <1>5, PermKeeps
<1>7. DOMAIN w = 1 .. Len(table) + 1 /\ DOMAIN table = 1..Len(table) /\ Len(table) \in Nat
  BY <1>3
<1>8. \A j \in DOMAIN w : j \in DOMAIN table \/ j = Len(table) + 1
  BY <1>7
<1>9. DOMAIN table \subseteq DOMAIN w /\ Len(table) + 1 \in DOMAIN w
  BY <1>7
<1>10. TokensOf(w) = TokensOf(table) \cup {t}
  BY <1>2, <1>3, <1>7, <1>8, <1>9 DEF TokensOf
<1> QED BY <1>3, <1>4, <1>6, <1>10

-----------------------------------------------------------------------------
(***************************************************************************)
(* load_auto reads one file after the other: the tables after n of them.   *)
(***************************************************************************)
AfterFile(files, n, tables) == UNION {Added(t, files[n], TRUE) : t \in tables}
Loading(g, files, n) ==
  g = [k \in 0..n |-> IF k = 0 THEN {<<>>} ELSE AfterFile(files, k, g[k - 1])]

\* Reading one file more.
LEMMA LoadingExtends ==
  ASSUME NEW files, NEW n \in Nat, NEW f, Loading(f, files, n)
  PROVE  \E g : Loading(g, files, n + 1)
<1> DEFINE g == [k \in 0 .. n + 1 |-> IF k = 0 THEN {<<>>} ELSE AfterFile(files, k, f[k - 1])]
<1>1. ASSUME NEW k \in 0..n PROVE g[k] = f[k]
  <2>1. k \in 0 .. n + 1
    OBVIOUS
  <2>2. f[k] = IF k = 0 THEN {<<>>} ELSE AfterFile(files, k, f[k - 1])
    BY Zenon DEF Loading
  <2> QED BY <2>1, <2>2
<1>2. ASSUME NEW k \in 0 .. n + 1, k # 0 PROVE AfterFile(files, k, f[k - 1]) = AfterFile(files, k, g[k - 1])
  <2>1. k - 1 \in 0..n
    BY <1>2
  <2> HIDE DEF g
  <2> QED BY <1>1, <2>1
<1>3. g = [k \in 0 .. n + 1 |-> IF k = 0 THEN {<<>>} ELSE AfterFile(files, k, g[k - 1])]
  BY <1>2
<1> HIDE DEF g
<1> QED BY <1>3 DEF Loading

\* Any number of files can be read.
LEMMA LoadingExists ==
  ASSUME NEW files, NEW n \in Nat
  PROVE  \E g : Loading(g, files, n)
<1> DEFINE None == {j \in Nat : ~\E g : Loading(g, files, j)}
<1>1. SUFFICES ASSUME None # {} PROVE FALSE
  OBVIOUS
<1>2. PICK j \in None : \A i \in None : j <= i
  <2>1. None \in SUBSET Nat
    OBVIOUS
  <2> HIDE DEF None
  <2> QED BY <1>1, <2>1, LeastMember
<1>3. j # 0
  <2> DEFINE g == [k \in 0..0 |-> {<<>>}]
  <2>1. g = [k \in 0..0 |-> IF k = 0 THEN {<<>>} ELSE AfterFile(files, k, g[k - 1])]
    OBVIOUS
  <2> HIDE DEF g
  <2>2. Loading(g, files, 0)
    BY <2>1 DEF Loading
  <2> QED BY <1>2, <2>2
<1>4. j - 1 \in Nat /\ ~(j - 1 \in None) /\ (j - 1) + 1 = j
  <2>1. j - 1 \in Nat /\ ~(j <= j - 1) /\ (j - 1) + 1 = j
    BY <1>2, <1>3
  <2> HIDE DEF None
  <2> QED BY <1>2, <2>1
<1>5. PICK f : Loading(f, files, j - 1)
  BY <1>4
<1> QED BY <1>2, <1>4, <1>5, LoadingExtends

\* What the recursion of LoadedFrom computes is such a reading.
LEMMA LoadedFromIs ==
  ASSUME NEW files \in Seq(FoundTokens)
  PROVE  \E g : Loading(g, files, Len(files)) /\ LoadedFrom(files) = g[Len(files)]
<1> DEFINE f == CHOOSE g : Loading(g, files, Len(files))
<1>1. Loading(f, files, Len(files))
  <2>1. Len(files) \in Nat
    OBVIOUS
  <2> QED BY <2>1, LoadingExists
<1>2. LoadedFrom(files) = f[Len(files)]
  BY DEF LoadedFrom, Loading, AfterFile
<1> HIDE DEF f
<1> QED BY <1>1, <1>2

(* A table loaded from the first n files. *)
LoadedTable(table, files, n) ==
  /\ table \in Seq(Entry) /\ Len(table) = n /\ Distinct(table) /\ TopSorted(table)
  /\ \A i \in DOMAIN table : table[i].early
  /\ TokensOf(table) = {files[k] : k \in 1..n}

\* One file of the output directory adds the token that it holds.
LEMMA LoadedOne ==
  ASSUME NEW files \in Seq(FoundTokens), NEW n \in 1..Len(files), Len(files) <= MAX_AUTO_EXTRAS,
         \A i, j \in DOMAIN files : i # j => ~memcmp_nocase(files[i], files[j]),
         NEW table, LoadedTable(table, files, n - 1), NEW r \in Added(table, files[n], TRUE)
  PROVE  LoadedTable(r, files, n)
<1>1. /\ DOMAIN files = 1..Len(files) /\ Len(files) \in Nat /\ files[n] \in FoundTokens
      /\ MAX_AUTO_EXTRAS \in Nat
  BY DictionaryAssumption
<1>2. table \in Seq(Entry) /\ Len(table) = n - 1 /\ Distinct(table)
  BY DEF LoadedTable
<1>3. ASSUME NEW j \in DOMAIN table PROVE ~memcmp_nocase(table[j].tok, files[n])
  <2>1. table[j].tok \in TokensOf(table)
    BY DEF TokensOf
  <2>2. PICK k \in 1 .. n - 1 : table[j].tok = files[k]
    BY <2>1 DEF LoadedTable
  <2> QED BY <1>1, <2>2
<1>4. Len(table) < MAX_AUTO_EXTRAS /\ Len(table) <= MAX_AUTO_EXTRAS /\ TRUE \in BOOLEAN
  BY <1>1, <1>2
<1>5. GoodTable(r) /\ \A i \in DOMAIN r : Stems(r[i], table, files[n], TRUE)
  BY <1>1, <1>2, <1>4, AddedIs, Zenon
<1>6. Len(r) = n /\ TokensOf(r) = TokensOf(table) \cup {files[n]}
  <2>1. Len(r) = Len(table) + 1 /\ TokensOf(r) = TokensOf(table) \cup {files[n]}
    BY <1>1, <1>2, <1>3, <1>4, AppendedIs, Zenon
  <2> QED BY <1>1, <1>2, <2>1
<1>7. \A i \in DOMAIN r : r[i].early
  BY <1>5 DEF Stems, LoadedTable
<1>8. {files[k] : k \in 1..n} = {files[k] : k \in 1 .. n - 1} \cup {files[n]}
  OBVIOUS
<1> QED BY <1>5, <1>6, <1>7, <1>8 DEF GoodTable, LoadedTable

\* A resumed session has every token that was saved, and no other.
LEMMA LoadedIs ==
  ASSUME NEW files \in Seq(FoundTokens), Len(files) <= USE_AUTO_EXTRAS,
         \A i, j \in DOMAIN files : i # j => ~memcmp_nocase(files[i], files[j]),
         NEW table \in LoadedFrom(files)
  PROVE  /\ GoodTable(table) /\ \A i \in DOMAIN table : table[i].early
         /\ TokensOf(table) = ToSet(files)
<1>1. PICK g : Loading(g, files, Len(files)) /\ LoadedFrom(files) = g[Len(files)]
  BY LoadedFromIs
<1>2. Len(files) \in Nat /\ Len(files) <= MAX_AUTO_EXTRAS /\ DOMAIN files = 1..Len(files)
  BY DictionaryAssumption
<1>3. \A k \in 0..Len(files) : g[k] = IF k = 0 THEN {<<>>} ELSE AfterFile(files, k, g[k - 1])
  BY <1>1 DEF Loading
<1> DEFINE Wrong == {k \in 0..Len(files) : ~\A t \in g[k] : LoadedTable(t, files, k)}
<1>4. Wrong = {}
  <2>1. SUFFICES ASSUME Wrong # {} PROVE FALSE
    OBVIOUS
  <2>2. PICK k \in Wrong : \A i \in Wrong : k <= i
    <3>1. Wrong \in SUBSET Nat
      OBVIOUS
    <3> HIDE DEF Wrong
    <3> QED BY <2>1, <3>1, LeastMember
  <2>3. k # 0
    <3>1. Len(<<>>) = 0 /\ DOMAIN <<>> = {} /\ <<>> \in Seq(Entry)
      BY EmptySeq
    <3>2. \A i \in 1 .. 0 : FALSE
      OBVIOUS
    <3>3. Distinct(<<>>) /\ TokensOf(<<>>) = {} /\ {files[i] : i \in 1 .. 0} = {}
      BY <3>1, <3>2 DEF Distinct, TokensOf
    <3>4. TopSorted(<<>>)
      <4>1. Fewer(USE_AUTO_EXTRAS, 0) = 0
        BY DictionaryAssumption DEF Fewer
      <4> QED BY <3>1, <3>2, <4>1 DEF TopSorted
    <3>5. LoadedTable(<<>>, files, 0)
      BY <3>1, <3>3, <3>4 DEF LoadedTable
    <3>6. 0 \in 0..Len(files)
      BY <1>2
    <3>7. \A t \in g[0] : t = <<>>
      BY <1>3, <3>6
    <3> QED BY <2>2, <3>5, <3>7
  <2>4. k \in 1..Len(files) /\ k - 1 \in 0..Len(files) /\ k - 1 \notin Wrong
    <3>1. k \in 1..Len(files) /\ k - 1 \in 0..Len(files) /\ ~(k <= k - 1)
      BY <1>2, <2>2, <2>3
    <3> HIDE DEF Wrong
    <3> QED BY <2>2, <3>1
  <2>5. \A t \in g[k - 1] : LoadedTable(t, files, k - 1)
    BY <2>4
  <2>6. ASSUME NEW t \in g[k] PROVE LoadedTable(t, files, k)
    <3>1. k \in 0..Len(files)
      BY <2>2
    <3>2. PICK u \in g[k - 1] : t \in Added(u, files[k], TRUE)
      <4>1. g[k] = AfterFile(files, k, g[k - 1])
        BY <1>3, <2>3, <3>1
      <4> HIDE DEF Wrong
      <4>2. t \in AfterFile(files, k, g[k - 1])
        BY <4>1
      <4> QED BY <4>2 DEF AfterFile
    <3>3. LoadedTable(u, files, k - 1)
      BY <2>5
    <3> HIDE DEF Wrong
    <3> QED BY <1>2, <2>4, <3>2, <3>3, LoadedOne
  <2> QED BY <2>2, <2>6
<1>5. LoadedTable(table, files, Len(files))
  <2>1. Len(files) \in 0..Len(files)
    BY <1>2
  <2> QED BY <1>1, <1>4, <2>1
<1>6. {files[k] : k \in 1..Len(files)} = ToSet(files)
  BY <1>2 DEF ToSet
<1> QED BY <1>2, <1>5, <1>6 DEF LoadedTable, GoodTable

-----------------------------------------------------------------------------
(***************************************************************************)
(* The inductive invariant.                                                *)
(***************************************************************************)
LineTokens == {l.token : l \in DictLines}
UserTokens == FoundTokens \cup LineTokens
Lengthwise(ts) == \A i, j \in DOMAIN ts : i < j => ts[i].len <= ts[j].len

DictTypes ==
  /\ dictPhase \in {"start", "loaded", "fuzz", "dead"}
  /\ extras \in Seq(LineTokens) /\ Lengthwise(extras)
  /\ GoodTable(a_extras)
  /\ autoFiles \in Seq(FoundTokens) /\ Len(autoFiles) <= USE_AUTO_EXTRAS

SavedOnce == \A i, j \in DOMAIN autoFiles : i # j => ~memcmp_nocase(autoFiles[i], autoFiles[j])

(* Before the user's dictionary is read there is nothing of it, and every  *)
(* auto token is an early one.                                             *)
BeforeDictionary ==
  dictPhase # "fuzz" => extras = <<>> /\ \A i \in DOMAIN a_extras : a_extras[i].early

UserTokensOnce ==
  \A i \in DOMAIN a_extras : ~a_extras[i].early =>
    \A j \in DOMAIN extras : ~memcmp_nocase(extras[j], a_extras[i].tok)

DictInv == DictTypes /\ SavedOnce /\ BeforeDictionary /\ UserTokensOnce /\ RestartKeepsTokens

\* The table before any token.
LEMMA EmptyTable == GoodTable(<<>>) /\ DOMAIN <<>> = {} /\ \A E : <<>> \in Seq(E)
<1>1. Len(<<>>) = 0 /\ DOMAIN <<>> = {} /\ \A E : <<>> \in Seq(E)
  BY EmptySeq
<1>2. \A i \in 1 .. 0 : FALSE
  OBVIOUS
<1>3. Fewer(USE_AUTO_EXTRAS, 0) = 0 /\ 0 <= MAX_AUTO_EXTRAS
  BY DictionaryAssumption DEF Fewer
<1>4. TopSorted(<<>>)
  BY <1>1, <1>2, <1>3 DEF TopSorted
<1> QED BY <1>1, <1>3, <1>4 DEF GoodTable, Distinct

\* The invariant holds before any dictionary is read.
LEMMA DictInitInv == DictInit => DictInv
<1> SUFFICES ASSUME DictInit PROVE DictInv
  OBVIOUS
<1>1. Len(<<>>) = 0
  BY EmptySeq
<1> QED BY <1>1, EmptyTable, DictionaryAssumption
        DEF DictInit, DictInv, DictTypes, SavedOnce, BeforeDictionary, UserTokensOnce, RestartKeepsTokens,
            Lengthwise

(* A token that the sorted dictionary has is found in it. *)
LEMMA UnknownToken ==
  ASSUME extras \in Seq(LineTokens), Lengthwise(extras), NEW t \in FoundTokens, ~Known(t)
  PROVE  \A i \in DOMAIN extras : ~memcmp_nocase(extras[i], t)
<1>1. /\ DOMAIN extras = 1..Len(extras) /\ Len(extras) \in Nat
      /\ \A i \in DOMAIN extras : extras[i] \in LineTokens
  OBVIOUS
<1>2. t.len \in Int /\ \A i \in DOMAIN extras : extras[i].len \in Int
  <2>1. \A u \in LineTokens : u.len \in Nat
    BY DictionaryAssumption DEF LineTokens
  <2> QED BY <1>1, <2>1, DictionaryAssumption
<1>3. SUFFICES ASSUME NEW i \in DOMAIN extras, memcmp_nocase(extras[i], t) PROVE FALSE
  OBVIOUS
<1>4. extras[i].len = t.len
  BY <1>3 DEF memcmp_nocase
<1>5. ASSUME NEW j \in DOMAIN extras, j < i, extras[j].len >= t.len, NEW k \in j..i
      PROVE  extras[k].len = t.len
  <2>1. k \in DOMAIN extras /\ (k = j \/ j < k) /\ (k = i \/ k < i)
    BY <1>1, <1>5
  <2>2. extras[j].len <= extras[k].len /\ extras[k].len <= extras[i].len
    BY <1>2, <2>1 DEF Lengthwise
  <2> QED BY <1>2, <1>4, <1>5, <2>1, <2>2
<1>6. Known(t)
  BY <1>3, <1>5 DEF Known
<1> QED BY <1>6

(* The user's tokens, once they are sorted. *)
LEMMA ExtrasSorted ==
  ASSUME NEW T \in SUBSET LineTokens, NEW r \in ByLen(SetToSeq(T))
  PROVE  r \in Seq(LineTokens) /\ Lengthwise(r)
<1>1. IsFiniteSet(T)
  <2>1. IsFiniteSet(DictLines)
    BY DictionaryAssumption
  <2> DEFINE f == [l \in DictLines |-> l.token]
  <2>2. f \in Surjection(DictLines, LineTokens)
    <3>1. f \in [DictLines -> LineTokens] /\ \A u \in LineTokens : \E l \in DictLines : f[l] = u
      BY DEF LineTokens
    <3> HIDE DEF f
    <3> QED BY <3>1, Fun_IsSurj
  <2> HIDE DEF f
  <2>3. IsFiniteSet(LineTokens)
    BY <2>1, <2>2, FS_Surjection
  <2> QED BY <2>3, FS_Subset
<1> DEFINE n == Cardinality(T)
           s == SetToSeq(T)
<1>2. n \in Nat
  BY <1>1, FS_CardinalityType
<1>3. s \in [1..n -> T]
  <2>1. ExistsBijection(1..Cardinality(T), T)
    BY <1>1, FS_CardinalityType
  <2>2. PICK f : f \in Bijection(1..n, T)
    BY <2>1 DEF ExistsBijection
  <2>3. f \in [1..n -> T] /\ \A a, b \in 1..n : f[a] = f[b] => a = b
    <3>1. f \in Injection(1..n, T)
      BY <2>2, Fun_BijectionProperties
    <3> HIDE DEF n
    <3> QED BY <3>1, Fun_InjectionProperties
  <2>4. IsInjective(f)
    BY <2>3 DEF IsInjective
  <2> QED BY <2>3, <2>4 DEF SetToSeq
<1> HIDE DEF n, s
<1>4. s \in Seq(LineTokens)
  <2>1. s \in [1..n -> LineTokens]
    BY <1>3
  <2> QED BY <1>2, <2>1, IsASeq
<1>5. r \in Reordered(s) /\ \A i, j \in DOMAIN r : i < j => r[i].len <= r[j].len
  BY DEF ByLen, s
<1>6. r \in Seq(LineTokens)
  BY <1>4, <1>5, ReorderedIs
<1> QED BY <1>5, <1>6 DEF Lengthwise

-----------------------------------------------------------------------------
(***************************************************************************)
(* Its steps.                                                              *)
(***************************************************************************)
LEMMA LoadAutoStep == DictInv /\ LoadAuto => DictInv'
<1> SUFFICES ASSUME DictInv, LoadAuto PROVE DictInv'
  OBVIOUS
<1>1. /\ autoFiles \in Seq(FoundTokens) /\ Len(autoFiles) <= USE_AUTO_EXTRAS
      /\ \A i, j \in DOMAIN autoFiles : i # j => ~memcmp_nocase(autoFiles[i], autoFiles[j])
      /\ a_extras' \in LoadedFrom(autoFiles)
  BY DEF DictInv, DictTypes, SavedOnce, LoadAuto
<1>2. /\ GoodTable(a_extras') /\ \A i \in DOMAIN a_extras' : a_extras'[i].early
      /\ TokensOf(a_extras') = ToSet(autoFiles)
  BY <1>1, LoadedIs
<1>3. dictPhase' = "loaded" /\ extras' = extras /\ autoFiles' = autoFiles /\ extras = <<>>
  BY DEF DictInv, BeforeDictionary, LoadAuto
<1>4. DictTypes'
  BY <1>2, <1>3 DEF DictInv, DictTypes, Lengthwise
<1>5. SavedOnce' /\ BeforeDictionary' /\ UserTokensOnce'
  BY <1>2, <1>3 DEF DictInv, SavedOnce, BeforeDictionary, UserTokensOnce
<1>6. RestartKeepsTokens'
  BY <1>2, <1>3 DEF RestartKeepsTokens, TokensOf
<1> QED BY <1>4, <1>5, <1>6 DEF DictInv

\* load_extras, which ends in a sort.
LEMMA LoadedStep ==
  ASSUME DictInv, NEW used \in SUBSET DictLines, NEW bad, Loaded(used, bad)
  PROVE  DictInv'
<1>1. /\ dictPhase = "loaded" /\ a_extras' = a_extras /\ autoFiles' = autoFiles
      /\ extras = <<>> /\ \A i \in DOMAIN a_extras : a_extras[i].early
  BY DEF Loaded, DictInv, BeforeDictionary
<1>2. \/ dictPhase' = "dead" /\ extras' = extras
      \/ dictPhase' = "fuzz" /\ extras' \in ByLen(SetToSeq({l.token : l \in used}))
  BY DEF Loaded
<1>3. extras' \in Seq(LineTokens) /\ Lengthwise(extras')
  <2>1. CASE extras' = extras
    BY <2>1 DEF DictInv, DictTypes
  <2>2. CASE extras' \in ByLen(SetToSeq({l.token : l \in used}))
    <3> DEFINE T == {l.token : l \in used}
    <3>1. T \in SUBSET LineTokens
      BY DEF LineTokens
    <3> HIDE DEF T
    <3>2. extras' \in ByLen(SetToSeq(T))
      BY <2>2 DEF T
    <3> QED BY <3>1, <3>2, ExtrasSorted
  <2> QED BY <1>2, <2>1, <2>2
<1>4. DictTypes'
  BY <1>1, <1>2, <1>3 DEF DictInv, DictTypes, Lengthwise
<1>5. SavedOnce' /\ BeforeDictionary' /\ UserTokensOnce' /\ RestartKeepsTokens'
  BY <1>1, <1>2 DEF DictInv, SavedOnce, BeforeDictionary, UserTokensOnce, RestartKeepsTokens
<1> QED BY <1>4, <1>5 DEF DictInv

\* maybe_add_auto in the middle of fuzzing.
LEMMA AddStep ==
  ASSUME DictInv, NEW t \in FoundTokens, maybe_add_auto(t)
  PROVE  DictInv'
<1>1. /\ dictPhase = "fuzz" /\ dictPhase' = "fuzz" /\ extras' = extras /\ autoFiles' = autoFiles
      /\ ~Known(t) /\ a_extras' \in Added(a_extras, t, FALSE)
  BY DEF maybe_add_auto
<1>2. a_extras \in Seq(Entry) /\ Len(a_extras) <= MAX_AUTO_EXTRAS /\ Distinct(a_extras) /\ FALSE \in BOOLEAN
  BY DEF DictInv, DictTypes, GoodTable
<1>3. GoodTable(a_extras') /\ \A i \in DOMAIN a_extras' : Stems(a_extras'[i], a_extras, t, FALSE)
  BY <1>1, <1>2, AddedIs, Zenon
<1>4. extras \in Seq(LineTokens) /\ Lengthwise(extras)
  BY DEF DictInv, DictTypes
<1>5. \A j \in DOMAIN extras : ~memcmp_nocase(extras[j], t)
  BY <1>1, <1>4, UnknownToken
<1>6. UserTokensOnce'
  <2>1. ASSUME NEW i \in DOMAIN a_extras', ~a_extras'[i].early, NEW j \in DOMAIN extras
        PROVE  ~memcmp_nocase(extras[j], a_extras'[i].tok)
    <3>1. CASE \E k \in DOMAIN a_extras : a_extras'[i].tok = a_extras[k].tok /\ a_extras'[i].early = a_extras[k].early
      BY <2>1, <3>1, Zenon DEF DictInv, UserTokensOnce
    <3>2. CASE a_extras'[i].tok = t
      BY <1>5, <3>2
    <3> QED BY <1>3, <3>1, <3>2 DEF Stems
  <2> QED BY <1>1, <2>1 DEF UserTokensOnce
<1>7. DictTypes'
  BY <1>1, <1>3 DEF DictInv, DictTypes, Lengthwise
<1>8. SavedOnce' /\ BeforeDictionary' /\ RestartKeepsTokens'
  BY <1>1 DEF DictInv, SavedOnce, BeforeDictionary, RestartKeepsTokens
<1> QED BY <1>6, <1>7, <1>8 DEF DictInv

\* save_auto writes the tokens that are used.
LEMMA SaveStep == DictInv /\ save_auto => DictInv'
<1> SUFFICES ASSUME DictInv, save_auto PROVE DictInv'
  OBVIOUS
<1> DEFINE n == Fewer(USE_AUTO_EXTRAS, Len(a_extras))
<1>1. /\ dictPhase = "fuzz" /\ dictPhase' = "fuzz" /\ extras' = extras /\ a_extras' = a_extras
      /\ autoFiles' = [i \in 1..n |-> a_extras[i].tok]
  BY DEF save_auto
<1>2. /\ DOMAIN a_extras = 1..Len(a_extras) /\ Len(a_extras) \in Nat
      /\ \A i \in DOMAIN a_extras : a_extras[i].tok \in FoundTokens
  <2>1. a_extras \in Seq(Entry)
    BY DEF DictInv, DictTypes, GoodTable
  <2>2. /\ DOMAIN a_extras = 1..Len(a_extras) /\ Len(a_extras) \in Nat
        /\ \A i \in DOMAIN a_extras : a_extras[i] \in Entry
    BY <2>1
  <2> QED BY <2>2 DEF Entry
<1>3. n \in Nat /\ n <= USE_AUTO_EXTRAS /\ n <= Len(a_extras)
  BY <1>2, DictionaryAssumption DEF Fewer
<1> HIDE DEF n
<1>4. \A i \in 1..n : i \in DOMAIN a_extras /\ a_extras[i].tok \in FoundTokens
  BY <1>2, <1>3
<1>5. autoFiles' \in Seq(FoundTokens) /\ Len(autoFiles') = n
  <2>1. autoFiles' \in [1..n -> FoundTokens]
    BY <1>1, <1>4
  <2> QED BY <1>3, <2>1, IsASeq
<1>6. SavedOnce'
  <2>1. ASSUME NEW i \in 1..n, NEW j \in 1..n, i # j PROVE ~memcmp_nocase(autoFiles'[i], autoFiles'[j])
    <3>1. ~memcmp_nocase(a_extras[i].tok, a_extras[j].tok)
      BY <1>4, <2>1 DEF DictInv, DictTypes, GoodTable, Distinct
    <3> QED BY <1>1, <3>1
  <2> QED BY <1>1, <2>1 DEF SavedOnce
<1>7. DictTypes'
  BY <1>1, <1>3, <1>5 DEF DictInv, DictTypes, Lengthwise
<1>8. BeforeDictionary' /\ UserTokensOnce' /\ RestartKeepsTokens'
  BY <1>1 DEF DictInv, BeforeDictionary, UserTokensOnce, RestartKeepsTokens
<1> QED BY <1>6, <1>7, <1>8 DEF DictInv

\* Every step of the dictionaries keeps the invariant.
LEMMA DictStepInv == DictInv /\ [DictNext]_dictVars => DictInv'
<1> SUFFICES ASSUME DictInv, [DictNext]_dictVars PROVE DictInv'
  OBVIOUS
<1>1. CASE LoadAuto
  BY <1>1, LoadAutoStep
<1>2. CASE NoExtras
  BY <1>2 DEF NoExtras, DictInv, DictTypes, SavedOnce, BeforeDictionary, UserTokensOnce, RestartKeepsTokens,
              Lengthwise
<1>3. CASE save_auto
  BY <1>3, SaveStep
<1>4. CASE EndSession
  BY <1>4, EmptyTable
     DEF EndSession, DictInv, DictTypes, SavedOnce, BeforeDictionary, UserTokensOnce, RestartKeepsTokens,
         Lengthwise
<1>5. ASSUME NEW ls \in SUBSET DictLines, NEW lev \in {0, 1}, LoadExtras(ls, lev) PROVE DictInv'
  <2> DEFINE used == {l \in ls : l.kind = "token" /\ l.level <= lev}
             bad == \E l \in ls : l.kind = "malformed" \/ (l.kind = "long" /\ l.level <= lev)
  <2>1. used \in SUBSET DictLines /\ Loaded(used, bad)
    BY <1>5 DEF LoadExtras
  <2> HIDE DEF used, bad
  <2> QED BY <2>1, LoadedStep
<1>6. ASSUME NEW fs \in SUBSET DictLines, LoadExtrasDir(fs) PROVE DictInv'
  <2> DEFINE used == {f \in fs : f.kind = "token"}
             bad == \E f \in fs : f.kind = "long"
  <2>1. used \in SUBSET DictLines /\ Loaded(used, bad)
    BY <1>6 DEF LoadExtrasDir
  <2> HIDE DEF used, bad
  <2> QED BY <2>1, LoadedStep
<1>7. ASSUME NEW t \in FoundTokens, maybe_add_auto(t) PROVE DictInv'
  BY <1>7, AddStep
<1>8. CASE UNCHANGED dictVars
  BY <1>8 DEF dictVars, DictInv, DictTypes, SavedOnce, BeforeDictionary, UserTokensOnce, RestartKeepsTokens,
              Lengthwise
<1> QED BY <1>1, <1>2, <1>3, <1>4, <1>5, <1>6, <1>7, <1>8 DEF DictNext

\* The invariant is strong enough.
LEMMA DictInvEnough == DictInv => DictionaryRight
<1> SUFFICES ASSUME DictInv PROVE DictionaryRight
  OBVIOUS
<1>1. TopSorted(a_extras) /\ Distinct(a_extras) /\ UserTokensOnce /\ RestartKeepsTokens
  BY DEF DictInv, DictTypes, GoodTable
<1>2. AutoTableRight
  BY <1>1 DEF AutoTableRight, TopSorted, Distinct, UserTokensOnce
<1> QED BY <1>1, <1>2 DEF DictionaryRight

(* However many tokens there are and in whatever order they are found, hit, *)
(* saved and loaded again: both tables are sorted as their users need it,  *)
(* hold no token twice, and a resumed session has the tokens that were saved *)
(* (src/afl-fuzz.c:1862-2300).                                             *)
THEOREM DictionaryRightHolds == DictSpec => []DictionaryRight
<1>1. DictInit => DictInv
  BY DictInitInv
<1>2. DictInv /\ [DictNext]_dictVars => DictInv'
  BY DictStepInv
<1>3. DictInv => DictionaryRight
  BY DictInvEnough
<1> QED BY <1>1, <1>2, <1>3, PTL DEF DictSpec

-----------------------------------------------------------------------------
(***************************************************************************)
(* The seed queue.                                                         *)
(***************************************************************************)

-----------------------------------------------------------------------------
(***************************************************************************)
(* The list: each entry once, in descending order of score.                *)
(***************************************************************************)
OneEach(list, T) ==
  /\ list \in Seq(Entries) /\ ToSet(list) = T
  /\ \A i, j \in DOMAIN list : list[i] = list[j] => i = j
Descending(list, score) == \A i, j \in DOMAIN list : i < j => score[list[i]] >= score[list[j]]
ShortcutsOf(sc, list) ==
  /\ sc \in [0 .. Slots - 1 -> Entries \cup {NULL}]
  /\ \A k \in 0 .. Slots - 1 : k * Stride < Len(list) => sc[k] = list[k * Stride + 1]

\* What the assumption on the constants says of entries and scores.
LEMMA Bounds ==
  /\ MaxEntries \in Nat \ {0} /\ MaxScore \in Nat /\ MaxCycles \in Nat
  /\ Stride \in Nat \ {0} /\ Slots \in Nat \ {0}
  /\ NULL \notin Entries /\ Entries \subseteq Nat /\ Scores \subseteq Nat /\ 0 \in 0 .. Slots - 1
BY SeedQueueAssumption DEF NULL, Entries, Scores

(* The first entry that is still to do. *)
LEMMA FirstIs ==
  ASSUME NEW list \in Seq(Entries), NEW done
  PROVE  \/ FirstOf(list, done) = NULL /\ \A k \in DOMAIN list : list[k] \in done
         \/ \E k \in DOMAIN list : /\ FirstOf(list, done) = list[k] /\ list[k] \notin done
                                   /\ \A j \in DOMAIN list : j < k => list[j] \in done
<1> DEFINE todo == {k \in 1 .. Len(list) : list[k] \notin done}
           first == CHOOSE k \in todo : \A j \in todo : k <= j
<1>1. DOMAIN list = 1 .. Len(list)
  OBVIOUS
<1>2. CASE todo = {}
  BY <1>1, <1>2 DEF FirstOf
<1>3. CASE todo # {}
  <2>1. FirstOf(list, done) = list[first]
    BY <1>3 DEF FirstOf
  <2>2. first \in todo /\ \A j \in todo : first <= j
    <3>1. todo \in SUBSET Nat
      OBVIOUS
    <3> HIDE DEF todo
    <3>2. \E k \in todo : \A j \in todo : k <= j
      BY <1>3, <3>1, LeastMember
    <3> QED BY <3>2
  <2> HIDE DEF first
  <2>3. ASSUME NEW j \in DOMAIN list, j < first PROVE list[j] \in done
    <3>1. j \in Nat /\ first \in Nat /\ ~(first <= j)
      BY <1>1, <2>2, <2>3
    <3>2. j \notin todo
      BY <2>2, <3>1
    <3> QED BY <1>1, <3>2
  <2> QED BY <1>1, <2>1, <2>2, <2>3
<1> QED BY <1>2, <1>3

(* The place of an entry: behind those of at least its score that lead the *)
(* list, and before one of a lower score.                                  *)
LEMMA PlaceIs ==
  ASSUME NEW list \in Seq(Entries), list # <<>>, NEW score \in [Entries -> Scores], NEW q \in Entries
  PROVE  LET p == PlaceFor(list, score, q)
         IN /\ p \in 0 .. Len(list)
            /\ \A k \in 1..p : score[list[k]] >= score[q]
            /\ p < Len(list) => score[list[p + 1]] < score[q]
<1> DEFINE p == PlaceFor(list, score, q)
           n == Len(list)
           Here(k) == k = n \/ score[list[k + 1]] < score[q]
           Right(k) == Here(k) /\ \A j \in 1 .. k - 1 : score[list[j + 1]] >= score[q]
<1>1. n \in Nat \ {0} /\ DOMAIN list = 1..n
  BY EmptySeq
<1>2. score[q] \in Nat /\ \A k \in 1..n : score[list[k]] \in Nat
  <2>1. \A k \in 1..n : list[k] \in Entries
    BY <1>1
  <2> QED BY <2>1, Bounds
<1>3. CASE score[list[1]] < score[q]
  <2>1. p = 0
    BY <1>3 DEF PlaceFor
  <2> QED BY <1>1, <1>3, <2>1
<1>4. CASE ~(score[list[1]] < score[q])
  <2>1. p = CHOOSE k \in 1..n : Right(k)
    BY <1>4 DEF PlaceFor
  <2>2. \E k \in 1..n : Right(k)
    <3> DEFINE T == {k \in 1..n : Here(k)}
    <3>1. T \in SUBSET Nat /\ T # {}
      <4>1. n \in T
        BY <1>1
      <4> QED BY <4>1
    <3>2. PICK k \in T : \A j \in T : k <= j
      <4> HIDE DEF T
      <4> QED BY <3>1, LeastMember
    <3>3. ASSUME NEW j \in 1 .. k - 1 PROVE score[list[j + 1]] >= score[q]
      <4>0. k \in 1..n
        BY <3>2
      <4>1. j \in 1..n /\ j + 1 \in 1..n /\ ~(k <= j)
        <5> HIDE DEF T, n
        <5> QED BY <1>1, <4>0
      <4>2. j \notin T
        <5> HIDE DEF T
        <5> QED BY <3>2, <4>1
      <4> QED BY <1>2, <4>1, <4>2
    <3> QED BY <3>2, <3>3
  <2>3. p \in 1..n /\ Right(p)
    <3> HIDE DEF Right
    <3> QED BY <2>1, <2>2
  <2> HIDE DEF p
  <2>4. ASSUME NEW k \in 1..p PROVE score[list[k]] >= score[q]
    <3>1. CASE k = 1
      <4>1. 1 \in 1..n
        BY <1>1
      <4> QED BY <1>2, <1>4, <3>1, <4>1
    <3>2. CASE k # 1
      <4>1. k - 1 \in 1 .. p - 1 /\ (k - 1) + 1 = k
        BY <2>3, <3>2
      <4>2. score[list[(k - 1) + 1]] >= score[q]
        BY <2>3, <4>1
      <4> QED BY <4>1, <4>2
    <3> QED BY <3>1, <3>2
  <2>5. p < n => score[list[p + 1]] < score[q]
    <3>1. Here(p)
      BY <2>3
    <3>2. p < n => p # n
      <4> HIDE DEF n, Right
      <4> QED BY <1>1, <2>3
    <3> QED BY <3>1, <3>2
  <2> QED BY <1>1, <2>3, <2>4, <2>5 DEF p
<1> QED BY <1>3, <1>4

BehindPlace(new, list, q, p) ==
  \A k \in 1 .. Len(list) + 1 :
    new[k] = IF k <= p THEN list[k] ELSE IF k = p + 1 THEN q ELSE list[k - 1]

\* Inserting one entry moves those behind its place by one.
LEMMA InsertedIs ==
  ASSUME NEW T, NEW list, OneEach(list, T), NEW q \in Entries, q \notin T, NEW p \in 0 .. Len(list)
  PROVE  LET new == InsertAt(list, p + 1, q)
         IN OneEach(new, T \cup {q}) /\ Len(new) = Len(list) + 1 /\ BehindPlace(new, list, q, p)
<1> DEFINE new == InsertAt(list, p + 1, q)
           n == Len(list)
           a == SubSeq(list, 1, p)
           b == SubSeq(list, p + 1, n)
<1>1. list \in Seq(Entries) /\ n \in Nat /\ DOMAIN list = 1..n /\ ToSet(list) = T
  BY DEF OneEach
<1>2. a \in Seq(Entries) /\ Len(a) = p /\ \A k \in 1..p : a[k] = list[k]
  <2>1. 1 \in 1 .. n + 1 /\ p \in 1 - 1 .. n
    BY <1>1
  <2> QED BY <1>1, <2>1, SubSeqProperties
<1>3. b \in Seq(Entries) /\ Len(b) = n - p /\ \A k \in 1 .. n - p : b[k] = list[p + k]
  <2>1. p + 1 \in 1 .. n + 1 /\ n \in (p + 1) - 1 .. n
    BY <1>1
  <2>2. b \in Seq(Entries) /\ Len(b) = IF p + 1 <= n THEN n - (p + 1) + 1 ELSE 0
    BY <1>1, <2>1, SubSeqProperties
  <2>3. \A k \in 1 .. n - p : b[k] = list[p + k]
    BY <1>1
  <2>4. (IF p + 1 <= n THEN n - (p + 1) + 1 ELSE 0) = n - p
    <3>1. p \in Nat /\ p <= n
      BY <1>1
    <3> HIDE DEF n
    <3> QED BY <1>1, <3>1
  <2> HIDE DEF b, n
  <2> QED BY <2>2, <2>3, <2>4
<1>4. new = a \o <<q>> \o b
  <2>1. (p + 1) - 1 = p
    OBVIOUS
  <2> QED BY <2>1 DEF InsertAt
<1>5. p \in Nat /\ p <= n
  BY <1>1
<1> HIDE DEF new, a, b, n
<1> DEFINE c == a \o <<q>>
<1>6. c \in Seq(Entries) /\ Len(c) = p + 1 /\ c[p + 1] = q /\ \A k \in 1..p : c[k] = list[k]
  <2>1. <<q>> \in Seq(Entries) /\ Len(<<q>>) = 1 /\ <<q>>[1] = q
    OBVIOUS
  <2>2. c \in Seq(Entries) /\ Len(c) = p + 1
    BY <1>2, <1>5, <2>1, ConcatProperties
  <2>3. c[p + 1] = q /\ \A k \in 1..p : c[k] = a[k]
    BY <1>2, <1>5, <2>1
  <2> QED BY <1>2, <2>2, <2>3
<1> HIDE DEF c
<1>7. new \in Seq(Entries) /\ Len(new) = n + 1 /\ DOMAIN new = 1 .. n + 1
  <2>0. new = c \o b
    BY <1>4 DEF c
  <2>1. new \in Seq(Entries) /\ Len(new) = (p + 1) + (n - p)
    <3>1. c \o b \in Seq(Entries) /\ Len(c \o b) = Len(c) + Len(b)
      BY <1>3, <1>6, ConcatProperties
    <3> QED BY <1>3, <1>6, <2>0, <3>1
  <2>2. (p + 1) + (n - p) = n + 1
    BY <1>1, <1>5
  <2> QED BY <2>1, <2>2
<1>8. ASSUME NEW k \in 1 .. n + 1
      PROVE  new[k] = IF k <= p THEN list[k] ELSE IF k = p + 1 THEN q ELSE list[k - 1]
  <2>1. new = c \o b
    BY <1>4 DEF c
  <2>2. CASE k <= p + 1
    <3>1. new[k] = c[k]
      BY <1>1, <1>3, <1>5, <1>6, <2>1, <2>2
    <3> QED BY <1>5, <1>6, <2>2, <3>1
  <2>3. CASE ~(k <= p + 1)
    <3>1. k - (p + 1) \in 1 .. n - p /\ p + (k - (p + 1)) = k - 1 /\ k \in 1 .. (p + 1) + (n - p)
      BY <1>1, <1>5, <2>3
    <3>2. new[k] = b[k - (p + 1)]
      BY <1>1, <1>3, <1>5, <1>6, <2>1, <2>3, <3>1
    <3> QED BY <1>3, <1>5, <2>3, <3>1, <3>2
  <2> QED BY <2>2, <2>3
<1>9. \A k \in 1..n : list[k] \in T /\ list[k] # q
  BY <1>1 DEF ToSet
<1>10. ASSUME NEW i \in 1 .. n + 1, NEW j \in 1 .. n + 1, new[i] = new[j] PROVE i = j
  <2>1. \A k \in 1 .. n + 1 : (k <= p => k \in 1..n) /\ (~(k <= p) /\ k # p + 1 => k - 1 \in 1..n)
    BY <1>1, <1>5
  <2>2. \A k, m \in 1..n : list[k] = list[m] => k = m
    BY <1>1 DEF OneEach
  <2>3. CASE i <= p
    BY <1>5, <1>8, <1>9, <1>10, <2>1, <2>2, <2>3
  <2>4. CASE i = p + 1
    BY <1>5, <1>8, <1>9, <1>10, <2>1, <2>2, <2>4
  <2>5. CASE ~(i <= p) /\ i # p + 1
    BY <1>5, <1>8, <1>9, <1>10, <2>1, <2>2, <2>5
  <2> QED BY <2>3, <2>4, <2>5
<1>11. ToSet(new) = T \cup {q}
  <2>1. ASSUME NEW k \in 1 .. n + 1 PROVE new[k] \in T \cup {q}
    <3>1. (k <= p => k \in 1..n) /\ (~(k <= p) /\ k # p + 1 => k - 1 \in 1..n)
      BY <1>1, <1>5
    <3> QED BY <1>8, <1>9, <3>1
  <2>2. ASSUME NEW e \in T PROVE \E k \in 1 .. n + 1 : new[k] = e
    <3>1. PICK j \in 1..n : e = list[j]
      BY <1>1 DEF ToSet
    <3>2. CASE j <= p
      <4>1. j \in 1 .. n + 1
        BY <1>1
      <4> QED BY <1>8, <3>1, <3>2, <4>1
    <3>3. CASE ~(j <= p)
      <4>1. j + 1 \in 1 .. n + 1 /\ ~(j + 1 <= p) /\ j + 1 # p + 1 /\ (j + 1) - 1 = j
        BY <1>1, <1>5, <3>3
      <4>2. new[j + 1] = list[(j + 1) - 1]
        BY <1>8, <4>1
      <4> QED BY <3>1, <4>1, <4>2
    <3> QED BY <3>2, <3>3
  <2>3. p + 1 \in 1 .. n + 1 /\ new[p + 1] = q
    <3>1. p + 1 \in 1 .. n + 1 /\ ~(p + 1 <= p)
      BY <1>1, <1>5
    <3> QED BY <1>8, <3>1
  <2>4. ToSet(new) = {new[k] : k \in 1 .. n + 1}
    BY <1>7 DEF ToSet
  <2> QED BY <2>1, <2>2, <2>3, <2>4
<1>12. OneEach(new, T \cup {q})
  BY <1>7, <1>10, <1>11 DEF OneEach
<1> QED BY <1>7, <1>8, <1>12 DEF new, n, BehindPlace

\* Distances between shortcuts.
LEMMA OneByOne ==
  ASSUME NEW k \in Nat
  PROVE  k * Stride \in Nat /\ (k # 0 => k * Stride >= Stride)
<1>1. Stride \in Nat /\ k * Stride \in Nat
  BY Bounds
<1>2. ASSUME k # 0 PROVE k * Stride >= Stride
  <2>1. PICK j \in Nat : k = j + 1
    <3>1. k - 1 \in Nat /\ k = (k - 1) + 1
      BY <1>2
    <3> QED BY <3>1
  <2>2. k * Stride = j * Stride + Stride /\ j * Stride \in Nat
    BY <1>1, <2>1
  <2> QED BY <1>1, <2>2
<1> QED BY <1>1, <1>2

(* sorted_insert_to_queue. *)
InsertedState(st, new, q, T, score, done) ==
  /\ OneEach(new[1], T \cup {q}) /\ Len(new[1]) = Len(st[1]) + 1 /\ ShortcutsOf(new[3], new[1])
  /\ Descending(st[1], score) => Descending(new[1], score)
  /\ new[2] = IF st[1] = <<>> THEN st[2] ELSE FirstOf(new[1], done)

\* One insertion into a list that has its shortcuts.
LEMMA SortedInsertIs ==
  ASSUME NEW st, NEW T, OneEach(st[1], T), ShortcutsOf(st[3], st[1]),
         NEW q \in Entries, q \notin T, NEW score \in [Entries -> Scores], NEW done
  PROVE  InsertedState(st, SortedInsert(st, q, score, done), q, T, score, done)
<1> DEFINE new == SortedInsert(st, q, score, done)
           list == st[1]
<1>1. list \in Seq(Entries) /\ Len(list) \in Nat /\ DOMAIN list = 1 .. Len(list)
  BY DEF OneEach
<1>2. CASE list = <<>>
  <2>1. new = <<<<q>>, st[2], [st[3] EXCEPT ![0] = q]>>
    BY <1>2 DEF SortedInsert
  <2>2. new[1] = <<q>> /\ new[2] = st[2] /\ new[3] = [st[3] EXCEPT ![0] = q]
    BY <2>1
  <2>3. /\ <<q>> \in Seq(Entries) /\ Len(<<q>>) = 1 /\ DOMAIN <<q>> = 1..1 /\ <<q>>[1] = q
    OBVIOUS
  <2>4. \A k \in 1..1 : k = 1
    OBVIOUS
  <2>5. T = {}
    <3>1. DOMAIN <<>> = {}
      OBVIOUS
    <3> QED BY <1>2, <3>1 DEF OneEach, ToSet
  <2>6. OneEach(new[1], T \cup {q})
    <3>1. ToSet(<<q>>) = {q}
      BY <2>3 DEF ToSet
    <3> QED BY <2>2, <2>3, <2>4, <2>5, <3>1 DEF OneEach
  <2>7. Descending(new[1], score)
    <3>1. \A i, j \in 1..1 : ~(i < j)
      OBVIOUS
    <3> QED BY <2>2, <2>3, <3>1 DEF Descending
  <2>8. ShortcutsOf(new[3], new[1])
    <3>1. st[3] \in [0 .. Slots - 1 -> Entries \cup {NULL}] /\ 0 \in 0 .. Slots - 1
      BY Bounds DEF ShortcutsOf
    <3>2. ASSUME NEW k \in 0 .. Slots - 1, k * Stride < 1 PROVE k = 0
      BY <3>2, OneByOne, Bounds
    <3>3. 0 * Stride + 1 = 1
      BY Bounds
    <3>4. \A k \in 0 .. Slots - 1 : k * Stride < 1 => new[3][k] = <<q>>[k * Stride + 1]
      BY <2>2, <2>3, <3>1, <3>2, <3>3
    <3>5. new[3] \in [0 .. Slots - 1 -> Entries \cup {NULL}]
      BY <2>2, <3>1
    <3> QED BY <2>2, <2>3, <3>4, <3>5 DEF ShortcutsOf
  <2>9. Len(new[1]) = Len(list) + 1
    <3>1. Len(<<>>) = 0
      OBVIOUS
    <3> QED BY <1>2, <2>2, <2>3, <3>1
  <2> QED BY <1>2, <2>2, <2>6, <2>7, <2>8, <2>9 DEF InsertedState
<1>3. CASE list # <<>>
  <2> DEFINE p == PlaceFor(list, score, q)
             l2 == InsertAt(list, p + 1, q)
  <2>1. new = <<l2, FirstOf(l2, done), Shortcuts(l2, st[3])>>
    BY <1>3 DEF SortedInsert
  <2>2. new[1] = l2 /\ new[2] = FirstOf(l2, done) /\ new[3] = Shortcuts(l2, st[3])
    BY <2>1
  <2>3. /\ p \in 0 .. Len(list) /\ \A k \in 1..p : score[list[k]] >= score[q]
        /\ p < Len(list) => score[list[p + 1]] < score[q]
    BY <1>1, <1>3, PlaceIs
  <2> HIDE DEF p
  <2>4. /\ OneEach(l2, T \cup {q}) /\ Len(l2) = Len(list) + 1
        /\ \A k \in 1 .. Len(list) + 1 :
             l2[k] = IF k <= p THEN list[k] ELSE IF k = p + 1 THEN q ELSE list[k - 1]
    <3>1. OneEach(list, T) /\ p \in 0 .. Len(list)
      BY <2>3
    <3> HIDE DEF list
    <3>2. OneEach(InsertAt(list, p + 1, q), T \cup {q})
      BY <3>1, InsertedIs
    <3>3. Len(InsertAt(list, p + 1, q)) = Len(list) + 1
      BY <3>1, InsertedIs
    <3>4. BehindPlace(InsertAt(list, p + 1, q), list, q, p)
      BY <3>1, InsertedIs
    <3> QED BY <3>2, <3>3, <3>4 DEF BehindPlace
  <2> HIDE DEF l2
  <2>5. l2 \in Seq(Entries) /\ DOMAIN l2 = 1 .. Len(l2) /\ Len(l2) \in Nat /\ \A k \in 1 .. Len(l2) : l2[k] \in Entries
    BY <2>4 DEF OneEach
  <2>6. ShortcutsOf(Shortcuts(l2, st[3]), l2)
    <3>1. ASSUME NEW k \in 0 .. Slots - 1, k * Stride < Len(l2) PROVE l2[k * Stride + 1] \in Entries
      <4>1. k * Stride \in Nat
        BY OneByOne
      <4>2. k * Stride + 1 \in 1 .. Len(l2)
        BY <2>5, <3>1, <4>1
      <4> QED BY <2>5, <4>2
    <3>2. st[3] \in [0 .. Slots - 1 -> Entries \cup {NULL}]
      BY DEF ShortcutsOf
    <3> QED BY <3>1, <3>2 DEF ShortcutsOf, Shortcuts
  <2>7. ASSUME Descending(list, score) PROVE Descending(l2, score)
    <3> DEFINE w(e) == score[e]
    <3>1. w(q) \in Nat /\ \A k \in DOMAIN list : w(list[k]) \in Nat
      <4>1. \A e \in Entries : w(e) \in Nat
        BY Bounds
      <4>2. \A k \in DOMAIN list : list[k] \in Entries
        BY <1>1
      <4> QED BY <4>1, <4>2
    <3>2. ASSUME NEW k \in DOMAIN list, k > p PROVE w(list[k]) < w(q)
      <4>1. p + 1 \in DOMAIN list /\ p < Len(list) /\ (k = p + 1 \/ p + 1 < k)
        BY <1>1, <2>3, <3>2
      <4>2. w(list[p + 1]) >= w(list[k])
        <5>1. CASE k = p + 1
          BY <3>1, <4>1, <5>1
        <5>2. CASE p + 1 < k
          BY <2>7, <4>1, <5>2 DEF Descending
        <5> QED BY <4>1, <5>1, <5>2
      <4> QED BY <2>3, <3>1, <4>1, <4>2
    <3>3. \A k \in 1..p : k \in DOMAIN list /\ w(list[k]) >= w(q)
      BY <1>1, <2>3
    <3> HIDE DEF w
    <3>4. ASSUME NEW i \in DOMAIN l2, NEW j \in DOMAIN l2, i < j PROVE w(l2[i]) >= w(l2[j])
      <4>1. i \in 1 .. Len(list) + 1 /\ j \in 1 .. Len(list) + 1 /\ i \in Nat /\ j \in Nat /\ p \in Nat
        BY <1>1, <2>3, <2>4, <2>5
      <4>2. CASE j <= p
        <5>1. l2[i] = list[i] /\ l2[j] = list[j] /\ i \in DOMAIN list /\ j \in DOMAIN list
          BY <1>1, <2>3, <2>4, <3>4, <4>1, <4>2
        <5> QED BY <2>7, <3>4, <5>1 DEF Descending, w
      <4>3. CASE i <= p /\ j = p + 1
        <5>1. l2[i] = list[i] /\ l2[j] = q /\ i \in 1..p
          BY <2>4, <3>4, <4>1, <4>3
        <5> QED BY <3>3, <5>1
      <4>4. CASE i <= p /\ j > p + 1
        <5>1. l2[i] = list[i] /\ l2[j] = list[j - 1] /\ i \in 1..p /\ j - 1 \in DOMAIN list /\ i < j - 1
          BY <1>1, <2>4, <3>4, <4>1, <4>4
        <5>2. i \in DOMAIN list
          BY <3>3, <5>1
        <5> QED BY <2>7, <5>1, <5>2 DEF Descending, w
      <4>5. CASE i = p + 1
        <5>1. l2[i] = q /\ l2[j] = list[j - 1] /\ j - 1 \in DOMAIN list /\ j - 1 > p
          BY <1>1, <2>4, <3>4, <4>1, <4>5
        <5> QED BY <3>1, <3>2, <5>1
      <4>6. CASE i > p + 1
        <5>1. /\ l2[i] = list[i - 1] /\ l2[j] = list[j - 1] /\ j - 1 \in DOMAIN list /\ i - 1 \in DOMAIN list
              /\ i - 1 < j - 1
          BY <1>1, <2>4, <3>4, <4>1, <4>6
        <5> QED BY <2>7, <5>1 DEF Descending, w
      <4> QED BY <3>4, <4>1, <4>2, <4>3, <4>4, <4>5, <4>6
    <3> QED BY <3>4 DEF Descending, w
  <2> QED BY <1>3, <2>2, <2>4, <2>6, <2>7 DEF InsertedState
<1> QED BY <1>2, <1>3

-----------------------------------------------------------------------------
(***************************************************************************)
(* sort_queue: the states of the list while entries are inserted again.    *)
(***************************************************************************)
Emptied(st) == <<<<>>, st[2], [k \in 0 .. Slots - 1 |-> NULL]>>
Sorting(g, st, score, done, n) ==
  g = [k \in 0..n |-> IF k = 0 THEN Emptied(st) ELSE SortedInsert(g[k - 1], st[1][k], score, done)]

\* Taking one entry more.
LEMMA SortingExtends ==
  ASSUME NEW st, NEW score, NEW done, NEW n \in Nat, NEW f, Sorting(f, st, score, done, n)
  PROVE  \E g : Sorting(g, st, score, done, n + 1)
<1> DEFINE g == [k \in 0 .. n + 1 |->
                   IF k = 0 THEN Emptied(st) ELSE SortedInsert(f[k - 1], st[1][k], score, done)]
<1>1. ASSUME NEW k \in 0..n PROVE g[k] = f[k]
  <2>1. k \in 0 .. n + 1
    OBVIOUS
  <2>2. f[k] = IF k = 0 THEN Emptied(st) ELSE SortedInsert(f[k - 1], st[1][k], score, done)
    BY Zenon DEF Sorting
  <2> QED BY <2>1, <2>2
<1>2. ASSUME NEW k \in 0 .. n + 1, k # 0
      PROVE  SortedInsert(f[k - 1], st[1][k], score, done) = SortedInsert(g[k - 1], st[1][k], score, done)
  <2>1. k - 1 \in 0..n
    BY <1>2
  <2> HIDE DEF g
  <2> QED BY <1>1, <2>1
<1>3. g = [k \in 0 .. n + 1 |->
             IF k = 0 THEN Emptied(st) ELSE SortedInsert(g[k - 1], st[1][k], score, done)]
  BY <1>2
<1> HIDE DEF g
<1> QED BY <1>3 DEF Sorting

\* Any number of entries can be taken.
LEMMA SortingExists ==
  ASSUME NEW st, NEW score, NEW done, NEW n \in Nat
  PROVE  \E g : Sorting(g, st, score, done, n)
<1> DEFINE None == {j \in Nat : ~\E g : Sorting(g, st, score, done, j)}
<1>1. SUFFICES ASSUME None # {} PROVE FALSE
  OBVIOUS
<1>2. PICK j \in None : \A i \in None : j <= i
  <2>1. None \in SUBSET Nat
    OBVIOUS
  <2> HIDE DEF None
  <2> QED BY <1>1, <2>1, LeastMember
<1>3. j # 0
  <2> DEFINE g == [k \in 0..0 |-> Emptied(st)]
  <2>1. g = [k \in 0..0 |-> IF k = 0 THEN Emptied(st) ELSE SortedInsert(g[k - 1], st[1][k], score, done)]
    OBVIOUS
  <2> HIDE DEF g
  <2>2. Sorting(g, st, score, done, 0)
    BY <2>1 DEF Sorting
  <2> QED BY <1>2, <2>2
<1>4. j - 1 \in Nat /\ ~(j - 1 \in None) /\ (j - 1) + 1 = j
  <2>1. j - 1 \in Nat /\ ~(j <= j - 1) /\ (j - 1) + 1 = j
    BY <1>2, <1>3
  <2> HIDE DEF None
  <2> QED BY <1>2, <2>1
<1>5. PICK f : Sorting(f, st, score, done, j - 1)
  BY <1>4
<1> QED BY <1>2, <1>4, <1>5, SortingExtends

\* What the recursion of SortQueue computes is such a sorting.
LEMMA SortQueueUnfolds ==
  ASSUME NEW st, Len(st[1]) \in Nat, NEW score, NEW done
  PROVE  \E g : Sorting(g, st, score, done, Len(st[1])) /\ SortQueue(st, score, done) = g[Len(st[1])]
<1> DEFINE f == CHOOSE g : Sorting(g, st, score, done, Len(st[1]))
<1>1. Sorting(f, st, score, done, Len(st[1]))
  BY SortingExists
<1>2. SortQueue(st, score, done) = f[Len(st[1])]
  BY DEF SortQueue, Sorting, Emptied
<1> HIDE DEF f
<1> QED BY <1>1, <1>2

(* After the first n entries. *)
SortedUpTo(st, new, score, done, n) ==
  /\ OneEach(new[1], {st[1][k] : k \in 1..n}) /\ Len(new[1]) = n
  /\ Descending(new[1], score) /\ ShortcutsOf(new[3], new[1])
  /\ n <= 1 => new[2] = st[2]
  /\ n > 1 => new[2] = FirstOf(new[1], done)

\* Before the first entry.
LEMMA SortedNothing ==
  ASSUME NEW st, NEW score, NEW done
  PROVE  SortedUpTo(st, Emptied(st), score, done, 0)
<1> DEFINE sc == [k \in 0 .. Slots - 1 |-> NULL]
<1>1. Emptied(st)[1] = <<>> /\ Emptied(st)[2] = st[2] /\ Emptied(st)[3] = sc
  BY DEF Emptied
<1>2. <<>> \in Seq(Entries) /\ Len(<<>>) = 0 /\ DOMAIN <<>> = {}
  OBVIOUS
<1>3. {st[1][k] : k \in 1..0} = {} /\ ToSet(<<>>) = {}
  <2>1. \A k \in 1..0 : FALSE
    OBVIOUS
  <2> QED BY <1>2, <2>1 DEF ToSet
<1>4. OneEach(<<>>, {st[1][k] : k \in 1..0}) /\ Descending(<<>>, score)
  BY <1>2, <1>3 DEF OneEach, Descending
<1>5. sc \in [0 .. Slots - 1 -> Entries \cup {NULL}]
  OBVIOUS
<1> HIDE DEF sc
<1>6. \A k \in 0 .. Slots - 1 : ~(k * Stride < 0)
  <2>1. \A k \in 0 .. Slots - 1 : k \in Nat
    BY Bounds
  <2> QED BY <2>1, OneByOne
<1>7. ShortcutsOf(sc, <<>>)
  BY <1>2, <1>5, <1>6 DEF ShortcutsOf
<1> QED BY <1>1, <1>2, <1>4, <1>7 DEF SortedUpTo

\* One entry more, at its place.
LEMMA SortedOneMore ==
  ASSUME NEW st, NEW U, OneEach(st[1], U), NEW score \in [Entries -> Scores], NEW done,
         NEW n \in 1 .. Len(st[1]), NEW old, SortedUpTo(st, old, score, done, n - 1)
  PROVE  SortedUpTo(st, SortedInsert(old, st[1][n], score, done), score, done, n)
<1> DEFINE q == st[1][n]
           T == {st[1][k] : k \in 1 .. n - 1}
           new == SortedInsert(old, q, score, done)
<1>1. st[1] \in Seq(Entries) /\ DOMAIN st[1] = 1 .. Len(st[1]) /\ Len(st[1]) \in Nat
  BY DEF OneEach
<1>2. q \in Entries
  BY <1>1
<1>3. q \notin T
  <2>1. ASSUME NEW k \in 1 .. n - 1 PROVE st[1][k] # q
    BY <1>1 DEF OneEach
  <2> QED BY <2>1
<1>4. {st[1][k] : k \in 1..n} = T \cup {q}
  OBVIOUS
<1>5. OneEach(old[1], T) /\ Len(old[1]) = n - 1 /\ Descending(old[1], score) /\ ShortcutsOf(old[3], old[1])
  BY DEF SortedUpTo
<1> HIDE DEF q, T
<1>6. /\ OneEach(new[1], T \cup {q}) /\ Len(new[1]) = Len(old[1]) + 1 /\ ShortcutsOf(new[3], new[1])
      /\ Descending(new[1], score)
      /\ new[2] = IF old[1] = <<>> THEN old[2] ELSE FirstOf(new[1], done)
  <2>1. InsertedState(old, SortedInsert(old, q, score, done), q, T, score, done)
    BY <1>2, <1>3, <1>5, SortedInsertIs
  <2> QED BY <1>5, <2>1 DEF InsertedState
<1> HIDE DEF new
<1>7. Len(new[1]) = n
  BY <1>5, <1>6
<1>8. n <= 1 => new[2] = st[2]
  <2>1. ASSUME n <= 1 PROVE new[2] = st[2]
    <3>1. n = 1 /\ n - 1 <= 1 /\ Len(old[1]) = 0
      BY <1>5, <2>1
    <3>2. old[1] = <<>> /\ old[2] = st[2]
      <4>1. old[1] \in Seq(Entries)
        BY <1>5 DEF OneEach
      <4>2. old[1] = <<>>
        BY <3>1, <4>1, EmptySeq
      <4> QED BY <3>1, <4>2 DEF SortedUpTo
    <3> QED BY <1>6, <3>2
  <2> QED BY <2>1
<1>9. n > 1 => new[2] = FirstOf(new[1], done)
  <2>1. ASSUME n > 1 PROVE old[1] # <<>>
    <3>1. Len(<<>>) = 0 /\ Len(old[1]) # 0
      BY <1>5, <2>1
    <3> QED BY <3>1
  <2> QED BY <1>6, <2>1
<1> QED BY <1>4, <1>6, <1>7, <1>8, <1>9 DEF SortedUpTo, new, q

(* sort_queue, for queues of any length and any scores: the same entries, in *)
(* descending order of score, with every shortcut in its place and, if there *)
(* are two, first_unhandled at the first entry to do                       *)
(* (src/afl-fuzz.c:940-984, 1013-1032).                                    *)
THEOREM SortQueueIs ==
  ASSUME NEW st, NEW U, OneEach(st[1], U), NEW score \in [Entries -> Scores], NEW done
  PROVE  SortedUpTo(st, SortQueue(st, score, done), score, done, Len(st[1]))
<1> DEFINE len == Len(st[1])
<1>1. len \in Nat
  BY DEF OneEach
<1>2. PICK g : Sorting(g, st, score, done, len) /\ SortQueue(st, score, done) = g[len]
  BY <1>1, SortQueueUnfolds
<1> HIDE DEF len
<1>3. \A k \in 0..len : g[k] = IF k = 0 THEN Emptied(st) ELSE SortedInsert(g[k - 1], st[1][k], score, done)
  BY <1>2, Zenon DEF Sorting
<1> DEFINE Wrong == {k \in 0..len : ~SortedUpTo(st, g[k], score, done, k)}
<1>4. Wrong = {}
  <2>1. SUFFICES ASSUME Wrong # {} PROVE FALSE
    OBVIOUS
  <2>2. PICK k \in Wrong : \A i \in Wrong : k <= i
    <3>1. Wrong \in SUBSET Nat
      OBVIOUS
    <3> HIDE DEF Wrong
    <3> QED BY <2>1, <3>1, LeastMember
  <2>3. k \in 0..len
    BY <2>2
  <2>4. k # 0
    BY <1>3, <2>2, <2>3, SortedNothing
  <2>5. k \in 1..len /\ k - 1 \in 0..len /\ k - 1 \notin Wrong
    <3>1. k \in 1..len /\ k - 1 \in 0..len /\ ~(k <= k - 1)
      BY <1>1, <2>3, <2>4
    <3> HIDE DEF Wrong
    <3> QED BY <2>2, <3>1
  <2>6. SortedUpTo(st, g[k - 1], score, done, k - 1)
    BY <2>5
  <2>7. g[k] = SortedInsert(g[k - 1], st[1][k], score, done)
    BY <1>3, <2>3, <2>4
  <2>8. SortedUpTo(st, g[k], score, done, k)
    <3>1. k \in 1 .. Len(st[1])
      BY <2>5 DEF len
    <3>2. SortedUpTo(st, SortedInsert(g[k - 1], st[1][k], score, done), score, done, k)
      <4> HIDE DEF Wrong
      <4> DEFINE old == g[k - 1]
      <4>1. SortedUpTo(st, old, score, done, k - 1)
        BY <2>6
      <4> HIDE DEF old
      <4>2. SortedUpTo(st, SortedInsert(old, st[1][k], score, done), score, done, k)
        BY <3>1, <4>1, SortedOneMore
      <4> QED BY <4>2 DEF old
    <3> QED BY <2>7, <3>2
  <2> QED BY <2>2, <2>8
<1>5. SortedUpTo(st, g[len], score, done, len)
  <2>1. len \in 0..len
    BY <1>1
  <2> QED BY <1>4, <2>1
<1> QED BY <1>2, <1>5 DEF len

-----------------------------------------------------------------------------
(***************************************************************************)
(* The inductive invariant.                                                *)
(***************************************************************************)
QueueTypes ==
  /\ phase \in {"read", "loop", "fuzz"}
  /\ OneEach(queue, 0 .. Len(queue) - 1) /\ ShortcutsOf(shortcut, queue)
  /\ prox_score \in [Entries -> Scores]
  /\ handled \subseteq ToSet(queue) /\ retry \subseteq ToSet(queue)
  /\ queue_cur \in ToSet(queue) \cup {NULL} /\ first_unhandled \in ToSet(queue) \cup {NULL}
  /\ queue_cycle \in 0 .. MaxCycles
  /\ repeated \in BOOLEAN /\ drifted \in BOOLEAN

\* In the order of the scores, as long as none was changed in place.
InOrder == phase # "read" /\ ~drifted => Descending(queue, prox_score)

\* While the seeds are read no cycle has begun.
Reading ==
  phase = "read" => /\ handled = {} /\ queue_cur = NULL /\ queue_cycle = 0 /\ ~repeated /\ ~drifted
                    /\ Len(queue) <= 1 => first_unhandled = NULL

\* Every seed in front of e had its turn.
DoneBefore(e) == \A i, j \in DOMAIN queue : queue[j] = e /\ i < j => queue[i] \in handled
\* e may be taken up next.
ItsTurn(e) == DoneBefore(e) /\ (e \notin handled \/ queue_cycle = 1)

\* Where the walk is between two seeds, and while one is fuzzed.
Between ==
  phase = "loop" =>
    IF queue_cycle = 0
    THEN queue_cur = NULL /\ handled = {} /\ first_unhandled \in {NULL, queue[1]}
    ELSE /\ first_unhandled = NULL
         /\ IF queue_cur = NULL THEN handled = ToSet(queue) ELSE ItsTurn(queue_cur)
Within ==
  phase = "fuzz" =>
    /\ queue_cycle > 0 /\ queue_cur \in handled
    /\ IF first_unhandled = NULL THEN DoneBefore(queue_cur) ELSE ItsTurn(first_unhandled)

QueueInv ==
  /\ QueueTypes /\ InOrder /\ Reading /\ Between /\ Within
  /\ phase # "read" => queue # <<>>
  /\ repeated => queue_cycle = 1

\* The invariant holds before the first seed.
LEMMA QueueInitInv == Init => QueueInv
<1> SUFFICES ASSUME Init PROVE QueueInv
  OBVIOUS
<1>1. <<>> \in Seq(Entries) /\ Len(<<>>) = 0 /\ DOMAIN <<>> = {} /\ 0 .. 0 - 1 = {}
  OBVIOUS
<1>2. OneEach(queue, 0 .. Len(queue) - 1)
  BY <1>1 DEF Init, OneEach, ToSet
<1>3. ShortcutsOf(shortcut, queue)
  <2>1. shortcut \in [0 .. Slots - 1 -> Entries \cup {NULL}]
    BY DEF Init
  <2>2. \A k \in 0 .. Slots - 1 : ~(k * Stride < Len(queue))
    <3>1. \A k \in 0 .. Slots - 1 : k \in Nat
      BY Bounds
    <3> QED BY <1>1, <3>1, OneByOne DEF Init
  <2> QED BY <2>1, <2>2 DEF ShortcutsOf
<1>4. prox_score \in [Entries -> Scores]
  <2>1. 0 \in Scores
    BY Bounds DEF Scores
  <2> QED BY <2>1 DEF Init
<1>5. QueueTypes
  BY <1>2, <1>3, <1>4, Bounds DEF Init, QueueTypes
<1>6. InOrder /\ Reading /\ Between /\ Within
  BY DEF Init, InOrder, Reading, Between, Within
<1> QED BY <1>5, <1>6 DEF Init, QueueInv

\* The list and its entries, with bounds.
LEMMA ListFacts ==
  ASSUME QueueTypes
  PROVE  /\ queue \in Seq(Entries) /\ Len(queue) \in Nat /\ DOMAIN queue = 1 .. Len(queue)
         /\ ToSet(queue) = 0 .. Len(queue) - 1 /\ ToSet(queue) \subseteq Entries /\ NULL \notin ToSet(queue)
         /\ \A k \in DOMAIN queue : queue[k] \in ToSet(queue)
         /\ \A e \in ToSet(queue) : \E k \in DOMAIN queue : queue[k] = e
         /\ \A i, j \in DOMAIN queue : queue[i] = queue[j] => i = j
         /\ Len(queue) <= MaxEntries
<1>1. queue \in Seq(Entries) /\ Len(queue) \in Nat /\ DOMAIN queue = 1 .. Len(queue)
  BY DEF QueueTypes, OneEach
<1>2. ToSet(queue) = 0 .. Len(queue) - 1 /\ \A i, j \in DOMAIN queue : queue[i] = queue[j] => i = j
  BY DEF QueueTypes, OneEach
<1>3. ToSet(queue) = {queue[k] : k \in DOMAIN queue}
  BY DEF ToSet
<1>4. ToSet(queue) \subseteq Entries
  BY <1>1, <1>3
<1>5. Len(queue) <= MaxEntries
  <2>1. CASE Len(queue) = 0
    BY <2>1, Bounds
  <2>2. CASE Len(queue) # 0
    <3>1. Len(queue) - 1 \in 0 .. Len(queue) - 1
      BY <1>1, <2>2
    <3>2. Len(queue) - 1 \in 0 .. MaxEntries - 1
      BY <1>2, <1>4, <3>1 DEF Entries
    <3> QED BY <1>1, <3>2, Bounds
  <2> QED BY <2>1, <2>2
<1> QED BY <1>1, <1>2, <1>3, <1>4, <1>5, Bounds

\* add_to_queue: a new entry, in the order of the given scores.
LEMMA AddIs ==
  ASSUME QueueTypes, queued_paths < MaxEntries, NEW score \in [Entries -> Scores], AddToQueue(score)
  PROVE  /\ OneEach(queue', 0 .. Len(queue') - 1) /\ Len(queue') = Len(queue) + 1
         /\ ToSet(queue') = ToSet(queue) \cup {queued_paths} /\ queued_paths \in Entries
         /\ queued_paths \notin ToSet(queue) /\ queue' # <<>>
         /\ ShortcutsOf(shortcut', queue')
         /\ Descending(queue, score) => Descending(queue', score)
         /\ first_unhandled' = IF queue = <<>> THEN first_unhandled ELSE FirstOf(queue', handled)
<1> DEFINE st == <<queue, first_unhandled, shortcut>>
           q == Len(queue)
           T == ToSet(queue)
           new == SortedInsert(st, q, score, handled)
<1>1. queue' = new[1] /\ first_unhandled' = new[2] /\ shortcut' = new[3]
  BY DEF AddToQueue, Becomes, lists, queued_paths
<1>2. st[1] = queue /\ st[2] = first_unhandled /\ st[3] = shortcut
  OBVIOUS
<1>3. q \in Nat /\ q \in Entries /\ T = 0 .. q - 1
  BY ListFacts, Bounds DEF queued_paths, Entries
<1>4. q \notin T
  BY <1>3
<1>5. OneEach(st[1], T) /\ ShortcutsOf(st[3], st[1])
  BY <1>3 DEF QueueTypes
<1> HIDE DEF st, T
<1>6. InsertedState(st, new, q, T, score, handled)
  <2> HIDE DEF q
  <2> QED BY <1>3, <1>4, <1>5, SortedInsertIs
<1> HIDE DEF new
<1>7. /\ OneEach(queue', T \cup {q}) /\ Len(queue') = Len(queue) + 1 /\ ShortcutsOf(shortcut', queue')
      /\ Descending(queue, score) => Descending(queue', score)
      /\ first_unhandled' = IF queue = <<>> THEN first_unhandled ELSE FirstOf(queue', handled)
  BY <1>1, <1>2, <1>6 DEF InsertedState
<1>8. T \cup {q} = 0 .. Len(queue') - 1
  BY <1>3, <1>7
<1>9. ToSet(queue') = T \cup {q}
  BY <1>7 DEF OneEach
<1>10. queue' # <<>>
  <2>1. Len(queue') # 0
    BY <1>3, <1>7
  <2> QED BY <2>1
<1> QED BY <1>3, <1>4, <1>7, <1>8, <1>9, <1>10 DEF queued_paths, T

\* read_testcases.
LEMMA ReadKeeps == QueueInv /\ ReadTestcase => QueueInv'
<1> SUFFICES ASSUME QueueInv, ReadTestcase PROVE QueueInv'
  OBVIOUS
<1>1. QueueTypes /\ Reading /\ phase = "read" /\ queued_paths < MaxEntries /\ AddToQueue(prox_score)
  BY DEF QueueInv, ReadTestcase
<1>2. prox_score \in [Entries -> Scores]
  BY <1>1 DEF QueueTypes
<1>3. /\ OneEach(queue', 0 .. Len(queue') - 1) /\ Len(queue') = Len(queue) + 1
      /\ ToSet(queue') = ToSet(queue) \cup {queued_paths} /\ queued_paths \in Entries
      /\ queue' # <<>> /\ ShortcutsOf(shortcut', queue')
      /\ first_unhandled' = IF queue = <<>> THEN first_unhandled ELSE FirstOf(queue', handled)
  BY <1>1, <1>2, AddIs
<1>4. Len(queue) \in Nat
  BY <1>1, ListFacts
<1>5. first_unhandled' \in ToSet(queue') \cup {NULL}
  <2>1. CASE queue = <<>>
    BY <1>1, <1>3, <2>1 DEF QueueTypes
  <2>2. CASE queue # <<>>
    <3>1. FirstOf(queue', handled) = NULL \/ \E k \in DOMAIN queue' : FirstOf(queue', handled) = queue'[k]
      <4>1. queue' \in Seq(Entries)
        BY <1>3 DEF OneEach
      <4> QED BY <4>1, FirstIs
    <3> QED BY <1>3, <2>2, <3>1 DEF ToSet
  <2> QED BY <2>1, <2>2
<1>6. QueueTypes'
  <2>1. /\ phase' \in {"read", "loop", "fuzz"} /\ prox_score' \in [Entries -> Scores]
        /\ queue_cycle' \in 0 .. MaxCycles /\ repeated' \in BOOLEAN /\ drifted' \in BOOLEAN
    BY <1>1 DEF ReadTestcase, QueueTypes
  <2>2. handled' \subseteq ToSet(queue)' /\ retry' \subseteq ToSet(queue)' /\ queue_cur' \in ToSet(queue)' \cup {NULL}
    BY <1>1, <1>3 DEF ReadTestcase, QueueTypes
  <2> QED BY <1>3, <1>5, <2>1, <2>2 DEF QueueTypes
<1>7. InOrder' /\ Between' /\ Within'
  BY DEF ReadTestcase, InOrder, Between, Within
<1>8. Reading'
  <2>1. Len(queue') <= 1 => queue = <<>>
    <3>1. queue \in Seq(Entries)
      BY <1>1, ListFacts
    <3>2. Len(queue') <= 1 => Len(queue) = 0
      BY <1>3, <1>4
    <3> QED BY <3>1, <3>2, EmptySeq
  <2>2. Len(queue') <= 1 => first_unhandled' = NULL
    <3>1. queue = <<>> => first_unhandled = NULL
      <4>1. Len(<<>>) <= 1
        OBVIOUS
      <4> QED BY <1>1, <4>1 DEF Reading
    <3> QED BY <1>3, <2>1, <3>1
  <2> QED BY <1>1, <2>2 DEF Reading, ReadTestcase
<1> QED BY <1>3, <1>6, <1>7, <1>8 DEF QueueInv, ReadTestcase

\* perform_dry_run and sort_queue.
LEMMA DryRunKeeps == QueueInv /\ SeedDryRun => QueueInv'
<1> SUFFICES ASSUME QueueInv, SeedDryRun PROVE QueueInv'
  OBVIOUS
<1> DEFINE st == <<queue, first_unhandled, shortcut>>
           new == SortQueue(st, prox_score', handled)
           n == Len(queue)
<1>1. QueueTypes /\ Reading /\ phase = "read" /\ phase' = "loop"
  BY DEF QueueInv, SeedDryRun
<1>2. n \in Nat /\ n > 0
  BY <1>1, ListFacts DEF SeedDryRun, queued_paths
<1>3. prox_score' \in [Entries -> Scores]
  <2>1. PICK s \in [0 .. queued_paths - 1 -> Scores] :
          prox_score' = [e \in Entries |-> IF e \in DOMAIN s THEN s[e] ELSE 0]
    BY DEF SeedDryRun
  <2>2. 0 \in Scores
    BY Bounds DEF Scores
  <2>3. ASSUME NEW e \in Entries PROVE (IF e \in DOMAIN s THEN s[e] ELSE 0) \in Scores
    BY <2>2
  <2> QED BY <2>1, <2>3
<1>4. queue' = new[1] /\ first_unhandled' = new[2] /\ shortcut' = new[3]
  BY DEF SeedDryRun, Becomes, lists
<1>5. st[1] = queue /\ st[2] = first_unhandled
  OBVIOUS
<1>6. SortedUpTo(st, new, prox_score', handled, n)
  <2>1. OneEach(st[1], 0 .. n - 1)
    BY <1>1 DEF QueueTypes
  <2>2. n = Len(st[1])
    OBVIOUS
  <2> HIDE DEF st
  <2>3. SortedUpTo(st, SortQueue(st, prox_score', handled), prox_score', handled, Len(st[1]))
    <3> DEFINE score == prox_score'
    <3>1. score \in [Entries -> Scores]
      BY <1>3
    <3> HIDE DEF score
    <3>2. SortedUpTo(st, SortQueue(st, score, handled), score, handled, Len(st[1]))
      BY <2>1, <3>1, SortQueueIs
    <3> QED BY <3>2 DEF score
  <2> QED BY <2>2, <2>3
<1> HIDE DEF st, new
<1>7. /\ OneEach(queue', {queue[k] : k \in 1..n}) /\ Len(queue') = n
      /\ Descending(queue', prox_score') /\ ShortcutsOf(shortcut', queue')
      /\ n <= 1 => first_unhandled' = first_unhandled
      /\ n > 1 => first_unhandled' = FirstOf(queue', handled)
  BY <1>4, <1>5, <1>6 DEF SortedUpTo
<1>8. ToSet(queue') = ToSet(queue) /\ {queue[k] : k \in 1..n} = ToSet(queue)
  <2>1. DOMAIN queue = 1..n
    BY <1>1, ListFacts
  <2>2. {queue[k] : k \in 1..n} = ToSet(queue)
    BY <2>1 DEF ToSet
  <2> QED BY <1>7, <2>2 DEF OneEach
<1>9. OneEach(queue', 0 .. Len(queue') - 1)
  <2>1. ToSet(queue) = 0 .. n - 1
    BY <1>1, ListFacts
  <2> QED BY <1>7, <1>8, <2>1
<1>10. queue' \in Seq(Entries) /\ DOMAIN queue' = 1..n /\ 1 \in DOMAIN queue'
  BY <1>2, <1>7 DEF OneEach
<1>11. first_unhandled' \in {NULL, queue'[1]}
  <2>1. CASE n <= 1
    BY <1>1, <1>7, <2>1 DEF Reading
  <2>2. CASE n > 1
    <3>1. handled = {}
      BY <1>1 DEF Reading
    <3>2. PICK k \in DOMAIN queue' : /\ FirstOf(queue', handled) = queue'[k]
                                      /\ \A j \in DOMAIN queue' : j < k => queue'[j] \in handled
      <4>1. ~\A j \in DOMAIN queue' : queue'[j] \in handled
        BY <1>10, <3>1
      <4> QED BY <1>10, <4>1, FirstIs
    <3>3. ~(1 < k)
      BY <1>10, <3>1, <3>2
    <3>4. k = 1
      BY <1>2, <1>10, <3>2, <3>3
    <3> QED BY <1>7, <2>2, <3>2, <3>4
  <2> QED BY <1>2, <2>1, <2>2
<1>12. queue'[1] \in ToSet(queue)'
  BY <1>10 DEF ToSet
<1>13. QueueTypes'
  <2>1. /\ queue_cycle' \in 0 .. MaxCycles /\ repeated' \in BOOLEAN /\ drifted' \in BOOLEAN
        /\ handled' \subseteq ToSet(queue) /\ retry' \subseteq ToSet(queue) /\ queue_cur' \in ToSet(queue) \cup {NULL}
    BY <1>1 DEF SeedDryRun, QueueTypes
  <2>2. first_unhandled' \in ToSet(queue)' \cup {NULL}
    BY <1>11, <1>12
  <2> QED BY <1>1, <1>3, <1>7, <1>8, <1>9, <2>1, <2>2 DEF QueueTypes
<1>14. InOrder'
  BY <1>7 DEF InOrder
<1>15. Between'
  <2>1. queue_cycle' = 0 /\ queue_cur' = NULL /\ handled' = {}
    BY <1>1 DEF Reading, SeedDryRun
  <2> QED BY <1>11, <2>1 DEF Between
<1>16. Reading' /\ Within'
  BY <1>1 DEF Reading, Within
<1>17. queue' # <<>> /\ (repeated' => queue_cycle' = 1)
  BY <1>1, <1>10 DEF Reading, SeedDryRun
<1> QED BY <1>13, <1>14, <1>15, <1>16, <1>17 DEF QueueInv

\* The walk takes up an entry.
LEMMA TakeUpKeeps == QueueInv /\ TakeUp => QueueInv'
<1> SUFFICES ASSUME QueueInv, TakeUp PROVE QueueInv'
  OBVIOUS
<1>1. QueueTypes /\ InOrder /\ Between /\ phase = "loop" /\ phase' = "fuzz" /\ queue # <<>>
  BY DEF QueueInv, TakeUp
<1>2. /\ queue' = queue /\ first_unhandled' = first_unhandled /\ shortcut' = shortcut
      /\ prox_score' = prox_score /\ retry' = retry /\ drifted' = drifted
  BY DEF TakeUp, lists
<1>3. queue_cycle \in Nat /\ MaxCycles \in Nat /\ queue_cycle <= MaxCycles
  BY <1>1, Bounds DEF QueueTypes
<1>4. 1 \in DOMAIN queue /\ queue[1] \in ToSet(queue)
  <2>1. Len(queue) # 0
    BY <1>1, ListFacts, EmptySeq
  <2> QED BY <1>1, <2>1, ListFacts
<1>5. InOrder' /\ Reading' /\ Between' /\ (phase' # "read" => queue' # <<>>)
  BY <1>1, <1>2 DEF InOrder, Reading, Between
<1>6. CASE queue_cur = NULL
  <2>1. /\ queue_cycle' = queue_cycle + 1 /\ queue_cycle < MaxCycles /\ queue_cur' = queue[1]
        /\ handled' = {queue[1]} /\ repeated' = FALSE
    BY <1>6 DEF TakeUp
  <2>2. queue_cycle' \in 0 .. MaxCycles /\ queue_cycle' > 0
    BY <1>3, <2>1
  <2>3. QueueTypes'
    BY <1>1, <1>2, <1>4, <2>1, <2>2 DEF QueueTypes
  <2>4. \A i, j \in DOMAIN queue : queue[j] = queue[1] /\ i < j => FALSE
    <3>1. \A j \in DOMAIN queue : queue[j] = queue[1] => j = 1
      BY <1>1, <1>4, ListFacts
    <3>2. \A i \in DOMAIN queue : ~(i < 1)
      BY <1>1, ListFacts
    <3> QED BY <3>1, <3>2
  <2>5. Within'
    <3>1. CASE queue_cycle = 0
      <4>1. queue_cycle' = 1 /\ first_unhandled \in {NULL, queue[1]}
        BY <1>1, <2>1, <3>1 DEF Between
      <4>2. DoneBefore(queue[1])'
        BY <1>2, <2>4 DEF DoneBefore
      <4>3. ItsTurn(queue[1])'
        BY <4>1, <4>2 DEF ItsTurn
      <4> QED BY <1>2, <2>1, <2>2, <4>1, <4>2, <4>3 DEF Within
    <3>2. CASE queue_cycle # 0
      <4>1. first_unhandled = NULL
        BY <1>1, <3>2 DEF Between
      <4>2. DoneBefore(queue_cur)'
        BY <1>2, <2>1, <2>4 DEF DoneBefore
      <4> QED BY <1>2, <2>1, <2>2, <4>1, <4>2 DEF Within
    <3> QED BY <3>1, <3>2
  <2> QED BY <1>5, <2>1, <2>3, <2>5 DEF QueueInv
<1>7. CASE queue_cur # NULL
  <2>1. /\ handled' = handled \cup {queue_cur} /\ repeated' = (repeated \/ queue_cur \in handled)
        /\ queue_cycle' = queue_cycle /\ queue_cur' = queue_cur
    BY <1>7 DEF TakeUp
  <2>2. queue_cycle # 0 /\ first_unhandled = NULL /\ ItsTurn(queue_cur)
    BY <1>1, <1>7 DEF Between
  <2>3. QueueTypes'
    BY <1>1, <1>2, <1>7, <2>1 DEF QueueTypes
  <2>4. Within'
    <3>1. DoneBefore(queue_cur)'
      BY <1>2, <2>1, <2>2 DEF ItsTurn, DoneBefore
    <3>2. queue_cycle' > 0
      BY <1>3, <2>1, <2>2
    <3> QED BY <1>2, <2>1, <2>2, <3>1, <3>2 DEF Within
  <2>5. repeated' => queue_cycle' = 1
    BY <2>1, <2>2 DEF QueueInv, ItsTurn
  <2> QED BY <1>5, <2>3, <2>4, <2>5 DEF QueueInv
<1> QED BY <1>6, <1>7

\* A find, in front of or behind the entry that is fuzzed.
LEMMA FindKeeps == QueueInv /\ Find => QueueInv'
<1> SUFFICES ASSUME QueueInv, Find PROVE QueueInv'
  OBVIOUS
<1>1. /\ QueueTypes /\ InOrder /\ Within /\ phase = "fuzz" /\ queued_paths < MaxEntries /\ queue # <<>>
      /\ phase' = "fuzz" /\ handled' = handled /\ queue_cur' = queue_cur /\ queue_cycle' = queue_cycle
      /\ repeated' = repeated
  BY DEF QueueInv, Find
<1> DEFINE n == queued_paths
<1>2. PICK s \in Scores, t \in Scores, ok \in BOOLEAN :
        LET scored == [prox_score EXCEPT ![n] = s]
        IN  /\ drifted' = (drifted \/ t # s) /\ AddToQueue(scored)
            /\ prox_score' = [scored EXCEPT ![n] = t]
            /\ retry' = IF ok THEN retry ELSE retry \cup {n}
  BY DEF Find
<1> DEFINE scored == [prox_score EXCEPT ![n] = s]
<1>3. scored \in [Entries -> Scores] /\ \A e \in Entries : e # n => scored[e] = prox_score[e]
  BY <1>1 DEF QueueTypes
<1>4. prox_score' \in [Entries -> Scores] /\ (t = s => prox_score' = scored)
  BY <1>1, <1>2 DEF QueueTypes
<1>5. AddToQueue(scored)
  BY <1>2
<1> HIDE DEF scored
<1>6. /\ OneEach(queue', 0 .. Len(queue') - 1) /\ ToSet(queue') = ToSet(queue) \cup {n}
      /\ n \notin ToSet(queue) /\ queue' # <<>> /\ ShortcutsOf(shortcut', queue')
      /\ Descending(queue, scored) => Descending(queue', scored)
      /\ first_unhandled' = FirstOf(queue', handled)
  BY <1>1, <1>3, <1>5, AddIs
<1> HIDE DEF n
<1>7. /\ queue' \in Seq(Entries)
      /\ \E k \in DOMAIN queue' : /\ first_unhandled' = queue'[k] /\ queue'[k] \notin handled
                                   /\ \A j \in DOMAIN queue' : j < k => queue'[j] \in handled
  <2>1. queue' \in Seq(Entries)
    BY <1>6 DEF OneEach
  <2>2. n \notin handled
    BY <1>1, <1>6 DEF QueueTypes
  <2>3. \E k \in DOMAIN queue' : queue'[k] \notin handled
    BY <1>6, <2>2 DEF ToSet
  <2> QED BY <1>6, <2>1, <2>3, FirstIs
<1>8. PICK k \in DOMAIN queue' : /\ first_unhandled' = queue'[k] /\ queue'[k] \notin handled
                                 /\ \A j \in DOMAIN queue' : j < k => queue'[j] \in handled
  BY <1>7
<1>9. first_unhandled' \in ToSet(queue') /\ first_unhandled' # NULL
  <2>1. ToSet(queue') \subseteq Entries
    BY <1>7 DEF ToSet
  <2>2. first_unhandled' \in ToSet(queue')
    BY <1>8 DEF ToSet
  <2> QED BY <2>1, <2>2, Bounds
<1>10. QueueTypes'
  <2>1. retry' \subseteq ToSet(queue)'
    BY <1>1, <1>2, <1>6 DEF QueueTypes
  <2>2. handled' \subseteq ToSet(queue)' /\ queue_cur' \in ToSet(queue)' \cup {NULL}
    BY <1>1, <1>6 DEF QueueTypes
  <2>3. /\ queue_cycle' \in 0 .. MaxCycles /\ repeated' \in BOOLEAN /\ phase' \in {"read", "loop", "fuzz"}
    BY <1>1 DEF QueueTypes
  <2>4. drifted' \in BOOLEAN
    BY <1>2
  <2> QED BY <1>4, <1>6, <1>9, <2>1, <2>2, <2>3, <2>4 DEF QueueTypes
<1>11. InOrder'
  <2>1. ASSUME ~drifted' PROVE Descending(queue', prox_score')
    <3>1. ~drifted /\ t = s
      BY <1>2, <2>1
    <3>2. Descending(queue, prox_score)
      BY <1>1, <3>1 DEF InOrder
    <3>3. \A j \in DOMAIN queue : queue[j] \in Entries /\ queue[j] # n
      BY <1>1, <1>6, ListFacts
    <3>4. Descending(queue, scored)
      BY <1>3, <3>2, <3>3 DEF Descending
    <3> QED BY <1>4, <1>6, <3>1, <3>4
  <2> QED BY <2>1 DEF InOrder
<1>12. Within'
  <2>1. DoneBefore(first_unhandled)'
    <3>1. \A j \in DOMAIN queue' : queue'[j] = queue'[k] => j = k
      BY <1>6, <1>8 DEF OneEach
    <3> QED BY <1>1, <1>8, <3>1 DEF DoneBefore
  <2>2. ItsTurn(first_unhandled)'
    BY <1>1, <1>8, <2>1 DEF ItsTurn
  <2> QED BY <1>1, <1>9, <2>2 DEF Within
<1>13. Reading' /\ Between'
  BY <1>1 DEF Reading, Between
<1> QED BY <1>1, <1>6, <1>10, <1>11, <1>12, <1>13 DEF QueueInv

\* A score changed in place, which the list does not follow.
LEMMA RecalibrateKeeps == QueueInv /\ SeedRecalibrate => QueueInv'
<1> SUFFICES ASSUME QueueInv, SeedRecalibrate PROVE QueueInv'
  OBVIOUS
<1>1. /\ QueueTypes /\ InOrder /\ Reading /\ Between /\ Within /\ phase = "fuzz" /\ queue # <<>>
      /\ repeated => queue_cycle = 1
  BY DEF QueueInv, SeedRecalibrate
<1>2. /\ phase' = phase /\ queue' = queue /\ first_unhandled' = first_unhandled /\ shortcut' = shortcut
      /\ handled' = handled /\ queue_cur' = queue_cur /\ queue_cycle' = queue_cycle
      /\ repeated' = repeated /\ retry' \subseteq retry
  BY DEF SeedRecalibrate, lists
<1>3. PICK t \in Scores : /\ drifted' = (drifted \/ t # prox_score[queue_cur])
                          /\ prox_score' = [prox_score EXCEPT ![queue_cur] = t]
  BY DEF SeedRecalibrate
<1>4. prox_score' \in [Entries -> Scores] /\ (t = prox_score[queue_cur] => prox_score' = prox_score)
  BY <1>1, <1>3 DEF QueueTypes
<1>5. QueueTypes'
  <2>1. drifted' \in BOOLEAN
    BY <1>3
  <2>2. retry' \subseteq ToSet(queue)
    BY <1>1, <1>2 DEF QueueTypes
  <2> QED BY <1>1, <1>2, <1>4, <2>1, <2>2 DEF QueueTypes
<1>6. InOrder'
  <2>1. ASSUME ~drifted' PROVE Descending(queue', prox_score')
    <3>1. ~drifted /\ prox_score' = prox_score
      BY <1>3, <1>4, <2>1
    <3> QED BY <1>1, <1>2, <3>1 DEF InOrder
  <2> QED BY <2>1 DEF InOrder
<1>7. Within'
  BY <1>1, <1>2 DEF Within, ItsTurn, DoneBefore
<1>8. Reading' /\ Between'
  BY <1>1, <1>2 DEF Reading, Between
<1> QED BY <1>1, <1>2, <1>5, <1>6, <1>7, <1>8 DEF QueueInv

\* The walk goes on at the first entry that is still to do, wherever it is.
LEMMA NextInQueueIs ==
  ASSUME QueueTypes, Within, phase = "fuzz"
  PROVE  /\ NextInQueue \in ToSet(queue) \cup {NULL}
         /\ IF NextInQueue = NULL THEN handled = ToSet(queue) ELSE ItsTurn(NextInQueue)
<1>1. CASE first_unhandled # NULL
  BY <1>1 DEF NextInQueue, Within, QueueTypes
<1>2. CASE first_unhandled = NULL
  <2> DEFINE n == Len(queue)
             at == PlaceOf(queue_cur)
             rest == SubSeq(queue, at, n)
             found == FirstOf(rest, handled)
  <2>1. NextInQueue = found
    BY <1>2 DEF NextInQueue
  <2>2. n \in Nat /\ DOMAIN queue = 1..n /\ queue \in Seq(Entries)
    BY ListFacts
  <2>3. queue_cur \in handled /\ queue_cur \in ToSet(queue) /\ DoneBefore(queue_cur)
    BY <1>2 DEF Within, QueueTypes
  <2>4. at \in 1..n /\ queue[at] = queue_cur
    <3>1. \E k \in 1..n : queue[k] = queue_cur
      BY <2>2, <2>3, ListFacts
    <3> QED BY <3>1 DEF PlaceOf
  <2> HIDE DEF at
  <2>5. rest \in Seq(Entries) /\ DOMAIN rest = 1 .. n - at + 1 /\ \A k \in DOMAIN rest : rest[k] = queue[at + k - 1]
    <3>1. at \in 1 .. n + 1 /\ n \in at - 1 .. n /\ at <= n
      BY <2>2, <2>4
    <3>2. rest \in Seq(Entries) /\ Len(rest) = n - at + 1
      <4> HIDE DEF n
      <4> QED BY <2>2, <3>1, SubSeqProperties
    <3>3. \A k \in 1 .. n - at + 1 : rest[k] = queue[at + k - 1]
      <4> HIDE DEF n
      <4> QED BY <2>2, <3>1, SubSeqProperties
    <3> QED BY <3>2, <3>3
  <2> HIDE DEF n, rest, found
  <2>6. \A i \in 1..n : i <= at => queue[i] \in handled
    <3>1. \A i \in 1..n : i < at => queue[i] \in handled
      BY <2>2, <2>3, <2>4 DEF DoneBefore
    <3>2. \A i \in 1..n : i <= at => i < at \/ i = at
      BY <2>2, <2>4
    <3> QED BY <2>3, <2>4, <3>1, <3>2
  <2>7. ASSUME NEW i \in 1..n, at <= i PROVE i - at + 1 \in DOMAIN rest /\ rest[i - at + 1] = queue[i]
    <3>1. i - at + 1 \in 1 .. n - at + 1 /\ at + (i - at + 1) - 1 = i
      BY <2>2, <2>4, <2>7
    <3> QED BY <2>5, <3>1
  <2>8. CASE found = NULL /\ \A k \in DOMAIN rest : rest[k] \in handled
    <3>1. ASSUME NEW i \in 1..n PROVE queue[i] \in handled
      <4>1. CASE i <= at
        BY <2>6, <4>1
      <4>2. CASE at <= i
        BY <2>7, <2>8, <4>2
      <4> QED BY <2>2, <2>4, <4>1, <4>2
    <3>2. handled \subseteq ToSet(queue)
      BY DEF QueueTypes
    <3>3. ToSet(queue) \subseteq handled
      BY <2>2, <3>1 DEF ToSet
    <3> QED BY <2>1, <2>8, <3>2, <3>3
  <2>9. CASE \E k \in DOMAIN rest : /\ found = rest[k] /\ rest[k] \notin handled
                                   /\ \A j \in DOMAIN rest : j < k => rest[j] \in handled
    <3>1. PICK k \in DOMAIN rest : /\ found = rest[k] /\ rest[k] \notin handled
                                  /\ \A j \in DOMAIN rest : j < k => rest[j] \in handled
      BY <2>9
    <3> DEFINE m == at + k - 1
    <3>2. m \in 1..n /\ found = queue[m] /\ at <= m /\ m - at + 1 = k /\ k \in Nat
      <4>1. k \in 1 .. n - at + 1
        BY <2>5
      <4>2. m \in 1..n /\ at <= m /\ m - at + 1 = k
        BY <2>2, <2>4, <4>1
      <4> QED BY <2>5, <3>1, <4>1, <4>2
    <3> HIDE DEF m
    <3>3. ASSUME NEW i \in 1..n, i < m PROVE queue[i] \in handled
      <4>1. CASE i <= at
        BY <2>6, <4>1
      <4>2. CASE at <= i
        <5>1. i - at + 1 < k
          BY <2>4, <3>2, <3>3
        <5> QED BY <2>7, <3>1, <4>2, <5>1
      <4> QED BY <2>4, <4>1, <4>2
    <3>4. \A j \in 1..n : queue[j] = found => j = m
      BY <2>2, <3>2, ListFacts
    <3>5. DoneBefore(found)
      BY <2>2, <3>3, <3>4 DEF DoneBefore
    <3>6. found \in ToSet(queue) /\ found # NULL
      BY <2>2, <3>2, ListFacts
    <3> QED BY <2>1, <3>1, <3>5, <3>6 DEF ItsTurn
  <2>10. \/ found = NULL /\ \A k \in DOMAIN rest : rest[k] \in handled
         \/ \E k \in DOMAIN rest : /\ found = rest[k] /\ rest[k] \notin handled
                                  /\ \A j \in DOMAIN rest : j < k => rest[j] \in handled
    BY <2>5, FirstIs DEF found
  <2> QED BY <2>8, <2>9, <2>10
<1> QED BY <1>1, <1>2

\* fuzz_one has returned.
LEMMA ProceedKeeps == QueueInv /\ Proceed => QueueInv'
<1> SUFFICES ASSUME QueueInv, Proceed PROVE QueueInv'
  OBVIOUS
<1>1. /\ QueueTypes /\ InOrder /\ Within /\ phase = "fuzz" /\ queue # <<>>
      /\ repeated => queue_cycle = 1
  BY DEF QueueInv, Proceed
<1>2. /\ phase' = "loop" /\ queue_cur' = NextInQueue /\ first_unhandled' = NULL /\ queue' = queue
      /\ shortcut' = shortcut /\ prox_score' = prox_score /\ handled' = handled /\ retry' = retry
      /\ queue_cycle' = queue_cycle /\ repeated' = repeated /\ drifted' = drifted
  BY DEF Proceed
<1>3. /\ NextInQueue \in ToSet(queue) \cup {NULL}
      /\ IF NextInQueue = NULL THEN handled = ToSet(queue) ELSE ItsTurn(NextInQueue)
  BY <1>1, NextInQueueIs
<1>4. QueueTypes'
  BY <1>1, <1>2, <1>3 DEF QueueTypes
<1>5. Between'
  <2>1. queue_cycle' # 0
    BY <1>1, <1>2, Bounds DEF Within, QueueTypes
  <2> DEFINE e == NextInQueue
  <2>2. IF e = NULL THEN handled = ToSet(queue) ELSE ItsTurn(e)
    BY <1>3
  <2>3. queue_cur' = e
    BY <1>2
  <2> HIDE DEF e
  <2>4. IF queue_cur' = NULL THEN handled' = ToSet(queue)' ELSE ItsTurn(queue_cur)'
    BY <1>2, <2>2, <2>3 DEF ItsTurn, DoneBefore
  <2> QED BY <1>2, <2>1, <2>4 DEF Between
<1>6. InOrder' /\ Reading' /\ Within'
  BY <1>1, <1>2 DEF InOrder, Reading, Within
<1> QED BY <1>1, <1>2, <1>4, <1>5, <1>6 DEF QueueInv

\* Every step of the queue keeps the invariant.
LEMMA QueueStepInv == QueueInv /\ [Next]_vars => QueueInv'
<1> SUFFICES ASSUME QueueInv, [Next]_vars PROVE QueueInv'
  OBVIOUS
<1>1. CASE UNCHANGED vars
  BY <1>1 DEF vars, lists, QueueInv, QueueTypes, InOrder, Reading, Between, Within, ItsTurn, DoneBefore
<1> QED BY <1>1, ReadKeeps, DryRunKeeps, TakeUpKeeps, FindKeeps, RecalibrateKeeps, ProceedKeeps DEF Next

\* As long as the shortcuts reach, the entry at an index is found.
LEMMA SpliceHolds ==
  ASSUME QueueTypes, MaxEntries <= Stride * Slots
  PROVE  SpliceFinds
<1> SUFFICES ASSUME NEW idx \in 0 .. queued_paths - 1 PROVE SpliceTarget(idx) = queue[idx + 1]
  BY DEF SpliceFinds
<1> DEFINE n == Len(queue)
           div == idx \div Stride
           from == shortcut[div]
           at == PlaceOf(from)
<1>1. n \in Nat /\ DOMAIN queue = 1..n /\ n <= MaxEntries /\ idx \in Nat /\ idx < n
  BY ListFacts DEF queued_paths
<1> HIDE DEF n
<1>2. PICK q \in Nat, r \in 0 .. Stride - 1 : idx = q * Stride + r /\ div = q
  <2>1. /\ idx \div Stride \in Nat /\ idx % Stride \in 0 .. Stride - 1
        /\ idx = (idx \div Stride) * Stride + (idx % Stride)
    BY <1>1, Bounds
  <2> QED BY <2>1
<1> HIDE DEF div
<1>3. q * Stride \in Nat /\ q * Stride <= idx /\ r = idx - q * Stride
  <2>1. q * Stride \in Nat
    BY OneByOne
  <2> QED BY <1>2, <2>1, Bounds
<1>4. q < Slots
  <2>1. ASSUME q >= Slots PROVE FALSE
    <3>1. PICK d \in Nat : q = Slots + d
      <4>1. q - Slots \in Nat /\ q = Slots + (q - Slots)
        BY <2>1, Bounds
      <4> QED BY <4>1
    <3>2. q * Stride = Slots * Stride + d * Stride /\ Slots * Stride = Stride * Slots
      BY <3>1, Bounds
    <3>3. d * Stride \in Nat /\ Slots * Stride \in Nat
      BY Bounds, OneByOne
    <3>4. Stride * Slots \in Nat /\ MaxEntries \in Nat
      BY <3>2, <3>3, Bounds
    <3> QED BY <1>1, <1>3, <3>2, <3>3, <3>4
  <2> QED BY <2>1, Bounds
<1>5. q \in 0 .. Slots - 1 /\ q * Stride < n /\ q * Stride + 1 \in 1..n
  <2>1. q \in 0 .. Slots - 1
    BY <1>4, Bounds
  <2> QED BY <1>1, <1>3, <2>1
<1>6. from = queue[q * Stride + 1]
  BY <1>2, <1>5 DEF QueueTypes, ShortcutsOf, n
<1>7. at = q * Stride + 1
  <2>1. \A k \in 1..n : queue[k] = from => k = q * Stride + 1
    BY <1>1, <1>5, <1>6, ListFacts
  <2>2. \E k \in 1..n : queue[k] = from
    BY <1>5, <1>6
  <2>3. at \in 1..n /\ queue[at] = from
    <3> HIDE DEF from
    <3> QED BY <2>2 DEF PlaceOf, n
  <2> QED BY <2>1, <2>3
<1>8. SpliceTarget(idx) = LET a == at + (idx - div * Stride)
                          IN  IF a > n THEN NULL ELSE queue[a]
  <2>1. div < Slots /\ ~(div >= Slots)
    BY <1>2, <1>4, Bounds
  <2> DEFINE steps == idx - div * Stride
             a == at + steps
  <2>2. SpliceTarget(idx) = IF div >= Slots /\ idx < div * Slots THEN NULL
                            ELSE IF a > n THEN NULL ELSE queue[a]
    BY <2>1, Zenon DEF SpliceTarget, div, n
  <2> HIDE DEF a
  <2>3. SpliceTarget(idx) = IF a > n THEN NULL ELSE queue[a]
    BY <2>1, <2>2
  <2> QED BY <2>3 DEF a
<1> HIDE DEF at
<1>9. at + (idx - div * Stride) = idx + 1
  <2>1. at + (idx - q * Stride) = idx + 1
    BY <1>1, <1>3, <1>7
  <2> QED BY <1>2, <2>1
<1>10. ~(idx + 1 > n)
  BY <1>1
<1> QED BY <1>8, <1>9, <1>10

\* The invariant is strong enough.
LEMMA QueueInvEnough ==
  ASSUME QueueInv, MaxEntries <= Stride * Slots
  PROVE  QueueSound
<1>1. QueueTypes /\ InOrder /\ Between /\ (repeated => queue_cycle = 1)
  BY DEF QueueInv
<1>2. TypeOK
  <2>1. queue_cur \in Entries \cup {NULL} /\ first_unhandled \in Entries \cup {NULL}
    BY <1>1, ListFacts DEF QueueTypes
  <2>2. queue \in Seq(Entries) /\ ToSet(queue) = 0 .. Len(queue) - 1
    BY <1>1, ListFacts
  <2> QED BY <1>1, <2>1, <2>2 DEF QueueTypes, TypeOK, ShortcutsOf
<1>3. CycleCovers
  BY <1>1, Bounds DEF Between, CycleCovers, QueueTypes
<1>4. Sorted
  <2>1. ASSUME Descending(queue, prox_score), NEW k \in 1 .. Len(queue) - 1
        PROVE  prox_score[queue[k]] >= prox_score[queue[k + 1]]
    <3>1. k \in DOMAIN queue /\ k + 1 \in DOMAIN queue /\ k < k + 1
      BY <1>1, ListFacts
    <3> QED BY <2>1, <3>1 DEF Descending
  <2> QED BY <1>1, <2>1 DEF InOrder, Sorted
<1>5. SpliceFinds
  BY <1>1, SpliceHolds
<1> QED BY <1>1, <1>2, <1>3, <1>4, <1>5 DEF QueueSound, RepeatsOnlyAtStart

\* The entry that is taken up is the best that is left.
LEMMA BestIsFirst ==
  ASSUME QueueInv, [Next]_vars
  PROVE  BestFirst
<1> SUFFICES ASSUME phase = "loop", phase' = "fuzz", ~drifted, NEW e \in ToSet(queue),
                    ~(queue_cur # NULL /\ e \in handled)
             PROVE  prox_score[e] <= prox_score[queue_cur']
  BY DEF BestFirst
<1>1. TakeUp
  BY DEF Next, vars, ReadTestcase, SeedDryRun, Find, SeedRecalibrate, Proceed
<1>2. QueueTypes /\ Between /\ Descending(queue, prox_score) /\ queue # <<>>
  BY DEF QueueInv, InOrder
<1>3. PICK j \in DOMAIN queue : queue[j] = e
  BY <1>2, ListFacts
<1>4. \E i \in DOMAIN queue : queue[i] = queue_cur' /\ i <= j
  <2>1. CASE queue_cur = NULL
    <3>1. queue_cur' = queue[1]
      BY <1>1, <2>1 DEF TakeUp
    <3>2. 1 \in DOMAIN queue /\ 1 <= j
      BY <1>2, <1>3, ListFacts
    <3> QED BY <3>1, <3>2
  <2>2. CASE queue_cur # NULL
    <3>1. queue_cur' = queue_cur /\ ItsTurn(queue_cur) /\ queue_cur \in ToSet(queue)
      BY <1>1, <1>2, <2>2 DEF TakeUp, Between, QueueTypes
    <3>2. PICK i \in DOMAIN queue : queue[i] = queue_cur
      BY <1>2, <3>1, ListFacts
    <3>3. ~(j < i)
      BY <1>3, <2>2, <3>1, <3>2 DEF ItsTurn, DoneBefore
    <3>4. i <= j
      BY <1>2, <3>3, ListFacts
    <3> QED BY <3>1, <3>2, <3>4
  <2> QED BY <2>1, <2>2
<1>5. PICK i \in DOMAIN queue : queue[i] = queue_cur' /\ i <= j
  BY <1>4
<1> DEFINE w(x) == prox_score[x]
<1>6. w(e) \in Nat /\ w(queue_cur') \in Nat
  <2>1. e \in Entries /\ queue_cur' \in Entries
    BY <1>2, <1>5, ListFacts
  <2> QED BY <1>2, <2>1, Bounds DEF QueueTypes
<1>7. CASE i = j
  BY <1>3, <1>5, <1>6, <1>7
<1>8. CASE i # j
  <2>1. i < j
    BY <1>2, <1>5, <1>8, ListFacts
  <2>2. w(queue[i]) >= w(queue[j])
    BY <1>2, <2>1 DEF Descending
  <2> QED BY <1>3, <1>5, <1>6, <2>2
<1> QED BY <1>7, <1>8

(* For queues of any length that the shortcuts reach, any scores and any   *)
(* finds: a cycle covers the queue, in descending order of score as long as *)
(* no score is changed behind the list's back, from the second cycle on each *)
(* seed once, and an index finds its entry (src/afl-fuzz.c:940-1032,       *)
(* 9222-9275). Beyond the last shortcut SpliceTarget may leave the list.   *)
THEOREM QueueRightHolds ==
  ASSUME MaxEntries <= Stride * Slots
  PROVE  Spec => QueueRight
<1>1. QueueInv /\ [Next]_vars => QueueInv'
  BY QueueStepInv
<1>2. QueueInv => QueueSound
  BY QueueInvEnough
<1>3. QueueInv /\ [Next]_vars => BestFirst
  BY BestIsFirst
<1>4. Spec => [][QueueSound' /\ BestFirst]_vars
  BY <1>1, <1>2, <1>3, QueueInitInv, PTL DEF Spec
<1> QED BY <1>4 DEF QueueRight
=============================================================================
