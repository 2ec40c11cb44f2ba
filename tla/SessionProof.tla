---------------------------- MODULE SessionProof ----------------------------
(***************************************************************************)
(* Proofs about a session and its surroundings: the timeout of its targets, *)
(* the options it accepts, the output directories it is given and leaves   *)
(* behind, the order in which it takes up its targets, what it shares with *)
(* the other fuzzers of the machine (cores, shared-memory segments), and   *)
(* what it shows of itself.                                                *)
(***************************************************************************)
EXTENDS Timeout, Setup, OutDir, Selection, Machine, Panel,
        FiniteSetTheorems, SequenceTheorems, WellFoundedInduction, TLAPS

\* A set of numbers with a member has a least one.
LEMMA LeastMember ==
  ASSUME NEW T \in SUBSET Nat, T # {}
  PROVE  \E x \in T : \A y \in T : x <= y
<1> DEFINE R == OpToRel(<, Nat)
<1>1. IsWellFoundedOn(R, Nat)
  BY NatLessThanWellFounded
<1>2. \A x, y \in Nat : x < y => <<x, y>> \in R
  BY DEF OpToRel
<1> HIDE DEF R
<1>3. PICK x \in T : \A y \in T : ~(<<y, x>> \in R)
  <2>1. T \subseteq Nat
    OBVIOUS
  <2> QED BY <1>1, <2>1, WFMin
<1>4. ASSUME NEW y \in T PROVE x <= y
  <2>1. x \in Nat /\ y \in Nat /\ ~(y < x)
    BY <1>2, <1>3
  <2> QED BY <2>1
<1> QED BY <1>4

-----------------------------------------------------------------------------
(* The timeout.                                                            *)

TimeTypes ==
  /\ session \in {"off", "init", "fuzz"} /\ resuming_fuzz \in BOOLEAN
  /\ exec_tmout \in Nat /\ timeout_given \in 0 .. 3
  /\ usable \in [StatIndex -> Nat] /\ seedMax \in [StatIndex -> Nat]
  /\ dryLeft \in Nat /\ cal_failures \in Nat /\ starting \in Nat

(* Each seed of the dry run is still to come, usable or skipped, and some  *)
(* seed is not skipped.                                                    *)
DryRunCounts ==
  /\ session = "off" /\ abort = "no" =>
       /\ starting = 0 /\ dryLeft = SeedCount /\ cal_failures = 0
       /\ \A t \in StatIndex : usable[t] = 0 /\ seedMax[t] = 0
  /\ session = "init" =>
       /\ starting \in StatIndex
       /\ \A t \in StatIndex : t < starting => usable[t] > 0
       /\ \A t \in StatIndex : t > starting => usable[t] = 0
       /\ usable[starting] + cal_failures + dryLeft = SeedCount
       /\ cal_failures < SeedCount
  /\ session = "fuzz" => \A t \in StatIndex : usable[t] > 0

(* The seeds that were kept fit; those of target 0 under EXEC_TIMEOUT while *)
(* there is no other timeout.                                              *)
KeptFit ==
  /\ session = "init" =>
       /\ timeout_given = 0 => starting = 0 /\ exec_tmout = EXEC_TIMEOUT
       /\ \A t \in StatIndex : t > starting => seedMax[t] = 0
  /\ session # "off" => \A t \in StatIndex : seedMax[t] <= use_tmout

TimeInv == TimeTypes /\ DryRunCounts /\ KeptFit

-----------------------------------------------------------------------------
(* A derived timeout is enough for the slowest seed, or it is EXEC_TIMEOUT. *)
LEMMA DerivedEnough ==
  ASSUME NEW avg \in AvgUs, NEW ms \in Nat
  PROVE  /\ Derived(avg, ms) \in Nat
         /\ Derived(avg, ms) >= ms \/ Derived(avg, ms) = EXEC_TIMEOUT
<1> DEFINE times == IF avg > 50000 THEN 2 ELSE IF avg > 10000 THEN 3 ELSE 5
           raw == Bigger((avg * times) \div 1000, ms)
           rounded == ((raw + EXEC_TM_ROUND) \div EXEC_TM_ROUND) * EXEC_TM_ROUND
<1>1. avg \in Nat
  BY TimeoutAssumption
<1>2. avg * times \in Nat
  <2>1. avg * 2 \in Nat /\ avg * 3 \in Nat /\ avg * 5 \in Nat
    BY <1>1
  <2> QED BY <2>1
<1> HIDE DEF times
<1>3. (avg * times) \div 1000 \in Nat
  BY <1>2
<1>4. raw \in Nat /\ raw >= ms
  BY <1>3 DEF Bigger
<1> HIDE DEF raw
<1>5. rounded \in Nat /\ rounded >= raw
  BY <1>4 DEF EXEC_TM_ROUND
<1>6. Derived(avg, ms) = Lesser(rounded, EXEC_TIMEOUT)
  BY DEF Derived, times, raw
<1> HIDE DEF rounded
<1> QED BY <1>4, <1>5, <1>6 DEF Lesser, EXEC_TIMEOUT

\* The more generous limit is a number, and no smaller one.
LEMMA Allowance ==
  ASSUME NEW e \in Nat
  PROVE  /\ Bigger(e + 50, (e * 125) \div 100) \in Nat
         /\ Bigger(e + 50, (e * 125) \div 100) >= e + 50
<1>1. e * 125 \in Nat
  OBVIOUS
<1>2. (e * 125) \div 100 \in Nat
  BY <1>1
<1> QED BY <1>2 DEF Bigger

LEMMA TimeInitInv == TimeoutInit => TimeInv
<1> SUFFICES ASSUME TimeoutInit PROVE TimeInv
  OBVIOUS
<1>1. resuming_fuzz \in BOOLEAN
  BY Zenon DEF TimeoutInit
<1>2. TimeTypes
  BY <1>1, TimeoutAssumption DEF TimeoutInit, TimeTypes, EXEC_TIMEOUT
<1>3. DryRunCounts
  BY DEF TimeoutInit, DryRunCounts
<1>4. KeptFit
  BY DEF TimeoutInit, KeptFit
<1> QED BY <1>2, <1>3, <1>4 DEF TimeInv

(* A session starts with -t, with a timeout it finds, or without any. *)
LEMMA StartKeeps ==
  ASSUME TimeInv, NEW r \in BOOLEAN, NEW t \in Given \cup {None}, NEW found \in FoundStats,
         StartSession(r, t, found)
  PROVE  TimeInv'
<1> USE TimeoutAssumption DEF None
<1>1. /\ session' = "init" /\ session = "off" /\ abort = "no" /\ resuming_fuzz' = r
      /\ UNCHANGED <<starting, dryLeft, cal_failures, usable, seedMax>>
  BY DEF StartSession, dryVars
<1>2. 0 \in StatIndex /\ StatIndex \subseteq Nat
  BY DEF StatIndex
<1>3. /\ exec_tmout' \in Nat /\ timeout_given' \in 0 .. 3
      /\ timeout_given' = 0 => exec_tmout' = EXEC_TIMEOUT
  BY DEF StartSession, find_timeout, EXEC_TIMEOUT
<1>4. TimeTypes'
  BY <1>1, <1>3 DEF TimeInv, TimeTypes
<1>5. DryRunCounts'
  BY <1>1, <1>2 DEF TimeInv, TimeTypes, DryRunCounts
<1>6. use_tmout' \in Nat
  BY <1>1, <1>3, Allowance DEF use_tmout
<1>7. KeptFit'
  <2>1. starting = 0 /\ \A s \in StatIndex : seedMax[s] = 0
    BY <1>1 DEF TimeInv, DryRunCounts
  <2> QED BY <1>1, <1>3, <1>6, <2>1 DEF KeptFit, EXEC_TIMEOUT
<1> QED BY <1>4, <1>5, <1>7 DEF TimeInv

(* A seed of the dry run is usable, is skipped, or ends the session. *)
LEMMA DryRunKeeps ==
  ASSUME TimeInv,
         SeedBroken \/ \E ms \in Took : SeedRuns(ms) \/ SeedTimesOut(ms) \/ SeedCrashes(ms)
  PROVE  TimeInv'
<1> USE TimeoutAssumption
<1>1. InDryRun /\ UNCHANGED timeVars /\ starting' = starting
  BY DEF SeedBroken, SeedRuns, SeedTimesOut, SeedCrashes, SeedFails, InDryRun
<1>2. /\ starting \in StatIndex /\ dryLeft \in Nat /\ dryLeft > 0 /\ session = "init"
      /\ UNCHANGED <<resuming_fuzz, exec_tmout, timeout_given>> /\ use_tmout' = use_tmout
      /\ use_tmout \in Nat /\ StatIndex \subseteq Nat
  BY <1>1 DEF InDryRun, TimeInv, TimeTypes, DryRunCounts, StatIndex, timeVars, use_tmout, Bigger
<1>3. ASSUME NEW ms \in Took, SeedRuns(ms) PROVE TimeInv'
  <2>1. /\ dryLeft' = dryLeft - 1 /\ ms \in Nat /\ ms <= use_tmout
        /\ usable' = [usable EXCEPT ![starting] = usable[starting] + 1]
        /\ seedMax' = [seedMax EXCEPT ![starting] = Bigger(seedMax[starting], ms)]
        /\ UNCHANGED <<session, cal_failures>>
    BY <1>3 DEF SeedRuns
  <2>2. TimeTypes'
    BY <1>1, <1>2, <2>1 DEF TimeInv, TimeTypes, Bigger
  <2>3. /\ usable[starting] \in Nat /\ usable'[starting] = usable[starting] + 1
        /\ seedMax[starting] \in Nat /\ seedMax'[starting] = Bigger(seedMax[starting], ms)
        /\ \A t \in StatIndex : t # starting => usable'[t] = usable[t] /\ seedMax'[t] = seedMax[t]
    BY <1>2, <2>1 DEF TimeInv, TimeTypes
  <2>4. DryRunCounts'
    <3>1. cal_failures \in Nat /\ usable[starting] + cal_failures + dryLeft = SeedCount
      BY <1>2 DEF TimeInv, TimeTypes, DryRunCounts
    <3>2. usable'[starting] + cal_failures + dryLeft' = SeedCount
      BY <1>2, <2>1, <2>3, <3>1
    <3>3. /\ \A t \in StatIndex : t < starting => t # starting
          /\ \A t \in StatIndex : t > starting => t # starting
      BY <1>2
    <3> QED BY <1>1, <1>2, <2>1, <2>3, <3>2, <3>3 DEF TimeInv, DryRunCounts
  <2>5. KeptFit'
    <3>1. seedMax'[starting] <= use_tmout
      BY <1>2, <2>1, <2>3 DEF TimeInv, KeptFit, Bigger
    <3> QED BY <1>1, <1>2, <2>1, <2>3, <3>1 DEF TimeInv, KeptFit
  <2> QED BY <2>2, <2>4, <2>5 DEF TimeInv
<1>4. ASSUME NEW ms \in Took, NEW why \in {"timeout", "crash"}, NEW skip \in BOOLEAN,
             SeedFails(why, ms, skip)
      PROVE  TimeInv'
  <2>1. /\ dryLeft' = dryLeft - 1 /\ cal_failures' = cal_failures + 1
        /\ \/ session' = session /\ cal_failures + 1 # SeedCount
           \/ session' = "off" /\ abort' # "no"
        /\ UNCHANGED <<usable, seedMax>>
    BY <1>1, <1>4 DEF SeedFails, InDryRun
  <2>2. TimeTypes'
    BY <1>1, <1>2, <2>1 DEF TimeInv, TimeTypes
  <2>3. DryRunCounts'
    BY <1>1, <1>2, <2>1 DEF TimeInv, TimeTypes, DryRunCounts
  <2>4. KeptFit'
    BY <1>1, <1>2, <2>1 DEF TimeInv, KeptFit
  <2> QED BY <2>2, <2>3, <2>4 DEF TimeInv
<1>5. ASSUME SeedBroken PROVE TimeInv'
  <2>1. session' = "off" /\ abort' = "error" /\ UNCHANGED <<dryLeft, cal_failures, usable, seedMax>>
    BY <1>5 DEF SeedBroken
  <2> QED BY <1>1, <1>2, <2>1 DEF TimeInv, TimeTypes, DryRunCounts, KeptFit
<1>6. (timeout_given > 1) \in BOOLEAN /\ SkipCrashes \in BOOLEAN
  OBVIOUS
<1> QED BY <1>3, <1>4, <1>5, <1>6 DEF SeedTimesOut, SeedCrashes

(* The timeout is derived only for target 0, and its seeds fit. *)
LEMMA InitStatsKeeps ==
  ASSUME TimeInv, NEW avg \in AvgUs, NEW d \in BOOLEAN, show_init_stats(avg, d)
  PROVE  TimeInv'
<1> USE TimeoutAssumption
<1>1. /\ session = "init" /\ dryLeft = 0 /\ dryLeft' = SeedCount /\ cal_failures' = 0
      /\ starting' = starting + 1
      /\ session' = IF starting + 1 = StatTargets THEN "fuzz" ELSE "init"
      /\ UNCHANGED <<resuming_fuzz, usable, seedMax>>
  BY DEF show_init_stats
<1>2. starting \in StatIndex /\ usable[starting] > 0 /\ StatIndex \subseteq Nat
  BY <1>1 DEF TimeInv, TimeTypes, DryRunCounts, StatIndex
<1>3. /\ exec_tmout' \in Nat /\ timeout_given' \in 1 .. 3
      /\ \A t \in StatIndex : seedMax[t] <= use_tmout'
  <2>1. CASE timeout_given = 0
    <3>1. exec_tmout' = Derived(avg, seedMax[starting]) /\ timeout_given' = 1
      BY <2>1 DEF show_init_stats
    <3>2. /\ seedMax[starting] \in Nat /\ starting = 0 /\ exec_tmout = EXEC_TIMEOUT
          /\ seedMax[starting] <= use_tmout
          /\ \A t \in StatIndex : t # starting => seedMax[t] = 0
      BY <1>1, <1>2, <2>1 DEF TimeInv, TimeTypes, KeptFit, StatIndex
    <3>3. exec_tmout' \in Nat /\ (exec_tmout' >= seedMax[starting] \/ exec_tmout' = EXEC_TIMEOUT)
      BY <3>1, <3>2, DerivedEnough
    <3>4. use_tmout' \in Nat /\ seedMax[starting] <= use_tmout'
      <4>1. CASE resuming_fuzz
        <5>1. use_tmout = 1250
          BY <3>2, <4>1 DEF use_tmout, Bigger, EXEC_TIMEOUT
        <5>2. use_tmout' = Bigger(exec_tmout' + 50, (exec_tmout' * 125) \div 100)
          BY <1>1, <4>1 DEF use_tmout
        <5>3. CASE exec_tmout' = EXEC_TIMEOUT
          BY <3>2, <5>1, <5>2, <5>3 DEF Bigger, EXEC_TIMEOUT
        <5>4. CASE exec_tmout' >= seedMax[starting]
          BY <3>2, <3>3, <5>2, <5>4, Allowance
        <5> QED BY <3>3, <5>3, <5>4
      <4>2. CASE ~resuming_fuzz
        BY <1>1, <3>2, <3>3, <4>2 DEF use_tmout
      <4> QED BY <4>1, <4>2
    <3> QED BY <3>1, <3>2, <3>3, <3>4
  <2>2. CASE timeout_given # 0
    <3>1. UNCHANGED <<exec_tmout, timeout_given>>
      BY <2>2 DEF show_init_stats
    <3> QED BY <1>1, <2>2, <3>1 DEF TimeInv, TimeTypes, KeptFit, use_tmout
  <2> QED BY <2>1, <2>2
<1>4. TimeTypes'
  BY <1>1, <1>3 DEF TimeInv, TimeTypes
<1>5. DryRunCounts'
  BY <1>1, <1>2 DEF TimeInv, TimeTypes, DryRunCounts, StatIndex
<1>6. KeptFit'
  BY <1>1, <1>2, <1>3 DEF TimeInv, TimeTypes, KeptFit
<1> QED BY <1>4, <1>5, <1>6 DEF TimeInv

-----------------------------------------------------------------------------
(* The invariant is inductive. *)
LEMMA TimeStepInv == TimeInv /\ [TimeoutNext]_timeoutVars => TimeInv'
<1> SUFFICES ASSUME TimeInv, [TimeoutNext]_timeoutVars PROVE TimeInv'
  OBVIOUS
<1>1. ASSUME NEW r \in BOOLEAN, NEW t \in Given \cup {None}, NEW f \in FoundStats,
             StartSession(r, t, f)
      PROVE  TimeInv'
  BY <1>1, StartKeeps
<1>2. CASE SeedBroken \/ \E ms \in Took : SeedRuns(ms) \/ SeedTimesOut(ms) \/ SeedCrashes(ms)
  BY <1>2, DryRunKeeps
<1>3. ASSUME NEW avg \in AvgUs, NEW d \in BOOLEAN, show_init_stats(avg, d) PROVE TimeInv'
  BY <1>3, InitStatsKeeps
<1>4. CASE UNCHANGED timeoutVars
  BY <1>4 DEF timeoutVars, dryVars, timeVars, TimeInv, TimeTypes, DryRunCounts, KeptFit, use_tmout
<1> QED BY <1>1, <1>2, <1>3, <1>4 DEF TimeoutNext

(* TimeoutRight: every target of a session that fuzzes has a seed its dry  *)
(* run did not give up on (perform_dry_run, src/afl-fuzz.c:3110-3310), and *)
(* the timeout derived from the seeds of the first one lets every kept     *)
(* seed of every target pass (show_init_stats, 4830-4851).                 *)
THEOREM TimeoutRightHolds == TimeoutSpec => []TimeoutRight
<1>1. TimeoutInit => TimeInv
  BY TimeInitInv
<1>2. TimeInv /\ [TimeoutNext]_timeoutVars => TimeInv'
  BY TimeStepInv
<1>3. TimeInv => TimeoutRight
  BY DEF TimeInv, DryRunCounts, KeptFit, TimeoutRight, SeedsUsable, SeedsFit
<1> QED BY <1>1, <1>2, <1>3, PTL DEF TimeoutSpec

-----------------------------------------------------------------------------
(* The options and the checks before fuzzing.                              *)

\* The steps of main, and those before the directory is touched.
SetupSteps ==
  {"parse", "sync", "modes", "host", "reset", "dirs", "pivot", "binary", "switch", "fuzzing", "fatal"}
BeforeDirs == {"parse", "sync", "modes", "host", "reset", "dirs"}

FlagTypes ==
  /\ force_deterministic \in BOOLEAN /\ crash_mode \in BOOLEAN /\ qemu_mode \in BOOLEAN
  /\ mem_limit_given \in BOOLEAN /\ skip_deterministic \in BOOLEAN /\ use_splicing \in BOOLEAN

(* What the options read so far, in whatever order, have made of the       *)
(* variables.                                                              *)
ReadSoFar ==
  LET read == options \ unparsed
  IN /\ sync_id = "none" <=> read \cap {"M", "S"} = {}
     /\ sync_id \in {"none", "M", "S"} /\ (sync_id # "none" => sync_id \in read)
     /\ (force_deterministic <=> "M" \in read)
     /\ (crash_mode <=> "C" \in read) /\ (qemu_mode <=> "Q" \in read)
     /\ dumb_mode = IF "n" \notin read THEN 0 ELSE IF "DUMB_FORKSRV" \in environment THEN 2 ELSE 1
     /\ mem_limit = CASE "m" \in read -> "given"
                      [] "m" \notin read /\ "Q" \in read -> "MEM_LIMIT_QEMU"
                      [] OTHER -> "MEM_LIMIT"
     /\ (mem_limit_given <=> "m" \in read)
     /\ setupPc # "fatal" => ~({"M", "S"} \subseteq read)

(* -d as it was given, before fix_up_sync, and as -S implies it, behind it. *)
Deterministic ==
  /\ setupPc \in {"parse", "sync"} =>
       /\ skip_deterministic <=> "d" \in options \ unparsed
       /\ use_splicing <=> skip_deterministic
  /\ setupPc \notin {"parse", "sync", "fatal"} =>
       /\ skip_deterministic <=> options \cap {"d", "S"} # {}
       /\ skip_deterministic => use_splicing /\ ~force_deterministic

(* What each check has ruled out. *)
Checked ==
  /\ setupPc \notin {"parse", "fatal"} => unparsed = {} /\ "BAD_ASAN" \notin environment
  /\ setupPc \notin {"parse", "sync", "fatal"} =>
       (options \cap {"M", "S"} # {} => options \cap {"n", "d"} = {})
  /\ setupPc \notin {"parse", "sync", "modes", "fatal"} => ~Contradiction
  /\ setupPc = "fatal" /\ earlierSession = "single" =>
       Contradiction \/ environment \cap {"CORE_PIPE", "GOVERNOR"} # {}
  /\ earlierSession = "deleted" => ~Contradiction
  /\ earlierSession = "single" => setupPc \in BeforeDirs \cup {"fatal"}

\* The strengthened invariant of the set-up.
SetupInv ==
  /\ setupPc \in SetupSteps /\ unparsed \subseteq options /\ options \in OptionSets
  /\ FlagTypes /\ ReadSoFar /\ Deterministic /\ Checked

-----------------------------------------------------------------------------
LEMMA SetupInitInv == SetupInit => SetupInv
<1> SUFFICES ASSUME SetupInit PROVE SetupInv
  OBVIOUS
<1>1. options \ unparsed = {}
  BY DEF SetupInit
<1>2. FlagTypes /\ ReadSoFar
  BY <1>1 DEF SetupInit, FlagTypes, ReadSoFar
<1>3. Deterministic /\ Checked
  BY <1>1 DEF SetupInit, Deterministic, Checked, BeforeDirs
<1> QED BY <1>2, <1>3 DEF SetupInit, SetupInv, SetupSteps

(* An option that is read, whatever was read before it. *)
LEMMA ParseKeeps ==
  ASSUME SetupInv, NEW o \in unparsed, ParseOption(o)
  PROVE  SetupInv'
<1> DEFINE read == options \ unparsed
<1>0. /\ setupPc = "parse" /\ setupPc' \in {"parse", "fatal"} /\ read' = read \cup {o} /\ o \notin read
      /\ UNCHANGED <<options, environment, earlierSession>> /\ unparsed' \subseteq unparsed
  BY DEF ParseOption, Told, SetupInv
<1>10. FlagTypes'
  BY DEF ParseOption, SetupInv, FlagTypes
<1>1. /\ sync_id' = IF o \in {"M", "S"} THEN o ELSE sync_id
      /\ setupPc' = "fatal" <=> o \in {"M", "S"} /\ sync_id # "none"
      /\ mem_limit_given' <=> mem_limit_given \/ o = "m"
      /\ mem_limit' = CASE o = "m" -> "given"
                        [] o = "Q" /\ ~mem_limit_given -> "MEM_LIMIT_QEMU"
                        [] OTHER -> mem_limit
      /\ dumb_mode' = IF o # "n" THEN dumb_mode ELSE IF "DUMB_FORKSRV" \in environment THEN 2 ELSE 1
  BY DEF ParseOption
<1>2. /\ force_deterministic' <=> force_deterministic \/ o = "M"
      /\ crash_mode' <=> crash_mode \/ o = "C"
      /\ qemu_mode' <=> qemu_mode \/ o = "Q"
      /\ skip_deterministic' <=> skip_deterministic \/ o = "d"
      /\ use_splicing' <=> use_splicing \/ o = "d"
  BY DEF ParseOption
<1>3. ReadSoFar'
  <2>1. /\ sync_id' = "none" <=> read' \cap {"M", "S"} = {}
        /\ sync_id' \in {"none", "M", "S"} /\ (sync_id' # "none" => sync_id' \in read')
        /\ setupPc' # "fatal" => ~({"M", "S"} \subseteq read')
    BY <1>0, <1>1 DEF SetupInv, ReadSoFar
  <2>2. /\ (force_deterministic' <=> "M" \in read')
        /\ (crash_mode' <=> "C" \in read') /\ (qemu_mode' <=> "Q" \in read')
        /\ (mem_limit_given' <=> "m" \in read')
    BY <1>0, <1>1, <1>2 DEF SetupInv, ReadSoFar
  <2>3. dumb_mode' = IF "n" \notin read' THEN 0 ELSE IF "DUMB_FORKSRV" \in environment' THEN 2 ELSE 1
    BY <1>0, <1>1 DEF SetupInv, ReadSoFar
  <2>4. mem_limit' = CASE "m" \in read' -> "given"
                      [] "m" \notin read' /\ "Q" \in read' -> "MEM_LIMIT_QEMU"
                      [] OTHER -> "MEM_LIMIT"
    BY <1>0, <1>1 DEF SetupInv, ReadSoFar
  <2> QED BY <2>1, <2>2, <2>3, <2>4 DEF ReadSoFar
<1>4. Deterministic'
  BY <1>0, <1>2 DEF SetupInv, Deterministic
<1>5. Checked'
  <2>1. setupPc' = "fatal" => {"M", "S"} \subseteq options
    BY <1>0, <1>1 DEF SetupInv, ReadSoFar
  <2> QED BY <1>0, <2>1 DEF SetupInv, Checked, Contradiction, BeforeDirs
<1> QED BY <1>0, <1>3, <1>4, <1>5, <1>10 DEF SetupInv, SetupSteps

(* The checks up to CheckModes rule every contradiction out. *)
LEMMA ChecksKeep ==
  ASSUME SetupInv, check_asan_opts \/ fix_up_sync \/ CheckModes
  PROVE  SetupInv'
<1>0. /\ setupPc \in {"parse", "sync", "modes"} /\ unparsed = {}
      /\ UNCHANGED <<Told, unparsed, dumb_mode, crash_mode, qemu_mode, sync_id, force_deterministic,
                     mem_limit, mem_limit_given, targetsGiven, given, earlierSession>>
  BY DEF check_asan_opts, fix_up_sync, CheckModes, parsed, SetupInv, Checked
<1>10. FlagTypes'
  BY <1>0 DEF check_asan_opts, fix_up_sync, CheckModes, parsed, SetupInv, FlagTypes
<1>1. ReadSoFar'
  BY <1>0 DEF Told, SetupInv, ReadSoFar, check_asan_opts, fix_up_sync, CheckModes
<1>2. CASE check_asan_opts
  <2>1. Deterministic' /\ Checked' /\ setupPc' \in SetupSteps
    BY <1>0, <1>2 DEF Told, parsed, check_asan_opts, SetupInv, Deterministic, Checked, Contradiction,
       SetupSteps, BeforeDirs
  <2> QED BY <1>0, <1>1, <1>10, <2>1 DEF Told, SetupInv
<1>3. CASE fix_up_sync
  <2> DEFINE wrong == sync_id # "none" /\ (dumb_mode # 0 \/ skip_deterministic)
             secondary == sync_id # "none" /\ ~force_deterministic
  <2>1. /\ setupPc = "sync" /\ setupPc' = IF wrong THEN "fatal" ELSE "modes"
        /\ skip_deterministic' <=> skip_deterministic \/ (~wrong /\ secondary)
        /\ use_splicing' <=> use_splicing \/ (~wrong /\ secondary)
    BY <1>3 DEF fix_up_sync
  <2>2. /\ wrong <=> options \cap {"M", "S"} # {} /\ options \cap {"n", "d"} # {}
        /\ secondary <=> "S" \in options
        /\ skip_deterministic <=> "d" \in options
        /\ use_splicing <=> skip_deterministic
        /\ force_deterministic <=> "M" \in options
        /\ ~({"M", "S"} \subseteq options)
    BY <1>0, <2>1 DEF SetupInv, ReadSoFar, Deterministic
  <2> HIDE DEF wrong, secondary
  <2>3. Deterministic'
    BY <1>0, <2>1, <2>2 DEF Told, Deterministic
  <2>4. Checked' /\ setupPc' \in SetupSteps
    BY <1>0, <2>1, <2>2 DEF Told, SetupInv, Checked, Contradiction, SetupSteps, BeforeDirs
  <2> QED BY <1>0, <1>1, <1>10, <2>3, <2>4 DEF Told, SetupInv
<1>4. CASE CheckModes
  <2> DEFINE wrong == (dumb_mode # 0 /\ (crash_mode \/ qemu_mode)) \/ (dumb_mode = 2 /\ no_forkserver')
  <2>1. /\ setupPc = "modes" /\ setupPc' = IF wrong THEN "fatal" ELSE "host"
        /\ no_forkserver' <=> "NO_FORKSRV" \in environment
        /\ UNCHANGED <<skip_deterministic, use_splicing>>
    BY <1>4 DEF CheckModes, parsed
  <2>2. wrong <=> \/ "n" \in options /\ options \cap {"C", "Q"} # {}
                  \/ "n" \in options /\ {"DUMB_FORKSRV", "NO_FORKSRV"} \subseteq environment
    BY <1>0, <2>1 DEF SetupInv, ReadSoFar
  <2> HIDE DEF wrong
  <2>3. ~({"M", "S"} \subseteq options)
    BY <1>0, <2>1 DEF SetupInv, ReadSoFar
  <2>4. Deterministic'
    BY <1>0, <2>1 DEF Told, SetupInv, Deterministic
  <2>5. Checked' /\ setupPc' \in SetupSteps
    BY <1>0, <2>1, <2>2, <2>3 DEF Told, SetupInv, Checked, Contradiction, SetupSteps, BeforeDirs
  <2> QED BY <1>0, <1>1, <1>10, <2>4, <2>5 DEF Told, SetupInv
<1> QED BY <1>2, <1>3, <1>4

(* From the host to the first run. *)
LEMMA StartKeepsOptions ==
  ASSUME SetupInv,
         CheckHost \/ init_parameter \/ SetUpDirs \/ pivot_all_inputs \/ check_binary \/ FirstSwitch
  PROVE  SetupInv'
<1>0. /\ setupPc \in {"host", "reset", "dirs", "pivot", "binary", "switch"}
      /\ setupPc' \in SetupSteps \ {"parse", "sync", "modes"}
      /\ UNCHANGED <<Told, unparsed, parsed>>
  BY DEF CheckHost, init_parameter, SetUpDirs, pivot_all_inputs, check_binary, FirstSwitch, SetupSteps
<1>1. FlagTypes' /\ ReadSoFar' /\ Deterministic'
  BY <1>0 DEF SetupInv, FlagTypes, ReadSoFar, Deterministic, Told, parsed
<1>2. Checked'
  <2>1. Contradiction' = Contradiction
    BY <1>0 DEF Contradiction, Told
  <2> USE DEF SetupInv, Checked, Told, BeforeDirs
  <2>2. CASE CheckHost
    BY <1>0, <2>1, <2>2 DEF CheckHost
  <2>3. CASE init_parameter
    BY <1>0, <2>1, <2>3 DEF init_parameter
  <2>4. CASE SetUpDirs
    BY <1>0, <2>1, <2>4 DEF SetUpDirs
  <2>5. CASE pivot_all_inputs \/ check_binary \/ FirstSwitch
    BY <1>0, <2>1, <2>5 DEF pivot_all_inputs, check_binary, FirstSwitch
  <2> QED BY <2>2, <2>3, <2>4, <2>5
<1> QED BY <1>0, <1>1, <1>2 DEF SetupInv, Told

LEMMA SetupStepInv == SetupInv /\ [SetupNext]_setupVars => SetupInv'
<1>1. ASSUME SetupInv, UNCHANGED setupVars PROVE SetupInv'
  BY <1>1 DEF setupVars, parsed, SetupInv, FlagTypes, ReadSoFar, Deterministic, Checked, Contradiction
<1> QED BY <1>1, ParseKeeps, ChecksKeep, StartKeepsOptions DEF SetupNext

(* OptionsAgree: the order of the options does not matter, contradictory ones *)
(* never cost an earlier session its directory, and consistent ones are not *)
(* refused (main, src/afl-fuzz.c:8677-9342).                               *)
THEOREM OptionsAgreeHolds == SetupSpec => []OptionsAgree
<1>1. SetupInv => OptionsAgree
  <2> SUFFICES ASSUME SetupInv PROVE OptionsAgree
    OBVIOUS
  <2>1. setupPc = "fuzzing" =>
          /\ ~Contradiction
          /\ mem_limit = CASE "m" \in options -> "given"
                        [] "m" \notin options /\ "Q" \in options -> "MEM_LIMIT_QEMU"
                        [] OTHER -> "MEM_LIMIT"
    <3>1. setupPc = "fuzzing" => options \ unparsed = options
      BY DEF SetupInv, Checked
    <3> QED BY <3>1 DEF SetupInv, ReadSoFar, Checked
  <2> QED BY <2>1 DEF SetupInv, FlagTypes, Deterministic, Checked, OptionsAgree
<1> QED BY SetupInitInv, SetupStepInv, <1>1, PTL DEF SetupSpec

-----------------------------------------------------------------------------
(* The output directory.                                                   *)

Stored == InputSeeds \cup FoundSeeds \cup Crashes \cup {Beside}
DirRecord == [there : BOOLEAN, files : SUBSET Stored, det : SUBSET Stored, state : BOOLEAN]
TakesOver == {"rename", "clean", "crashes", "delcrashes", "rest"}
Makes     == {"mkdir", "mkqueue", "mkcrashes"}
Works     == {"pivot", "run", "stats"}
DirPhases == {"off", "refused", "fatal", "read"} \cup TakesOver \cup Makes \cup Works

\* What the variables are made of.
DirTypes ==
  /\ dirPhase \in DirPhases /\ source \in Sources
  /\ out \in Outs \cup {UserDir} /\ (dirPhase # "off" => out \in Outs)
  /\ idx \in 0 .. TargetNum /\ (dirPhase \notin {"run", "stats"} => idx < TargetNum)
  /\ exists \subseteq Nodes /\ disk \in [Nodes -> [Subdirs -> DirRecord]]
  /\ stats \in [Nodes -> {"none", "torn", "whole"}]
  /\ imported \in [TargetIndex -> [seeds : SUBSET Stored, det : SUBSET Stored]]
  /\ everFound \in [Nodes -> SUBSET Stored]

\* Finds come after statistics, and a directory that is not there has neither.
StatsFirst ==
  /\ \A d \in Nodes : d \notin exists => stats[d] = "none" /\ \A p \in Subdirs : disk[d][p] = NoDir
  /\ \A d \in Nodes : stats[d] = "none" => everFound[d] = {}

\* A queue is renamed at most once: there is no new one in that place.
OneQueue ==
  \A d \in Nodes : /\ \A p \in {"queue", "_resume"} : ~disk[d][p].there => disk[d][p].files = {}
                   /\ disk[d]["_resume"].there => ~disk[d]["queue"].there

\* What was found is there, in one of the places.
FindsThere ==
  \A d \in Nodes : \A f \in everFound[d] : \E p \in Subdirs : f \in disk[d][p].files

\* What a session may delete holds nothing that was found.
DeletesNothing ==
  /\ dirPhase \in TakesOver => out \in exists /\ idx = 0
  /\ dirPhase \in TakesOver /\ source # InPlace => stats[out] = "none"
  /\ dirPhase = "clean" /\ source = InPlace => disk[out]["queue"].files = {}
  /\ dirPhase = "delcrashes" /\ source = InPlace => disk[out]["crashes"].files = {}

\* How far the directories of the targets have come.
TargetDirs ==
  /\ dirPhase = "mkqueue" =>
       /\ Below(out, idx) \in exists
       /\ stats[Below(out, idx)] = "none"
       /\ \A p \in Subdirs : disk[Below(out, idx)][p] = NoDir
  /\ dirPhase = "mkcrashes" => stats[Below(out, idx)] = "none"
  /\ \A t \in TargetIndex :
       LET q == disk[Below(out, t)]["queue"]
       IN /\ dirPhase \in Works \cup {"read"} => q.there
          /\ dirPhase \in Makes /\ t < idx => q.there /\ q.files = {}
          /\ dirPhase = "mkcrashes" /\ t = idx => q.there /\ q.files = {}
          /\ dirPhase = "read" => q.files = {}
          /\ dirPhase \in {"run", "stats"} /\ t < idx => stats[Below(out, t)] # "none"
          /\ dirPhase = "stats" /\ t = idx => stats[Below(out, t)] # "none"

\* What was read is what is there, and what was pivoted is what was read.
ReadAll ==
  source \in Outs => \A t \in TargetIndex :
    LET from == disk[Below(source, t)]["queue"]
        to   == disk[Below(out, t)]["queue"]
        all  == imported[t]
    IN /\ dirPhase \in Works => source # out
       /\ dirPhase \in Works \/ (dirPhase = "read" /\ t < idx) =>
            from.files \subseteq all.seeds /\ from.det \cap from.files \subseteq all.det
       /\ dirPhase \in {"run", "stats"} \/ (dirPhase = "pivot" /\ t < idx) =>
            all.seeds \subseteq to.files /\ all.seeds \cap all.det \subseteq to.det

DirInv == /\ DirTypes /\ StatsFirst /\ OneQueue /\ FindsThere
          /\ DeletesNothing /\ TargetDirs /\ ReadAll

-----------------------------------------------------------------------------
LEMMA BelowNode == ASSUME NEW d \in Outs, NEW t \in TargetIndex PROVE Below(d, t) \in Nodes
BY DEF Outs

\* Different directories and targets have different paths.
LEMMA BelowInjective ==
  ASSUME NEW d \in Outs, NEW e \in Outs, NEW t \in TargetIndex, NEW u \in TargetIndex,
         Below(d, t) = Below(e, u)
  PROVE  d = e /\ t = u
<1>1. d \in Seq(Nat) /\ e \in Seq(Nat)
  BY OutDirAssumption DEF Outs
<1>2. t \in Nat /\ u \in Nat
  BY OutDirAssumption DEF TargetIndex
<1> QED BY <1>1, <1>2, AppendInjective DEF Below

LEMMA DirConstants ==
  /\ NoDir \in DirRecord /\ ~NoDir.there /\ NoDir.files = {} /\ NoDir.det = {} /\ ~NoDir.state
  /\ NewDir \in DirRecord /\ NewDir.there /\ NewDir.files = {}
  /\ [NewDir EXCEPT !.state = TRUE] \in DirRecord
  /\ [NewDir EXCEPT !.state = TRUE].there /\ [NewDir EXCEPT !.state = TRUE].files = {}
  /\ UserDir \notin Outs /\ 0 \in TargetIndex /\ UserDir \in Sources
  /\ Nothing.seeds = {} /\ Nothing.det = {}
  /\ Nothing \in [seeds : SUBSET Stored, det : SUBSET Stored]
<1>1. 0 \in TargetIndex
  BY OutDirAssumption DEF TargetIndex
<1>2. UserDir \notin Outs /\ UserDir \in Sources
  BY OutDirAssumption DEF Outs, Sources
<1>3. /\ NoDir \in DirRecord /\ ~NoDir.there /\ NoDir.files = {} /\ NoDir.det = {} /\ ~NoDir.state
      /\ NewDir \in DirRecord /\ NewDir.there /\ NewDir.files = {}
      /\ [NewDir EXCEPT !.state = TRUE] \in DirRecord
      /\ [NewDir EXCEPT !.state = TRUE].there /\ [NewDir EXCEPT !.state = TRUE].files = {}
  BY DEF NoDir, NewDir, DirRecord
<1>4. /\ Nothing.seeds = {} /\ Nothing.det = {}
      /\ Nothing \in [seeds : SUBSET Stored, det : SUBSET Stored]
  BY DEF Nothing
<1> QED BY <1>1, <1>2, <1>3, <1>4

LEMMA DirFields ==
  ASSUME NEW d \in DirRecord, NEW fs \in SUBSET Stored, NEW ds \in SUBSET Stored
  PROVE  /\ [d EXCEPT !.files = fs] \in DirRecord
         /\ [d EXCEPT !.files = fs].files = fs /\ [d EXCEPT !.files = fs].det = d.det
         /\ [d EXCEPT !.files = fs].there = d.there /\ [d EXCEPT !.files = fs].state = d.state
         /\ [d EXCEPT !.det = ds, !.state = FALSE] \in DirRecord
         /\ [d EXCEPT !.det = ds, !.state = FALSE].files = d.files
         /\ [d EXCEPT !.det = ds, !.state = FALSE].there = d.there
         /\ [d EXCEPT !.det = ds] \in DirRecord
         /\ [d EXCEPT !.det = ds].files = d.files /\ [d EXCEPT !.det = ds].det = ds
         /\ [d EXCEPT !.det = ds].there = d.there /\ [d EXCEPT !.det = ds].state = d.state
BY DEF DirRecord

\* The disk after one subdirectory has changed.
LEMMA DirGets ==
  ASSUME DirTypes, NEW d \in Nodes, NEW p \in Subdirs, NEW x \in DirRecord, Gets(d, p, x)
  PROVE  /\ disk' \in [Nodes -> [Subdirs -> DirRecord]]
         /\ \A e \in Nodes, q \in Subdirs :
              disk'[e][q] = IF e = d /\ q = p THEN x ELSE disk[e][q]
BY DEF DirTypes, Gets

LEMMA DirInvInit == DirInit => DirInv
<1> SUFFICES ASSUME DirInit PROVE DirInv
  OBVIOUS
<1>1. DirTypes
  BY OutDirAssumption, DirConstants DEF DirInit, DirTypes, DirPhases, TargetIndex, Stored
<1>2. StatsFirst /\ OneQueue /\ FindsThere
  BY DirConstants DEF DirInit, StatsFirst, OneQueue, FindsThere, Subdirs
<1>3. DeletesNothing /\ TargetDirs /\ ReadAll
  BY DEF DirInit, DeletesNothing, TargetDirs, ReadAll, TakesOver, Makes, Works
<1> QED BY <1>1, <1>2, <1>3 DEF DirInv

LEMMA DirStart ==
  ASSUME DirInv, NEW i \in Sources, NEW o \in Outs, Start(i, o)
  PROVE  DirInv'
<1> USE DEF DirInv
<1>1. /\ source' = i /\ out' = o /\ idx' = 0 /\ exists' = exists \cup {o}
      /\ dirPhase' \in {"refused", "mkdir", "rename"}
      /\ dirPhase' = "rename" => o \in exists /\ (i # InPlace => stats[o] = "none")
      /\ UNCHANGED <<disk, stats, imported, everFound>> /\ o \in Nodes
  BY DEF Start, GoTo, AtRisk, DirTypes, Outs
<1>2. DirTypes'
  BY <1>1, DirConstants, OutDirAssumption DEF DirTypes, DirPhases, TakesOver, Makes, TargetIndex
<1>3. StatsFirst' /\ OneQueue' /\ FindsThere'
  BY <1>1 DEF StatsFirst, OneQueue, FindsThere
<1>4. DeletesNothing'
  BY <1>1 DEF DeletesNothing, TakesOver
<1>5. TargetDirs'
  BY <1>1, OutDirAssumption DEF TargetDirs, Works, Makes, TargetIndex
<1>6. ReadAll'
  BY <1>1 DEF ReadAll, Works
<1> QED BY <1>2, <1>3, <1>4, <1>5, <1>6

\* Taking over: a step that changes the directory given with -o, and lets the
\* finds there be.
LEMMA DirTakesOver ==
  ASSUME DirInv, dirPhase \in TakesOver, dirPhase' \in TakesOver \cup {"mkdir"},
         UNCHANGED <<dirArgs, idx, exists, imported, everFound>>,
         stats' \in [Nodes -> {"none", "torn", "whole"}],
         \A d \in Nodes : stats'[d] = stats[d] \/ (d = out /\ everFound[d] = {} /\ stats'[d] = "none"),
         disk' \in [Nodes -> [Subdirs -> DirRecord]],
         \A d \in Nodes, p \in Subdirs : d # out => disk'[d][p] = disk[d][p],
         OneQueue', FindsThere',
         dirPhase' = "clean" /\ source = InPlace => disk'[out]["queue"].files = {},
         dirPhase' = "delcrashes" /\ source = InPlace => disk'[out]["crashes"].files = {}
  PROVE  DirInv'
<1> USE DEF DirInv
<1>0. source' = source /\ out' = out /\ out \in Nodes /\ out \in exists /\ idx = 0
  BY DirConstants DEF DirTypes, TakesOver, dirArgs, Outs, DeletesNothing
<1>1. DirTypes'
  BY <1>0 DEF DirTypes, DirPhases, Makes, TakesOver, Works
<1>2. StatsFirst'
  BY <1>0 DEF StatsFirst, DirTypes
<1>3. DeletesNothing'
  BY <1>0 DEF DeletesNothing, DirTypes
<1>4. TargetDirs'
  BY <1>0, OutDirAssumption DEF TargetDirs, Works, Makes, TakesOver, TargetIndex
<1>5. ReadAll'
  BY <1>0 DEF ReadAll, Works, TakesOver
<1> QED BY <1>1, <1>2, <1>3, <1>4, <1>5

\* Cleaning a subdirectory of the directory given with -o loses no find.
LEMMA DirCleanDir ==
  ASSUME DirInv, NEW p \in {"queue", "crashes"}, NEW next \in {"crashes", "rest"},
         (dirPhase = "clean" /\ p = "queue") \/ (dirPhase = "delcrashes" /\ p = "crashes"),
         CleanDir(p, next)
  PROVE  DirInv'
<1> USE DEF DirInv
<1>0. /\ dirPhase \in TakesOver /\ out \in Nodes /\ out \in exists
      /\ dirPhase' \in {dirPhase, next} /\ dirPhase' \in TakesOver
      /\ UNCHANGED <<dirArgs, idx, exists, stats, imported, everFound>>
      /\ p \in Subdirs /\ disk[out][p] \in DirRecord
      /\ source = InPlace => disk[out][p].files = {}
      /\ source # InPlace => everFound[out] = {}
  BY DEF CleanDir, GoTo, TakesOver, DirTypes, DeletesNothing, StatsFirst, Outs, Subdirs
<1>1. PICK x \in DirRecord :
                            /\ Gets(out, p, x)
                            /\ x.files \subseteq disk[out][p].files
                            /\ p = "queue" /\ ~x.there => x.files = {}
                            /\ x.there => disk[out][p].there
                            /\ source = InPlace => x.files = {}
  <2>1. CASE disk[out][p].state /\ Gets(out, p, delete_state(disk[out][p]))
    <3> DEFINE x == delete_state(disk[out][p])
    <3>1. /\ x \in DirRecord /\ x.files = disk[out][p].files
          /\ x.there = disk[out][p].there
      BY <1>0 DEF delete_state, DirRecord
    <3>2. p = "queue" /\ ~disk[out][p].there => disk[out][p].files = {}
      BY <1>0 DEF OneQueue
    <3>3. Gets(out, p, x)
      BY <2>1
    <3>4. source = InPlace => x.files = {}
      BY <1>0, <3>1
    <3> HIDE DEF x
    <3> USE <3>1
    <3> WITNESS x \in DirRecord
    <3> QED BY <3>1, <3>2, <3>3, <3>4
  <2>2. CASE \E f \in disk[out][p].files : Gets(out, p, delete_file(disk[out][p], f))
    <3>1. PICK f \in disk[out][p].files : Gets(out, p, delete_file(disk[out][p], f))
      BY <2>2
    <3> DEFINE x == delete_file(disk[out][p], f)
    <3>2. /\ x \in DirRecord /\ x.files \subseteq disk[out][p].files
          /\ x.there = disk[out][p].there
      BY <1>0 DEF delete_file, DirRecord
    <3>3. p = "queue" /\ ~disk[out][p].there => disk[out][p].files = {}
      BY <1>0 DEF OneQueue
    <3>4. Gets(out, p, x)
      BY <3>1
    <3>5. source = InPlace => x.files = {}
      BY <1>0, <3>2
    <3> HIDE DEF x
    <3> USE <3>2
    <3> WITNESS x \in DirRecord
    <3> QED BY <3>2, <3>3, <3>4, <3>5
  <2>3. CASE Gets(out, p, NoDir)
    BY <2>3, DirConstants
  <2> QED BY <2>1, <2>2, <2>3 DEF CleanDir
<1>2. /\ disk' \in [Nodes -> [Subdirs -> DirRecord]]
      /\ \A e \in Nodes, q \in Subdirs :
           disk'[e][q] = IF e = out /\ q = p THEN x ELSE disk[e][q]
  <2>1. DirTypes /\ disk \in [Nodes -> [Subdirs -> DirRecord]]
    BY DEF DirTypes
  <2> HIDE DEF DirInv
  <2>2. out \in Nodes /\ p \in Subdirs /\ Gets(out, p, x)
    BY <1>0, <1>1
  <2> QED BY <2>1, <2>2, DirGets
<1>3. OneQueue'
  BY <1>0, <1>1, <1>2 DEF OneQueue, Subdirs
<1>4. FindsThere'
  <2> SUFFICES ASSUME NEW d \in Nodes, NEW f \in everFound[d]
               PROVE  \E q \in Subdirs : f \in disk'[d][q].files
    BY <1>0 DEF FindsThere
  <2>1. PICK q \in Subdirs : f \in disk[d][q].files
    BY DEF FindsThere
  <2>2. ~(d = out /\ q = p)
    BY <2>1, <1>0
  <2> QED BY <2>1, <2>2, <1>2
<1>5. /\ dirPhase' = "clean" /\ source = InPlace => disk'[out]["queue"].files = {}
      /\ dirPhase' = "delcrashes" /\ source = InPlace => disk'[out]["crashes"].files = {}
  <2>1. dirPhase' = "clean" => p = "queue"
    BY <1>0
  <2>2. dirPhase' = "delcrashes" => p = "crashes"
    BY <1>0
  <2>3. disk'[out][p] = x
    BY <1>0, <1>2
  <2> QED BY <1>0, <1>1, <2>1, <2>2, <2>3
<1>6. /\ stats' \in [Nodes -> {"none", "torn", "whole"}]
      /\ \A d \in Nodes : stats'[d] = stats[d]
      /\ \A d \in Nodes, q \in Subdirs : d # out => disk'[d][q] = disk[d][q]
  BY <1>0, <1>2 DEF DirTypes
<1> QED BY <1>0, <1>2, <1>3, <1>4, <1>5, <1>6, DirTakesOver

LEMMA DirMoveQueue == ASSUME DirInv, MoveQueue PROVE DirInv'
<1> USE DEF DirInv
<1>0. /\ dirPhase = "rename" /\ dirPhase' = "clean" /\ out \in Nodes /\ out \in exists
      /\ dirPhase \in TakesOver /\ dirPhase' \in TakesOver
      /\ UNCHANGED <<dirArgs, idx, exists, stats, imported, everFound>>
      /\ \A d \in Nodes, p \in Subdirs : disk[d][p] \in DirRecord
  BY DEF MoveQueue, GoTo, TakesOver, DirTypes, DeletesNothing, Outs
<1>1. /\ stats' \in [Nodes -> {"none", "torn", "whole"}] /\ \A d \in Nodes : stats'[d] = stats[d]
  BY <1>0 DEF DirTypes
<1>2. CASE UNCHANGED disk /\ (source = InPlace => ~disk[out]["queue"].there)
  <2>1. OneQueue' /\ FindsThere'
    BY <1>0, <1>2 DEF OneQueue, FindsThere
  <2>2. dirPhase' = "clean" /\ source = InPlace => disk'[out]["queue"].files = {}
    BY <1>0, <1>2 DEF OneQueue
  <2>3. disk' \in [Nodes -> [Subdirs -> DirRecord]]
    BY <1>2 DEF DirTypes
  <2> QED BY <1>0, <1>1, <1>2, <2>1, <2>2, <2>3, DirTakesOver
<1>3. CASE /\ disk[out]["queue"].there /\ disk[out]["_resume"].files = {}
           /\ disk' = [disk EXCEPT ![out]["_resume"] = disk[out]["queue"], ![out]["queue"] = NoDir]
  <2>1. /\ disk' \in [Nodes -> [Subdirs -> DirRecord]]
        /\ \A e \in Nodes, q \in Subdirs :
             disk'[e][q] = IF e = out /\ q = "queue" THEN NoDir
                           ELSE IF e = out /\ q = "_resume" THEN disk[out]["queue"] ELSE disk[e][q]
    BY <1>0, <1>3, DirConstants DEF DirTypes, Subdirs
  <2>2. OneQueue'
    BY <1>0, <1>3, <2>1, DirConstants DEF OneQueue, Subdirs
  <2>3. FindsThere'
    <3> SUFFICES ASSUME NEW d \in Nodes, NEW f \in everFound[d]
                 PROVE  \E p \in Subdirs : f \in disk'[d][p].files
      BY <1>0 DEF FindsThere
    <3>1. PICK p \in Subdirs : f \in disk[d][p].files
      BY DEF FindsThere
    <3>2. CASE d = out /\ p = "queue"
      BY <3>1, <3>2, <2>1 DEF Subdirs
    <3>3. CASE ~(d = out /\ p = "queue")
      BY <3>1, <3>3, <2>1, <1>3 DEF Subdirs
    <3> QED BY <3>2, <3>3
  <2>4. disk'[out]["queue"].files = {}
    BY <1>0, <2>1, DirConstants DEF Subdirs
  <2> QED BY <1>0, <1>1, <2>1, <2>2, <2>3, <2>4, DirTakesOver
<1> QED BY <1>0, <1>2, <1>3 DEF MoveQueue, Rename, NoFiles, OneQueue

LEMMA DirBackup == ASSUME DirInv, BackupCrashes PROVE DirInv'
<1> USE DEF DirInv
<1> DEFINE old == [disk[out]["crashes"] EXCEPT !.files = @ \cup disk[out]["crashes.old"].files]
<1>0. /\ dirPhase = "crashes" /\ dirPhase' = "delcrashes" /\ out \in Nodes /\ out \in exists
      /\ dirPhase \in TakesOver /\ dirPhase' \in TakesOver
      /\ UNCHANGED <<dirArgs, idx, exists, stats, imported, everFound>>
      /\ \A d \in Nodes, p \in Subdirs : disk[d][p] \in DirRecord
  BY DEF BackupCrashes, GoTo, TakesOver, DirTypes, DeletesNothing, Outs
<1>1. /\ stats' \in [Nodes -> {"none", "torn", "whole"}] /\ \A d \in Nodes : stats'[d] = stats[d]
  BY <1>0 DEF DirTypes
<1>2. CASE UNCHANGED disk /\ (source = InPlace => disk[out]["crashes"].files = {})
  <2>1. OneQueue' /\ FindsThere' /\ disk' \in [Nodes -> [Subdirs -> DirRecord]]
    BY <1>0, <1>2 DEF OneQueue, FindsThere, DirTypes
  <2> QED BY <1>0, <1>1, <1>2, <2>1, DirTakesOver
<1>3. CASE disk' = [disk EXCEPT ![out]["crashes.old"] = old, ![out]["crashes"] = NoDir]
  <2>0. /\ old \in DirRecord
        /\ old.files = disk[out]["crashes"].files \cup disk[out]["crashes.old"].files
    BY <1>0 DEF DirRecord, Subdirs
  <2> HIDE DEF old
  <2>1. /\ disk' \in [Nodes -> [Subdirs -> DirRecord]]
        /\ \A e \in Nodes, q \in Subdirs :
             disk'[e][q] = IF e = out /\ q = "crashes" THEN NoDir
                           ELSE IF e = out /\ q = "crashes.old" THEN old ELSE disk[e][q]
    BY <1>0, <1>3, <2>0, DirConstants DEF DirTypes, Subdirs
  <2>2. OneQueue'
    BY <1>0, <2>1 DEF OneQueue, Subdirs
  <2>3. FindsThere'
    <3> SUFFICES ASSUME NEW d \in Nodes, NEW f \in everFound[d]
                 PROVE  \E p \in Subdirs : f \in disk'[d][p].files
      BY <1>0 DEF FindsThere
    <3>1. PICK p \in Subdirs : f \in disk[d][p].files
      BY DEF FindsThere
    <3>2. CASE d = out /\ p \in {"crashes", "crashes.old"}
      BY <3>1, <3>2, <2>0, <2>1 DEF Subdirs
    <3>3. CASE ~(d = out /\ p \in {"crashes", "crashes.old"})
      BY <3>1, <3>3, <2>1
    <3> QED BY <3>2, <3>3
  <2>4. disk'[out]["crashes"].files = {}
    BY <1>0, <2>1, DirConstants DEF Subdirs
  <2> QED BY <1>0, <1>1, <2>1, <2>2, <2>3, <2>4, DirTakesOver
<1> QED BY <1>0, <1>2, <1>3 DEF BackupCrashes, NoFiles

LEMMA DirCleanRest == ASSUME DirInv, CleanRest PROVE DirInv'
<1> USE DEF DirInv
<1>0. /\ dirPhase = "rest" /\ dirPhase' = "mkdir" /\ out \in Nodes
      /\ dirPhase \in TakesOver
      /\ UNCHANGED <<dirArgs, idx, exists, disk, imported, everFound>>
      /\ source # InPlace => stats[out] = "none"
  BY DEF CleanRest, GoTo, TakesOver, DirTypes, DeletesNothing, Outs
<1>1. stats' = stats
  BY <1>0 DEF CleanRest, DirTypes
<1>2. /\ stats' \in [Nodes -> {"none", "torn", "whole"}] /\ \A d \in Nodes : stats'[d] = stats[d]
      /\ OneQueue' /\ FindsThere' /\ disk' \in [Nodes -> [Subdirs -> DirRecord]]
  BY <1>0, <1>1 DEF OneQueue, FindsThere, DirTypes
<1> QED BY <1>0, <1>2, DirTakesOver

-----------------------------------------------------------------------------
\* What the start of a session works on: the directory of one target.
LEMMA DirTarget ==
  ASSUME DirInv, dirPhase \in Makes \cup Works \cup {"read"}, NEW t \in TargetIndex
  PROVE  /\ out \in Outs /\ out \in Nodes /\ Below(out, t) \in Nodes
         /\ (disk[Below(out, t)]["queue"].there => Below(out, t) \in exists)
         /\ \A p \in Subdirs : disk[Below(out, t)][p] \in DirRecord
         /\ \A u \in TargetIndex : u # t => Below(out, u) # Below(out, t)
<1> USE DEF DirInv
<1>1. out \in Outs /\ out \in Nodes
  BY DEF DirTypes, Makes, Works, Outs
<1>2. Below(out, t) \in Nodes
  BY <1>1, BelowNode
<1>3. \A u \in TargetIndex : u # t => Below(out, u) # Below(out, t)
  BY <1>1, BelowInjective
<1>4. disk[Below(out, t)]["queue"].there => Below(out, t) \in exists
  BY <1>2, DirConstants DEF StatsFirst, Subdirs
<1>5. \A p \in Subdirs : disk[Below(out, t)][p] \in DirRecord
  BY <1>2 DEF DirTypes
<1> QED BY <1>1, <1>2, <1>3, <1>4, <1>5

LEMMA DirMkdir == ASSUME DirInv, NEW t \in TargetIndex, Mkdir(t) PROVE DirInv'
<1> USE DEF DirInv
<1>0. /\ dirPhase = "mkdir" /\ t = idx /\ exists' = exists \cup {Below(out, t)}
      /\ dirPhase' \in {"fatal", "mkqueue"}
      /\ dirPhase' = "mkqueue" => Below(out, t) \notin exists
      /\ source' = source /\ out' = out
      /\ UNCHANGED <<idx, disk, stats, imported, everFound>>
      /\ Below(out, t) \in Nodes /\ out \in Outs
  BY DirTarget DEF Mkdir, GoTo, dirArgs, Makes
<1>1. DirTypes'
  BY <1>0 DEF DirTypes, DirPhases, Makes
<1>2. StatsFirst' /\ OneQueue' /\ FindsThere'
  BY <1>0 DEF StatsFirst, OneQueue, FindsThere
<1>3. DeletesNothing' /\ ReadAll'
  BY <1>0 DEF DeletesNothing, TakesOver, ReadAll, Works
<1>4. TargetDirs'
  BY <1>0 DEF TargetDirs, StatsFirst, Makes, Works
<1> QED BY <1>1, <1>2, <1>3, <1>4

LEMMA DirMkQueue == ASSUME DirInv, NEW t \in TargetIndex, MkQueue(t) PROVE DirInv'
<1> USE DEF DirInv
<1> DEFINE d == Below(out, t)
           x == [NewDir EXCEPT !.state = TRUE]
<1>0. /\ dirPhase = "mkqueue" /\ t = idx /\ dirPhase' = "mkcrashes"
      /\ source' = source /\ out' = out
      /\ UNCHANGED <<idx, exists, stats, imported, everFound>> /\ Gets(d, "queue", x)
  BY DEF MkQueue, GoTo, dirArgs
<1>1. /\ out \in Outs /\ d \in Nodes /\ \A u \in TargetIndex : u # t => Below(out, u) # d
  BY <1>0, DirTarget DEF Makes
<1>2. /\ d \in exists /\ stats[d] = "none" /\ everFound[d] = {}
      /\ ~disk[d]["_resume"].there
  BY <1>0, <1>1, DirConstants DEF TargetDirs, StatsFirst, Subdirs
<1>3. x \in DirRecord /\ x.there /\ x.files = {} /\ "queue" \in Subdirs /\ "_resume" \in Subdirs
  BY DirConstants DEF Subdirs
<1> HIDE DEF x
<1>4. /\ disk' \in [Nodes -> [Subdirs -> DirRecord]]
      /\ \A e \in Nodes, q \in Subdirs :
           disk'[e][q] = IF e = d /\ q = "queue" THEN x ELSE disk[e][q]
  BY <1>0, <1>1, <1>3, DirGets
<1>5. DirTypes'
  BY <1>0, <1>4 DEF DirTypes, DirPhases, Makes
<1> HIDE DEF d
<1>6. StatsFirst' /\ OneQueue'
  BY <1>0, <1>1, <1>2, <1>3, <1>4 DEF StatsFirst, OneQueue
<1>7. FindsThere'
  BY <1>0, <1>1, <1>2, <1>4 DEF FindsThere
<1>8. DeletesNothing' /\ ReadAll'
  BY <1>0 DEF DeletesNothing, TakesOver, ReadAll, Works
<1>9. TargetDirs'
  <2>1. stats[Below(out, idx)] = "none"
    BY <1>0, <1>2 DEF d
  <2>2. ASSUME NEW u \in TargetIndex, u < idx
        PROVE  disk'[Below(out, u)]["queue"].there /\ disk'[Below(out, u)]["queue"].files = {}
    <3>1. u # t /\ Below(out, u) # d /\ Below(out, u) \in Nodes
      BY <1>0, <1>1, <2>2, BelowNode DEF TargetIndex
    <3> QED BY <1>0, <1>3, <1>4, <2>2, <3>1 DEF TargetDirs, Makes
  <2>3. disk'[Below(out, idx)]["queue"].there /\ disk'[Below(out, idx)]["queue"].files = {}
    BY <1>0, <1>1, <1>3, <1>4 DEF d
  <2> QED BY <1>0, <2>1, <2>2, <2>3 DEF TargetDirs, Makes, Works
<1> QED BY <1>5, <1>6, <1>7, <1>8, <1>9

LEMMA DirMkCrashes == ASSUME DirInv, NEW t \in TargetIndex, MkCrashes(t) PROVE DirInv'
<1> USE DEF DirInv
<1> DEFINE d == Below(out, t)
<1>0. /\ dirPhase = "mkcrashes" /\ t = idx /\ source' = source /\ out' = out
      /\ UNCHANGED <<exists, stats, imported, everFound>> /\ Gets(d, "crashes", NewDir)
      /\ \/ t + 1 = TargetNum /\ dirPhase' = "read" /\ idx' = 0
         \/ t + 1 # TargetNum /\ dirPhase' = "mkdir" /\ idx' = t + 1
  BY DEF MkCrashes, GoTo, dirArgs
<1>1. /\ out \in Outs /\ d \in Nodes /\ (disk[d]["queue"].there => d \in exists)
  BY <1>0, DirTarget DEF Makes
<1>2. /\ disk[d]["queue"].there /\ stats[d] = "none" /\ everFound[d] = {}
  BY <1>0, <1>1 DEF TargetDirs, StatsFirst
<1>3. NewDir \in DirRecord /\ "queue" \in Subdirs /\ "_resume" \in Subdirs /\ "crashes" \in Subdirs
  BY DirConstants DEF Subdirs
<1>4. /\ disk' \in [Nodes -> [Subdirs -> DirRecord]]
      /\ \A e \in Nodes, q \in Subdirs :
           disk'[e][q] = IF e = d /\ q = "crashes" THEN NewDir ELSE disk[e][q]
  BY <1>0, <1>1, <1>3, DirGets
<1>5. \A u \in TargetIndex : Below(out, u) \in Nodes
  BY <1>1, BelowNode
<1> HIDE DEF d
<1>6. DirTypes'
  BY <1>0, <1>1, <1>4, OutDirAssumption DEF DirTypes, DirPhases, Makes, TargetIndex
<1>7. StatsFirst' /\ OneQueue'
  BY <1>0, <1>1, <1>2, <1>3, <1>4 DEF StatsFirst, OneQueue
<1>8. FindsThere'
  BY <1>0, <1>1, <1>2, <1>4 DEF FindsThere
<1>9. DeletesNothing' /\ ReadAll'
  BY <1>0 DEF DeletesNothing, TakesOver, ReadAll, Works, TargetIndex
<1>10. TargetDirs'
  <2>1. ASSUME NEW u \in TargetIndex, u < idx \/ u = idx
        PROVE  disk'[Below(out, u)]["queue"].there /\ disk'[Below(out, u)]["queue"].files = {}
    BY <1>0, <1>3, <1>4, <1>5, <2>1 DEF TargetDirs, Makes
  <2>2. \A u \in TargetIndex : (dirPhase' = "read" \/ u < idx') => u < idx \/ u = idx
    BY <1>0, OutDirAssumption DEF TargetIndex
  <2> QED BY <1>0, <2>1, <2>2 DEF TargetDirs, Makes, Works
<1> QED BY <1>6, <1>7, <1>8, <1>9, <1>10

LEMMA DirReadTestcases ==
  ASSUME DirInv, NEW t \in TargetIndex, NEW beside \in SUBSET {Beside}, ReadTestcases(t, beside)
  PROVE  DirInv'
<1> USE DEF DirInv
<1> DEFINE d  == Below(source, t)
           in == CASE source = UserDir -> [Nothing EXCEPT !.seeds = InputSeeds]
                   [] source # UserDir /\ d \notin exists -> Nothing
                   [] source # UserDir /\ d \in exists ->
                        IF disk[d]["queue"].there
                        THEN [seeds |-> disk[d]["queue"].files,
                              det |-> disk[d]["queue"].det \cap disk[d]["queue"].files]
                        ELSE [Nothing EXCEPT !.seeds = beside]
<1>0. /\ dirPhase = "read" /\ t = idx /\ source' = source /\ out' = out
      /\ imported' = [imported EXCEPT ![t] = in]
      /\ \/ dirPhase' = "fatal" /\ idx' = idx
         \/ in.seeds # {} /\ t + 1 = TargetNum /\ dirPhase' = "pivot" /\ idx' = 0
         \/ in.seeds # {} /\ t + 1 # TargetNum /\ dirPhase' = "read" /\ idx' = t + 1
      /\ UNCHANGED <<exists, disk, stats, everFound>>
  BY DEF ReadTestcases, GoTo, dirArgs
<1>1. out \in Outs /\ \A u \in TargetIndex : Below(out, u) \in Nodes
  BY <1>0, DirTarget
<1>2. source \in Outs =>
        /\ d \in Nodes
        /\ disk[d]["queue"].files \subseteq in.seeds
        /\ disk[d]["queue"].det \cap disk[d]["queue"].files \subseteq in.det
        /\ source = out => in.seeds = {}
  <2> SUFFICES ASSUME source \in Outs
               PROVE  /\ d \in Nodes
                      /\ disk[d]["queue"].files \subseteq in.seeds
                      /\ disk[d]["queue"].det \cap disk[d]["queue"].files \subseteq in.det
                      /\ source = out => in.seeds = {}
    OBVIOUS
  <2>1. d \in Nodes /\ source # UserDir
    BY BelowNode, DirConstants
  <2>2. CASE d \notin exists
    <3>1. disk[d]["queue"].files = {} /\ in = Nothing
      BY <2>1, <2>2, DirConstants DEF StatsFirst, Subdirs
    <3> QED BY <2>1, <3>1, DirConstants
  <2>3. CASE d \in exists /\ disk[d]["queue"].there
    <3>1. in = [seeds |-> disk[d]["queue"].files,
                det |-> disk[d]["queue"].det \cap disk[d]["queue"].files]
      BY <2>1, <2>3
    <3>2. source = out => disk[d]["queue"].files = {}
      BY <1>0 DEF TargetDirs
    <3> HIDE DEF in
    <3> QED BY <2>1, <3>1, <3>2
  <2>4. CASE d \in exists /\ ~disk[d]["queue"].there
    <3>1. disk[d]["queue"].files = {}
      BY <2>1, <2>4 DEF OneQueue
    <3>2. source # out
      BY <1>0, <2>4 DEF TargetDirs
    <3> QED BY <2>1, <3>1, <3>2
  <2> QED BY <2>2, <2>3, <2>4
<1>3. in \in [seeds : SUBSET Stored, det : SUBSET Stored]
  <2>1. CASE source = UserDir
    BY <2>1 DEF Nothing, Stored
  <2>2. CASE source # UserDir /\ d \notin exists
    BY <2>2 DEF Nothing
  <2>3. CASE source # UserDir /\ d \in exists /\ disk[d]["queue"].there
    <3>1. disk[d]["queue"] \in DirRecord
      BY <2>3 DEF DirTypes, Subdirs
    <3> QED BY <2>3, <3>1 DEF DirRecord
  <2>4. CASE source # UserDir /\ d \in exists /\ ~disk[d]["queue"].there
    BY <2>4 DEF Nothing, Stored
  <2> QED BY <2>1, <2>2, <2>3, <2>4
<1> HIDE DEF in, d
<1>4. /\ imported' \in [TargetIndex -> [seeds : SUBSET Stored, det : SUBSET Stored]]
      /\ imported'[t] = in /\ \A u \in TargetIndex : u # t => imported'[u] = imported[u]
  BY <1>0, <1>3 DEF DirTypes
<1>5. DirTypes'
  BY <1>0, <1>4, OutDirAssumption DEF DirTypes, DirPhases, Makes, Works, TargetIndex
<1>6. StatsFirst' /\ OneQueue' /\ FindsThere'
  BY <1>0 DEF StatsFirst, OneQueue, FindsThere
<1>7. DeletesNothing' /\ TargetDirs'
  BY <1>0, OutDirAssumption DEF DeletesNothing, TargetDirs, TakesOver, Makes, Works, TargetIndex
<1>8. ReadAll'
  <2> SUFFICES ASSUME source \in Outs, NEW u \in TargetIndex
               PROVE  /\ dirPhase' \in Works => source # out
                      /\ dirPhase' \in Works \/ (dirPhase' = "read" /\ u < idx') =>
                           /\ disk[Below(source, u)]["queue"].files \subseteq imported'[u].seeds
                           /\ disk[Below(source, u)]["queue"].det
                                \cap disk[Below(source, u)]["queue"].files \subseteq imported'[u].det
                      /\ ~(dirPhase' \in {"run", "stats"} \/ (dirPhase' = "pivot" /\ u < idx'))
    BY <1>0 DEF ReadAll
  <2>1. dirPhase' \in Works => source # out
    BY <1>0, <1>2 DEF Works
  <2>2. ~(dirPhase' \in {"run", "stats"} \/ (dirPhase' = "pivot" /\ u < idx'))
    BY <1>0 DEF TargetIndex
  <2>3. CASE u = t
    BY <1>2, <1>4, <2>1, <2>2, <2>3 DEF d
  <2>4. CASE u # t
    <3>1. dirPhase' \in Works \/ (dirPhase' = "read" /\ u < idx') => u < idx
      BY <1>0, <2>4, OutDirAssumption DEF TargetIndex, Works
    <3> QED BY <1>0, <1>4, <2>1, <2>2, <2>4, <3>1 DEF ReadAll
  <2> QED BY <2>3, <2>4
<1> QED BY <1>5, <1>6, <1>7, <1>8

\* Work in a target's directory: a subdirectory grows, and finds are in it.
LEMMA DirGrows ==
  ASSUME DirInv, dirPhase \in Works, NEW t \in TargetIndex, NEW p \in {"queue", "crashes"},
         NEW x \in DirRecord, Gets(Below(out, t), p, x),
         disk[Below(out, t)][p].files \subseteq x.files, disk[Below(out, t)][p].det \subseteq x.det,
         x.there = disk[Below(out, t)][p].there,
         UNCHANGED <<dirPhase, dirArgs, idx, exists, stats, imported>>,
         everFound' \in [Nodes -> SUBSET Stored],
         \A d \in Nodes : d # Below(out, t) => everFound'[d] = everFound[d],
         stats[Below(out, t)] = "none" => everFound'[Below(out, t)] = everFound[Below(out, t)],
         everFound'[Below(out, t)] \subseteq everFound[Below(out, t)] \cup x.files
  PROVE  DirInv'
<1> USE DEF DirInv
<1> DEFINE d == Below(out, t)
<1>0. /\ out \in Outs /\ d \in Nodes /\ d \in exists /\ disk[d]["queue"].there
      /\ source' = source /\ out' = out /\ p \in Subdirs
      /\ \A u \in TargetIndex : Below(out, u) \in Nodes
      /\ {"queue", "_resume", "crashes"} \subseteq Subdirs
  BY DirTarget DEF TargetDirs, dirArgs, Subdirs
<1>1. /\ disk' \in [Nodes -> [Subdirs -> DirRecord]]
      /\ \A e \in Nodes, q \in Subdirs :
           disk'[e][q] = IF e = d /\ q = p THEN x ELSE disk[e][q]
  BY <1>0, DirGets
<1>2. \A e \in Nodes, q \in Subdirs :
        /\ disk[e][q].files \subseteq disk'[e][q].files
        /\ disk[e][q].det \subseteq disk'[e][q].det
        /\ disk'[e][q].there = disk[e][q].there
        /\ e # d => disk'[e][q] = disk[e][q]
  BY <1>1
<1>3. DirTypes'
  BY <1>0, <1>1 DEF DirTypes
<1>4. StatsFirst'
  <2> SUFFICES ASSUME NEW e \in Nodes
               PROVE  /\ e \notin exists =>
                           stats[e] = "none" /\ \A q \in Subdirs : disk'[e][q] = NoDir
                      /\ stats[e] = "none" => everFound'[e] = {}
    BY DEF StatsFirst
  <2>1. CASE e = d
    <3>1. stats[d] = "none" => everFound[d] = {}
      BY <1>0 DEF StatsFirst
    <3> QED BY <2>1, <3>1, <1>0
  <2>2. CASE e # d
    BY <2>2, <1>2 DEF StatsFirst
  <2> QED BY <2>1, <2>2
<1>5. OneQueue'
  <2> SUFFICES ASSUME NEW e \in Nodes
               PROVE  /\ \A q \in {"queue", "_resume"} : ~disk'[e][q].there => disk'[e][q].files = {}
                      /\ disk'[e]["_resume"].there => ~disk'[e]["queue"].there
    BY DEF OneQueue
  <2>1. CASE e # d
    BY <2>1, <1>0, <1>2 DEF OneQueue
  <2>2. CASE e = d
    <3>1. disk'[d]["queue"].there /\ disk'[d]["_resume"] = disk[d]["_resume"]
      BY <1>0, <1>1
    <3> QED BY <2>2, <3>1, <1>0 DEF OneQueue
  <2> QED BY <2>1, <2>2
<1>6. FindsThere'
  <2> SUFFICES ASSUME NEW e \in Nodes, NEW f \in everFound'[e]
               PROVE  \E q \in Subdirs : f \in disk'[e][q].files
    BY DEF FindsThere
  <2>1. CASE f \in everFound[e]
    <3>1. PICK q \in Subdirs : f \in disk[e][q].files
      BY <2>1 DEF FindsThere
    <3> QED BY <3>1, <1>2
  <2>2. CASE f \notin everFound[e]
    BY <2>2, <1>0, <1>1
  <2> QED BY <2>1, <2>2
<1>7. DeletesNothing' /\ TargetDirs'
  <2>1. \A u \in TargetIndex :
          disk'[Below(out, u)]["queue"].there = disk[Below(out, u)]["queue"].there
    BY <1>0, <1>2
  <2> QED BY <1>0, <2>1 DEF DeletesNothing, TargetDirs, TakesOver, Makes, Works
<1>8. ReadAll'
  <2> SUFFICES ASSUME source \in Outs, NEW u \in TargetIndex
               PROVE  LET from == disk'[Below(source, u)]["queue"]
                          to   == disk'[Below(out, u)]["queue"]
                          all  == imported[u]
                      IN /\ dirPhase \in Works => source # out
                         /\ dirPhase \in Works \/ (dirPhase = "read" /\ u < idx) =>
                              from.files \subseteq all.seeds /\ from.det \cap from.files \subseteq all.det
                         /\ dirPhase \in {"run", "stats"} \/ (dirPhase = "pivot" /\ u < idx) =>
                              all.seeds \subseteq to.files /\ all.seeds \cap all.det \subseteq to.det
    BY <1>0 DEF ReadAll
  <2>1. source # out
    BY DEF ReadAll
  <2>2. Below(source, u) \in Nodes /\ Below(source, u) # d
    BY <1>0, <2>1, BelowNode, BelowInjective
  <2>3. disk'[Below(source, u)]["queue"] = disk[Below(source, u)]["queue"]
    BY <1>0, <1>2, <2>2
  <2>4. /\ disk[Below(out, u)]["queue"].files \subseteq disk'[Below(out, u)]["queue"].files
        /\ disk[Below(out, u)]["queue"].det \subseteq disk'[Below(out, u)]["queue"].det
    BY <1>0, <1>2
  <2> QED BY <2>3, <2>4 DEF ReadAll
<1> QED BY <1>3, <1>4, <1>5, <1>6, <1>7, <1>8

LEMMA DirPivotInput ==
  ASSUME DirInv, NEW t \in TargetIndex, NEW s \in Stored, PivotInput(t, s) \/ MarkPivoted(t, s)
                                                          \/ mark_as_det_done(t, s)
  PROVE  DirInv'
<1> DEFINE d == Below(out, t)
           q == disk[d]["queue"]
<1>0. /\ dirPhase \in Works
      /\ UNCHANGED <<dirPhase, dirArgs, idx, exists, stats, imported, everFound>>
      /\ \/ Gets(d, "queue", [q EXCEPT !.files = q.files \cup {s}])
         \/ Gets(d, "queue", [q EXCEPT !.det = q.det \cup {s}])
  BY DEF PivotInput, MarkPivoted, mark_as_det_done, Fuzzing, Works
<1>1. d \in Nodes /\ q \in DirRecord
  BY <1>0, DirTarget DEF Subdirs
<1>2. q.files \subseteq Stored /\ q.det \subseteq Stored
  BY <1>1 DEF DirRecord
<1>3. PICK x \in DirRecord :
        /\ Gets(d, "queue", x) /\ q.files \subseteq x.files /\ q.det \subseteq x.det
        /\ x.there = q.there
  <2>1. CASE Gets(d, "queue", [q EXCEPT !.files = q.files \cup {s}])
    <3> DEFINE x == [q EXCEPT !.files = q.files \cup {s}]
    <3>1. x \in DirRecord /\ q.files \subseteq x.files /\ q.det \subseteq x.det /\ x.there = q.there
      <4> HIDE DEF q
      <4> QED BY <1>1 DEF DirRecord
    <3>2. Gets(d, "queue", x)
      BY <2>1
    <3> HIDE DEF x, q
    <3> QED BY <3>1, <3>2
  <2>2. CASE Gets(d, "queue", [q EXCEPT !.det = q.det \cup {s}])
    <3> DEFINE x == [q EXCEPT !.det = q.det \cup {s}]
    <3>1. x \in DirRecord /\ q.files \subseteq x.files /\ q.det \subseteq x.det /\ x.there = q.there
      <4> HIDE DEF q
      <4> QED BY <1>1 DEF DirRecord
    <3>2. Gets(d, "queue", x)
      BY <2>2
    <3> HIDE DEF x, q
    <3> QED BY <3>1, <3>2
  <2> QED BY <1>0, <2>1, <2>2
<1>4. everFound \in [Nodes -> SUBSET Stored]
  BY DEF DirInv, DirTypes
<1> QED BY <1>0, <1>3, <1>4, DirGrows

LEMMA DirAdd ==
  ASSUME DirInv, NEW t \in TargetIndex, NEW s \in Stored, NEW p \in {"queue", "crashes"},
         Fuzzing, Keeps(Below(out, t), p, s)
  PROVE  DirInv'
<1> DEFINE d == Below(out, t)
           q == disk[d][p]
           x == [q EXCEPT !.files = q.files \cup {s}]
<1>0. /\ dirPhase \in Works
      /\ UNCHANGED <<dirPhase, dirArgs, idx, exists, stats, imported>>
      /\ Gets(d, p, x)
      /\ everFound' = [everFound EXCEPT ![d] = everFound[d] \cup {s}]
  BY DEF Keeps, Fuzzing, Works
<1>1. d \in Nodes /\ q \in DirRecord
  BY <1>0, DirTarget DEF Subdirs
<1>2. /\ x \in DirRecord /\ x.files = q.files \cup {s} /\ q.det \subseteq x.det
      /\ x.there = q.there
  <2> HIDE DEF q
  <2> QED BY <1>1 DEF DirRecord
<1>3. /\ everFound' \in [Nodes -> SUBSET Stored]
      /\ everFound'[d] = everFound[d] \cup {s}
      /\ \A e \in Nodes : e # d => everFound'[e] = everFound[e]
  BY <1>0, <1>1 DEF DirInv, DirTypes
<1>4. stats[d] # "none"
  BY OutDirAssumption DEF DirInv, TargetDirs, Fuzzing, TargetIndex
<1> HIDE DEF x
<1> QED BY <1>0, <1>2, <1>3, <1>4, DirGrows

LEMMA DirPivotDone == ASSUME DirInv, NEW t \in TargetIndex, PivotDone(t) PROVE DirInv'
<1> USE DEF DirInv
<1> DEFINE q == disk[Below(out, t)]["queue"]
<1>0. /\ dirPhase = "pivot" /\ t = idx /\ source' = source /\ out' = out
      /\ q.files = imported[t].seeds /\ q.files \cap imported[t].det \subseteq q.det
      /\ \/ t + 1 = TargetNum /\ dirPhase' = "run" /\ idx' = 0
         \/ t + 1 # TargetNum /\ dirPhase' = "pivot" /\ idx' = t + 1
      /\ UNCHANGED <<exists, disk, stats, imported, everFound>>
  BY DEF PivotDone, Marked, GoTo, dirArgs
<1>1. DirTypes'
  BY <1>0, OutDirAssumption DEF DirTypes, DirPhases, Works, TargetIndex
<1>2. StatsFirst' /\ OneQueue' /\ FindsThere'
  BY <1>0 DEF StatsFirst, OneQueue, FindsThere
<1>3. DeletesNothing' /\ TargetDirs'
  BY <1>0 DEF DeletesNothing, TargetDirs, TakesOver, Makes, Works, TargetIndex
<1>4. ReadAll'
  <2>1. \A u \in TargetIndex : u < idx \/ u = t \/ ~(dirPhase' = "run" \/ u < idx')
    BY <1>0, OutDirAssumption DEF TargetIndex
  <2>2. imported[t].seeds \subseteq q.files /\ imported[t].seeds \cap imported[t].det \subseteq q.det
    BY <1>0
  <2> QED BY <1>0, <2>1, <2>2 DEF ReadAll, Works
<1> QED BY <1>1, <1>2, <1>3, <1>4

LEMMA DirStats ==
  ASSUME DirInv, NEW t \in TargetIndex, OpenStats(t) \/ CloseStats(t)
  PROVE  DirInv'
<1> USE DEF DirInv
<1>0. /\ source' = source /\ out' = out
      /\ \/ /\ dirPhase = "run" /\ dirPhase' = "stats" /\ idx' = idx /\ (idx < TargetNum => t = idx)
            /\ stats' = [stats EXCEPT ![Below(out, t)] = "torn"]
         \/ /\ dirPhase = "stats" /\ dirPhase' = "run"
            /\ stats' = [stats EXCEPT ![Below(out, t)] = "whole"]
            /\ idx' = IF idx < TargetNum THEN idx + 1 ELSE idx
      /\ UNCHANGED <<exists, disk, imported, everFound>>
  BY DEF OpenStats, CloseStats, GoTo, dirArgs
<1>1. /\ out \in Outs /\ Below(out, t) \in Nodes /\ Below(out, t) \in exists
      /\ \A u \in TargetIndex : Below(out, u) \in Nodes
  BY <1>0, DirTarget DEF Works, TargetDirs
<1>2. /\ stats' \in [Nodes -> {"none", "torn", "whole"}]
      /\ stats'[Below(out, t)] # "none"
      /\ \A d \in Nodes : d # Below(out, t) => stats'[d] = stats[d]
  BY <1>0, <1>1 DEF DirTypes
<1>3. DirTypes'
  BY <1>0, <1>2, OutDirAssumption DEF DirTypes, DirPhases, Works
<1>4. StatsFirst' /\ OneQueue' /\ FindsThere'
  BY <1>0, <1>1, <1>2 DEF StatsFirst, OneQueue, FindsThere
<1>5. DeletesNothing' /\ ReadAll'
  BY <1>0 DEF DeletesNothing, ReadAll, TakesOver, Works
<1>6. TargetDirs'
  <2>1. \A u \in TargetIndex : u < idx' \/ (dirPhase' = "stats" /\ u = idx') =>
          u < idx \/ u = t \/ (dirPhase = "stats" /\ u = idx)
    BY <1>0, OutDirAssumption DEF TargetIndex, DirTypes
  <2>2. \A u \in TargetIndex : u < idx' \/ (dirPhase' = "stats" /\ u = idx') =>
          stats'[Below(out, u)] # "none"
    BY <1>0, <1>1, <1>2, <2>1 DEF TargetDirs
  <2> QED BY <1>0, <2>2 DEF TargetDirs, Makes, Works
<1> QED BY <1>3, <1>4, <1>5, <1>6

LEMMA DirKilled == ASSUME DirInv, Killed \/ UNCHANGED dirVars PROVE DirInv'
<1> USE DEF DirInv
<1>1. CASE Killed
  <2>0. /\ dirPhase' = "off" /\ source' = UserDir /\ out' = UserDir /\ idx' = 0
        /\ imported' = [t \in TargetIndex |-> Nothing]
        /\ UNCHANGED <<exists, disk, stats, everFound>>
    BY <1>1 DEF Killed, GoTo
  <2>1. DirTypes'
    BY <2>0, DirConstants, OutDirAssumption DEF DirTypes, DirPhases
  <2>2. StatsFirst' /\ OneQueue' /\ FindsThere'
    BY <2>0 DEF StatsFirst, OneQueue, FindsThere
  <2>3. DeletesNothing' /\ TargetDirs' /\ ReadAll'
    BY <2>0, DirConstants DEF DeletesNothing, TargetDirs, ReadAll, TakesOver, Makes, Works
  <2> QED BY <2>1, <2>2, <2>3
<1>2. CASE UNCHANGED dirVars
  BY <1>2 DEF dirVars, DirTypes, StatsFirst, OneQueue, FindsThere, DeletesNothing, TargetDirs,
              ReadAll
<1> QED BY <1>1, <1>2

LEMMA DirInvStep == DirInv /\ [DirNext]_dirVars => DirInv'
<1> SUFFICES ASSUME DirInv, [DirNext]_dirVars PROVE DirInv'
  OBVIOUS
<1>0. "queue" \in {"queue", "crashes"} /\ "crashes" \in {"queue", "crashes"}
  OBVIOUS
<1>1. ASSUME NEW i \in Sources, NEW o \in Outs, Start(i, o) PROVE DirInv'
  BY <1>1, DirStart
<1>2. CASE MoveQueue
  BY <1>2, DirMoveQueue
<1>3. CASE CleanQueue
  BY <1>3, DirCleanDir DEF CleanQueue
<1>4. CASE BackupCrashes
  BY <1>4, DirBackup
<1>5. CASE CleanCrashes
  BY <1>5, DirCleanDir DEF CleanCrashes
<1>6. CASE CleanRest
  BY <1>6, DirCleanRest
<1>7. CASE Killed \/ UNCHANGED dirVars
  BY <1>7, DirKilled
<1>8. ASSUME NEW t \in TargetIndex,
             \/ Mkdir(t) \/ MkQueue(t) \/ MkCrashes(t) \/ PivotDone(t) \/ OpenStats(t)
             \/ CloseStats(t)
      PROVE  DirInv'
  BY <1>8, DirMkdir, DirMkQueue, DirMkCrashes, DirPivotDone, DirStats
<1>9. ASSUME NEW t \in TargetIndex, NEW beside \in SUBSET {Beside}, ReadTestcases(t, beside)
      PROVE  DirInv'
  BY <1>9, DirReadTestcases
<1>10. ASSUME NEW t \in TargetIndex, NEW s \in InputSeeds \cup FoundSeeds \cup {Beside},
              PivotInput(t, s) \/ MarkPivoted(t, s) \/ mark_as_det_done(t, s)
       PROVE  DirInv'
  <2>1. s \in Stored
    BY DEF Stored
  <2> QED BY <1>10, <2>1, DirPivotInput
<1>11. ASSUME NEW t \in TargetIndex, NEW s \in FoundSeeds, AddSeed(t, s) PROVE DirInv'
  <2>1. s \in Stored /\ Fuzzing /\ Keeps(Below(out, t), "queue", s)
    BY <1>11 DEF Stored, AddSeed
  <2> QED BY <2>1, <1>0, DirAdd
<1>12. ASSUME NEW t \in TargetIndex, NEW c \in Crashes, AddCrash(t, c) PROVE DirInv'
  <2>1. c \in Stored /\ Fuzzing /\ Keeps(Below(out, t), "crashes", c)
    BY <1>12 DEF Stored, AddCrash
  <2> QED BY <2>1, <1>0, DirAdd
<1> QED BY <1>1, <1>2, <1>3, <1>4, <1>5, <1>6, <1>7, <1>8, <1>9, <1>10, <1>11, <1>12 DEF DirNext

LEMMA DirInvSound == DirInv => WorkSurvives
<1> SUFFICES ASSUME DirInv PROVE WorkSurvives
  OBVIOUS
<1>1. FindsKept
  BY DEF DirInv, FindsThere, FindsKept
<1>2. CarriedOver
  <2> SUFFICES ASSUME source \in Outs, dirPhase \in {"run", "stats"}, NEW t \in TargetIndex
               PROVE  LET from == disk[Below(source, t)]["queue"]
                          to   == disk[Below(out, t)]["queue"]
                      IN from.files \subseteq to.files /\ from.det \cap from.files \subseteq to.det
    BY DEF CarriedOver
  <2> DEFINE from == disk[Below(source, t)]["queue"]
             to   == disk[Below(out, t)]["queue"]
             all  == imported[t]
  <2>1. /\ from.files \subseteq all.seeds /\ from.det \cap from.files \subseteq all.det
        /\ all.seeds \subseteq to.files /\ all.seeds \cap all.det \subseteq to.det
    BY DEF DirInv, ReadAll, Works
  <2> HIDE DEF from, to, all
  <2>2. from.files \subseteq to.files /\ from.det \cap from.files \subseteq to.det
    BY <2>1
  <2> QED BY <2>2 DEF from, to
<1> QED BY <1>1, <1>2 DEF WorkSurvives

\* What the sessions find is never deleted by a later one, whatever directories
\* it is given and wherever it is killed, and a session given the directory of
\* another goes on with all that is in its queues (src/afl-fuzz.c:4044-4290,
\* 7575-7706, 8647-8661, 8218-8227).
THEOREM WorkSurvivesHolds == DirSpec => []WorkSurvives
<1>1. DirInit => DirInv
  BY DirInvInit
<1>2. DirInv /\ [DirNext]_dirVars => DirInv'
  BY DirInvStep
<1>3. DirInv => WorkSurvives
  BY DirInvSound
<1> QED BY <1>1, <1>2, <1>3, PTL DEF DirSpec

-----------------------------------------------------------------------------
(* The selection of targets.                                               *)

\* What can be told from a NaN: scores lie far above the number standing for it.
Score(x) == x = NaN \/ (x \in Int /\ x >= -1000 /\ x <= 1000)
IsRange(r) == r \in [lo : Int, hi : Int]

LEMMA NaNIsFar == NaN \in Int /\ NaN < -2000
  BY DEF NaN

LEMMA Quotient ==
  ASSUME NEW a \in Nat, NEW d \in Nat, a <= d, d > 0
  PROVE  (Unit * a) \div d \in 0 .. Unit
  BY DEF Unit

LEMMA ProductBound ==
  ASSUME NEW a \in -60 .. 60, NEW b \in -60 .. 60
  PROVE  (a * b) \div Unit \in -60 .. 60
<1>1. /\ (60 - a) * (60 + b) >= 0 /\ (60 + a) * (60 - b) >= 0
      /\ (60 - a) * (60 - b) >= 0 /\ (60 + a) * (60 + b) >= 0
  OBVIOUS
<1>2. a * b \in Int /\ a * b <= 3600 /\ a * b >= -3600
  BY <1>1
<1> QED BY <1>2 DEF Unit

LEMMA BiggestScore ==
  ASSUME NEW S, NEW f, S # {}, \A t \in S : (f[t] \in Int /\ f[t] >= -2000 /\ f[t] <= 2000)
  PROVE  \E t \in S : \A u \in S : f[u] <= f[t]
<1> DEFINE below == {n \in Nat : \E t \in S : n = 3000 - f[t]}
<1>1. ASSUME NEW t \in S PROVE 3000 - f[t] \in below
  <2>1. (f[t] \in Int /\ f[t] >= -2000 /\ f[t] <= 2000)
    OBVIOUS
  <2>2. 3000 - f[t] \in Nat
    BY <2>1
  <2> QED BY <2>2
<1>2. below \in SUBSET Nat /\ below # {}
  <2>1. PICK t \in S : TRUE
    OBVIOUS
  <2> QED BY <1>1, <2>1
<1>3. PICK x \in below : \A y \in below : x <= y
  <2> HIDE DEF below
  <2> QED BY <1>2, LeastMember
<1>4. PICK t \in S : x = 3000 - f[t]
  OBVIOUS
<1> HIDE DEF below
<1>5. ASSUME NEW u \in S PROVE f[u] <= f[t]
  <2>1. x <= 3000 - f[u]
    BY <1>1, <1>3
  <2>2. (f[u] \in Int /\ f[u] >= -2000 /\ f[u] <= 2000) /\ (f[t] \in Int /\ f[t] >= -2000 /\ f[t] <= 2000)
    OBVIOUS
  <2> QED BY <1>4, <2>1, <2>2
<1> QED BY <1>5

\* The least number whose square is not below a value that has one.
LEMMA RootAbove ==
  ASSUME NEW l \in Nat, NEW total \in Nat, l <= 7225 * total
  PROVE  \E r \in 0 .. 85 : r * r * total >= l /\ \A q \in 0 .. r - 1 : q * q * total < l
<1> DEFINE above == {r \in 0 .. 85 : r * r * total >= l}
<1>1. 85 \in above /\ above \in SUBSET Nat
  OBVIOUS
<1> HIDE DEF above
<1>2. PICK r \in above : \A q \in above : r <= q
  BY <1>1, LeastMember
<1>3. r \in 0 .. 85 /\ r * r * total >= l
  BY DEF above
<1>4. ASSUME NEW q \in 0 .. r - 1 PROVE q * q * total < l
  <2>1. q \in 0 .. 85 /\ ~(r <= q)
    BY <1>3
  <2>2. q \notin above
    BY <1>2, <2>1
  <2>3. ~(q * q * total >= l)
    BY <2>1, <2>2 DEF above
  <2> DEFINE x == q * q * total
  <2>4. x \in Int
    BY <2>1
  <2> HIDE DEF x
  <2>5. ~(x >= l) => x < l
    BY <2>4
  <2> QED BY <2>3, <2>5 DEF x
<1> QED BY <1>3, <1>4

\* The term of a target that was never selected is no number, that of one
\* selected once is 0: sampling goes on until the second time.
LEMMA TermOf ==
  ASSUME NEW total \in 1 .. MaxSelections, NEW n \in 0 .. total
  PROVE  /\ Score(Term(n, total))
         /\ n > 0 => Term(n, total) >= 0
         /\ Positive(Term(n, total)) => n >= 2
<1>0. total \in Nat /\ n \in Nat /\ n <= total /\ MaxSelections \in Nat
  BY SelectionAssumption
<1>1. CASE n = 0
  BY <1>1, NaNIsFar DEF Term, Score, Positive
<1>2. CASE n # 0
  <2> DEFINE l == Log7200[n]
             Is(r) == /\ r * r * total >= l
                      /\ \A q \in 0 .. r - 1 : q * q * total < l
  <2>1. l \in Nat /\ l <= 7200 * (n - 1)
    <3>1. n \in 1 .. MaxSelections
      BY <1>0, <1>2
    <3>2. l \in 0 .. 7200 * (n - 1)
      BY <3>1, SelectionAssumption
    <3> HIDE DEF l
    <3> QED BY <1>0, <3>2
  <2>2. Term(n, total) = CHOOSE r \in 0 .. 85 : Is(r)
    BY <1>2 DEF Term
  <2> HIDE DEF l
  <2>3. \E r \in 0 .. 85 : Is(r)
    <3>1. l <= 7225 * total
      BY <1>0, <2>1
    <3> QED BY <1>0, <2>1, <3>1, RootAbove
  <2>4. Term(n, total) \in 0 .. 85 /\ Is(Term(n, total))
    <3> HIDE DEF Is
    <3> QED BY <2>2, <2>3
  <2>5. ASSUME n = 1 PROVE Term(n, total) = 0
    <3>1. l = 0
      BY <2>1, <2>5
    <3>2. ASSUME Term(n, total) # 0 PROVE FALSE
      <4>1. 0 \in 0 .. Term(n, total) - 1
        BY <2>4, <3>2
      <4>2. 0 * 0 * total < l
        BY <2>4, <4>1
      <4> QED BY <1>0, <3>1, <4>2
    <3> QED BY <3>2
  <2>6. Score(Term(n, total)) /\ Term(n, total) >= 0
    BY <2>4 DEF Score
  <2>7. Positive(Term(n, total)) => n >= 2
    BY <1>0, <1>2, <2>5 DEF Positive
  <2> QED BY <2>6, <2>7
<1> QED BY <1>1, <1>2

-----------------------------------------------------------------------------
(* The estimate.                                                           *)

\* A distribution is no number or between 0 and 1.
LEMMA CdfBound ==
  ASSUME NEW xs, NEW x, IsFiniteSet(DOMAIN xs)
  PROVE  /\ cdf(xs, x) = NaN <=> default_bandwidth(xs) = 0
         /\ cdf(xs, x) = NaN \/ cdf(xs, x) \in 0 .. Unit
<1>1. CASE default_bandwidth(xs) = 0
  BY <1>1 DEF cdf
<1>2. CASE default_bandwidth(xs) # 0
  <2> DEFINE A == {i \in DOMAIN xs : xs[i] <= x}
             D == DOMAIN xs
  <2>1. D # {}
    BY <1>2 DEF default_bandwidth
  <2>2. A \in SUBSET D
    OBVIOUS
  <2>3. cdf(xs, x) = (Unit * Cardinality(A)) \div Cardinality(D)
    BY <1>2 DEF cdf
  <2> HIDE DEF A, D
  <2>4. IsFiniteSet(D)
    BY DEF D
  <2>5. /\ Cardinality(A) \in Nat /\ Cardinality(D) \in Nat
        /\ Cardinality(A) <= Cardinality(D) /\ Cardinality(D) > 0
    BY <2>1, <2>2, <2>4, FS_Subset, FS_CardinalityType, FS_EmptySet
  <2>6. cdf(xs, x) \in 0 .. Unit
    BY <2>3, <2>5, Quotient
  <2> QED BY <1>2, <2>6, NaNIsFar DEF Unit
<1> QED BY <1>1, <1>2

LEMMA BetweenBound ==
  ASSUME NEW xs, NEW low, NEW high, IsFiniteSet(DOMAIN xs)
  PROVE  Between(xs, low, high) = NaN \/ Between(xs, low, high) \in -60 .. 60
<1>1. /\ cdf(xs, low) = NaN \/ (cdf(xs, low) \in 0 .. 60 /\ cdf(xs, high) \in 0 .. 60)
  BY CdfBound DEF Unit
<1> QED BY <1>1 DEF Between

LEMMA ArithmeticBound ==
  ASSUME NEW last, NEW xs, NEW ys, IsFiniteSet(DOMAIN xs), IsFiniteSet(DOMAIN ys)
  PROVE  Arithmetic(last, xs, ys) = NaN \/ Arithmetic(last, xs, ys) \in -120 .. 120
<1> DEFINE p0 == Between(xs, last.low[1], last.high[1])
           p1 == IF last.low[2] # -1 /\ last.high[2] # -1
                 THEN Between(ys, last.low[2], last.high[2]) ELSE Unit
<1>1. p0 = NaN \/ p0 \in -60 .. 60
  BY BetweenBound
<1>2. p1 = NaN \/ p1 \in -60 .. 60
  <2>1. Between(ys, last.low[2], last.high[2]) = NaN \/ Between(ys, last.low[2], last.high[2]) \in -60 .. 60
    BY BetweenBound
  <2> QED BY <2>1 DEF Unit
<1>3. Arithmetic(last, xs, ys) =
        IF NaN \in {p0, p1} THEN NaN
        ELSE IF last.andor # 0 THEN (p0 * p1) \div Unit ELSE p0 + p1
  BY DEF Arithmetic
<1> HIDE DEF p0, p1
<1>4. NaN \in {p0, p1} \/ (p0 \in -60 .. 60 /\ p1 \in -60 .. 60 /\ (p0 * p1) \div Unit \in -60 .. 60)
  BY <1>1, <1>2, ProductBound
<1> QED BY <1>3, <1>4

LEMMA LikelihoodBound ==
  ASSUME NEW xs, IsFiniteSet(DOMAIN xs)
  PROVE  estimate_01_likelihood(xs) \in 0 .. 60
<1> DEFINE A == {i \in DOMAIN xs : xs[i] # 0}
           D == DOMAIN xs
<1>1. A \in SUBSET D
  OBVIOUS
<1>2. estimate_01_likelihood(xs) = (Unit * (1 + Cardinality(A))) \div (6 + Cardinality(D))
  BY DEF estimate_01_likelihood
<1> HIDE DEF A, D
<1>3. IsFiniteSet(D)
  BY DEF D
<1>4. /\ Cardinality(A) \in Nat /\ Cardinality(D) \in Nat /\ Cardinality(A) <= Cardinality(D)
  BY <1>1, <1>3, FS_Subset, FS_CardinalityType
<1>5. /\ 1 + Cardinality(A) \in Nat /\ 6 + Cardinality(D) \in Nat
      /\ 1 + Cardinality(A) <= 6 + Cardinality(D) /\ 6 + Cardinality(D) > 0
  BY <1>4
<1> QED BY <1>2, <1>5, Quotient DEF Unit

\* Whatever was logged the estimate is no number, or a number far from NaN.
LEMMA EstimateBound ==
  ASSUME NEW log \in Windows
  PROVE  Score(get_prob_share_time(log))
<1>1. IsFiniteSet(DOMAIN log)
  <2>1. Len(log) \in Nat /\ DOMAIN log = 1 .. Len(log)
    BY SelectionAssumption
  <2> QED BY <2>1, FS_Interval
<1>2. CASE log = <<>>
  BY <1>2 DEF get_prob_share_time, Score, Unit
<1>3. CASE log # <<>>
  <2> DEFINE mine == {i \in DOMAIN log : log[i].index = Biggest(log)}
             last == log[CHOOSE i \in mine : \A j \in mine : j <= i]
             xs == [i \in mine |-> log[i].expr[1]]
             ys == [i \in mine |-> log[i].expr[2]]
             p == IF last.low[1] = -1 /\ last.high[1] = -1
                  THEN estimate_01_likelihood(xs)
                  ELSE Arithmetic(last, xs, ys)
  <2>1. get_prob_share_time(log) = IF last.is_negated = 0 /\ p # NaN THEN Unit - p ELSE p
    BY <1>3 DEF get_prob_share_time
  <2>2. IsFiniteSet(mine) /\ DOMAIN xs = mine /\ DOMAIN ys = mine
    <3>1. mine \in SUBSET DOMAIN log
      OBVIOUS
    <3> QED BY <1>1, <3>1, FS_Subset
  <2> HIDE DEF mine, last, xs, ys
  <2>3. p = NaN \/ p \in -120 .. 120
    <3>1. estimate_01_likelihood(xs) \in 0 .. 60
      BY <2>2, LikelihoodBound
    <3>2. Arithmetic(last, xs, ys) = NaN \/ Arithmetic(last, xs, ys) \in -120 .. 120
      BY <2>2, ArithmeticBound
    <3> QED BY <3>1, <3>2
  <2> HIDE DEF p
  <2> QED BY <2>1, <2>3, NaNIsFar DEF Score, Unit
<1> QED BY <1>2, <1>3

LEMMA ScaledBound ==
  ASSUME NEW r, NEW x \in Int, IsRange(r), Score(x)
  PROVE  Score(Scaled(Widened(r, x), x)) /\ IsRange(Widened(r, x))
         /\ (x # NaN => Scaled(Widened(r, x), x) # NaN)
<1> DEFINE lo == IF x < r.lo THEN x ELSE r.lo
           hi == IF x > r.hi THEN x ELSE r.hi
<1>1. r.lo \in Int /\ r.hi \in Int
  BY DEF IsRange
<1>2. lo \in Int /\ hi \in Int /\ lo <= x /\ x <= hi
  BY <1>1
<1>3. Widened(r, x) = [lo |-> lo, hi |-> hi]
  BY DEF Widened
<1> HIDE DEF lo, hi
<1>4. IsRange(Widened(r, x))
  BY <1>2, <1>3 DEF IsRange
<1>5. Scaled(Widened(r, x), x) = IF lo # hi THEN (Unit * (x - lo)) \div (hi - lo) ELSE x
  BY <1>3 DEF Scaled
<1>6. lo # hi => (Unit * (x - lo)) \div (hi - lo) \in 0 .. 60
  <2>1. lo # hi => x - lo \in Nat /\ hi - lo \in Nat /\ x - lo <= hi - lo /\ hi - lo > 0
    BY <1>2
  <2> QED BY <2>1, Quotient DEF Unit
<1>7. lo # hi => Scaled(Widened(r, x), x) \in 0 .. 60
  BY <1>5, <1>6
<1> QED BY <1>4, <1>5, <1>7, NaNIsFar DEF Score

-----------------------------------------------------------------------------
(* The targets.                                                            *)

SelectionTypes ==
  /\ chosen \in Targets
  /\ total_select_time \in 0 .. MaxSelections
  /\ selected_time \in [Targets -> Nat]
  /\ DOMAIN prob_scores = Targets
  /\ \A t \in Targets : selected_time[t] <= total_select_time /\ Score(prob_scores[t])
  /\ IsRange(history.prob) /\ IsRange(history.select)

\* Whoever was sampled keeps a score that is a number and was selected twice.
Sampled ==
  has_finished_sample =>
    \A t \in Targets : selected_time[t] >= 2 /\ (t # chosen => prob_scores[t] # NaN)

SelectionInv == SelectionTypes /\ Sampled /\ OthersScored /\ SampledInOrder

LEMMA SelectionInitInv == SelectionInit => SelectionInv
<1> SUFFICES ASSUME SelectionInit PROVE SelectionInv
  OBVIOUS
<1>1. 0 \in Targets /\ \A t \in Targets : t \in Nat
  BY SelectionAssumption DEF Targets
<1>2. IsRange(NoRange)
  BY DEF IsRange, NoRange
<1>3. SelectionTypes
  BY <1>1, <1>2, SelectionAssumption, NaNIsFar DEF SelectionInit, SelectionTypes, Score
<1> QED BY <1>1, <1>3 DEF SelectionInit, SelectionInv, Sampled, OthersScored, SampledInOrder

\* What nomalize returns, and that it makes no number of a NaN or the reverse.
LEMMA NormalizedScores ==
  ASSUME NEW p, NEW s, Score(p), Score(s), IsRange(history.prob), IsRange(history.select)
  PROVE  LET n == nomalize(p, s)
         IN /\ Score(n.prob) /\ Score(n.select)
            /\ IsRange(n.history.prob) /\ IsRange(n.history.select)
<1> DEFINE rp == Widened(history.prob, p)
           rs == Widened(history.select, s)
<1>1. /\ Score(Scaled(rp, p)) /\ IsRange(rp) /\ Score(Scaled(rs, s)) /\ IsRange(rs)
  <2>1. p \in Int
    BY NaNIsFar DEF Score
  <2>4. s \in Int
    BY NaNIsFar DEF Score
  <2>2. Score(Scaled(rp, p)) /\ IsRange(rp)
    BY <2>1, ScaledBound
  <2>3. Score(Scaled(rs, s)) /\ IsRange(rs)
    BY <2>4, ScaledBound
  <2> QED BY <2>2, <2>3
<1> HIDE DEF rp, rs
<1>2. nomalize(p, s) =
        IF Unstable(p, s) THEN [prob |-> p, select |-> s, history |-> history]
        ELSE [prob |-> Scaled(rp, p), select |-> Scaled(rs, s),
              history |-> [prob |-> rp, select |-> rs]]
  BY DEF nomalize, rp, rs
<1>3. CASE Unstable(p, s)
  BY <1>2, <1>3
<1>4. CASE ~Unstable(p, s)
  <2>1. /\ nomalize(p, s).prob = Scaled(rp, p) /\ nomalize(p, s).select = Scaled(rs, s)
        /\ nomalize(p, s).history.prob = rp /\ nomalize(p, s).history.select = rs
    BY <1>2, <1>4
  <2> QED BY <1>1, <2>1
<1> QED BY <1>3, <1>4

\* The sum of two scores is a number exactly when both are.
LEMMA SumOf ==
  ASSUME NEW a, NEW b, Score(a), Score(b)
  PROVE  /\ Sum(a, b) # NaN <=> a # NaN /\ b # NaN
         /\ Sum(a, b) = NaN \/ (Sum(a, b) \in Int /\ Sum(a, b) >= -2000 /\ Sum(a, b) <= 2000)
<1>1. a # NaN /\ b # NaN => a \in Int /\ a >= -1000 /\ a <= 1000 /\ b \in Int /\ b >= -1000 /\ b <= 1000
  BY DEF Score
<1>2. CASE a = NaN \/ b = NaN
  BY <1>2 DEF Sum
<1>3. CASE a # NaN /\ b # NaN
  <2>1. Sum(a, b) = a + b
    BY <1>3 DEF Sum
  <2>3. a \in Int /\ a >= -1000 /\ a <= 1000 /\ b \in Int /\ b >= -1000 /\ b <= 1000
    BY <1>1, <1>3
  <2>4. (a + b \in Int /\ a + b >= -2000 /\ a + b <= 2000)
    BY <2>3
  <2>2. a + b # NaN
    BY <2>3, NaNIsFar
  <2> QED BY <1>3, <2>1, <2>2, <2>4
<1> QED BY <1>2, <1>3

\* Another target is taken only when its score exceeds a score that is a number.
LEMMA HighestOf ==
  ASSUME NEW scores, chosen \in Targets,
         \A t \in Targets : scores[t] = NaN \/ (scores[t] \in Int /\ scores[t] >= -2000 /\ scores[t] <= 2000)
  PROVE  Highest(scores) \in Targets /\ (Highest(scores) # chosen => scores[chosen] # NaN)
<1> DEFINE better == {t \in Targets : Exceeds(scores[t], scores[chosen])}
           best == {t \in better : \A u \in better : scores[u] <= scores[t]}
<1>1. CASE better = {}
  BY <1>1 DEF Highest
<1>2. CASE better # {}
  <2>0. scores[chosen] # NaN
    BY <1>2 DEF Exceeds
  <2>1. best # {}
    <3>1. \A t \in better : (scores[t] \in Int /\ scores[t] >= -2000 /\ scores[t] <= 2000)
      BY DEF Exceeds
    <3>2. \E t \in better : \A u \in better : scores[u] <= scores[t]
      <4> HIDE DEF better
      <4> QED BY <1>2, <3>1, BiggestScore
    <3> QED BY <3>2
  <2>2. PICK t \in best : \A u \in best : t <= u
    <3>1. best \in SUBSET Nat
      BY SelectionAssumption DEF Targets
    <3> HIDE DEF best
    <3> QED BY <2>1, <3>1, LeastMember
  <2>3. Highest(scores) \in best
    <3>1. Highest(scores) = CHOOSE x \in best : \A u \in best : x <= u
      BY <1>2 DEF Highest
    <3> HIDE DEF best
    <3> QED BY <2>2, <3>1
  <2> QED BY <2>0, <2>3
<1> QED BY <1>1, <1>2

LEMMA SelectKeeps ==
  ASSUME SelectionInv, NEW log \in Windows, select_target(log)
  PROVE  SelectionInv'
<1> DEFINE p == get_prob_share_time(log)
           s == IF total_select_time = 0 THEN NaN ELSE Term(selected_time[chosen], total_select_time)
           n == nomalize(p, s)
           sel == [t \in Targets |-> IF t = chosen THEN n.select
                     ELSE IF total_select_time = 0 THEN NaN
                          ELSE Term(selected_time[t], total_select_time)]
           probs == [prob_scores EXCEPT ![chosen] = n.prob]
           scores == [t \in Targets |-> Sum(probs[t], sel[t])]
           sampled == scores[chosen] # NaN /\ Positive(p) /\ Positive(s)
           next == IF has_finished_sample THEN Highest(scores)
                   ELSE IF sampled /\ chosen + 1 < TargetCount THEN chosen + 1 ELSE chosen
<1>0. /\ chosen \in Targets /\ TargetCount \in Nat \ {0} /\ Targets = 0 .. TargetCount - 1
      /\ total_select_time \in Nat /\ total_select_time < MaxSelections /\ MaxSelections \in Nat
      /\ selected_time \in [Targets -> Nat] /\ DOMAIN prob_scores = Targets
  BY SelectionAssumption DEF SelectionInv, SelectionTypes, select_target, Targets
<1>1. /\ prob_scores' = probs /\ mdafl_scores' = scores /\ history' = n.history
      /\ has_finished_sample' = (has_finished_sample \/ (sampled /\ chosen + 1 >= TargetCount))
      /\ chosen' = next /\ selected_time' = [selected_time EXCEPT ![next] = @ + 1]
      /\ total_select_time' = total_select_time + 1
  BY DEF select_target
<1>2. ASSUME NEW t \in Targets, total_select_time # 0
      PROVE  /\ Score(Term(selected_time[t], total_select_time))
             /\ selected_time[t] > 0 => Term(selected_time[t], total_select_time) >= 0
             /\ Positive(Term(selected_time[t], total_select_time)) => selected_time[t] >= 2
  <2>1. total_select_time \in 1 .. MaxSelections /\ selected_time[t] \in 0 .. total_select_time
    BY <1>0, <1>2 DEF SelectionInv, SelectionTypes
  <2> QED BY <2>1, TermOf
<1>3. Score(p)
  BY EstimateBound
<1>4. Score(s) /\ (Positive(s) => selected_time[chosen] >= 2)
  <2>1. CASE total_select_time = 0
    BY <2>1, NaNIsFar DEF Score, Positive
  <2>2. CASE total_select_time # 0
    BY <1>0, <1>2, <2>2
  <2> QED BY <2>1, <2>2
<1> HIDE DEF p, s
<1>5. /\ Score(n.prob) /\ Score(n.select) /\ IsRange(n.history.prob) /\ IsRange(n.history.select)
  BY <1>3, <1>4, NormalizedScores DEF SelectionInv, SelectionTypes
<1> HIDE DEF n
<1>6. /\ DOMAIN probs = Targets
      /\ \A t \in Targets : Score(probs[t]) /\ (t # chosen => probs[t] = prob_scores[t])
  BY <1>0, <1>5 DEF SelectionInv, SelectionTypes
<1>7. \A t \in Targets : Score(sel[t])
  BY <1>2, <1>5, NaNIsFar DEF Score
<1>8. \A t \in Targets : scores[t] = Sum(probs[t], sel[t])
  OBVIOUS
<1>9. ASSUME NEW t \in Targets, t # chosen, selected_time[t] >= 2
      PROVE  sel[t] # NaN
  <2>1. total_select_time # 0 /\ selected_time[t] > 0
    BY <1>0, <1>9 DEF SelectionInv, SelectionTypes
  <2>2. sel[t] = Term(selected_time[t], total_select_time)
    BY <1>9, <2>1
  <2>3. Term(selected_time[t], total_select_time) >= 0
    BY <1>2, <2>1
  <2> QED BY <2>2, <2>3, NaNIsFar
<1> HIDE DEF probs, sel, scores
<1>10. \A t \in Targets : scores[t] # NaN <=> probs[t] # NaN /\ sel[t] # NaN
  BY <1>6, <1>7, <1>8, SumOf
<1>20. \A t \in Targets : scores[t] = NaN \/ (scores[t] \in Int /\ scores[t] >= -2000 /\ scores[t] <= 2000)
  BY <1>6, <1>7, <1>8, SumOf
<1>11. next \in Targets /\ (has_finished_sample /\ next # chosen => scores[chosen] # NaN)
  <2>1. CASE has_finished_sample
    BY <2>1, HighestOf, <1>0, <1>20
  <2>2. CASE ~has_finished_sample
    BY <2>2, <1>0
  <2> QED BY <2>1, <2>2
<1> DEFINE nx == next
<1>12. nx = next
  OBVIOUS
<1>13. ~has_finished_sample => nx = IF sampled /\ chosen + 1 < TargetCount THEN chosen + 1 ELSE chosen
  OBVIOUS
<1> HIDE DEF nx
<1>14. \A t \in Targets : selected_time'[t] = IF t = nx THEN selected_time[t] + 1 ELSE selected_time[t]
  BY <1>0, <1>1, <1>12
<1>15. selected_time' \in [Targets -> Nat] /\ \A t \in Targets : selected_time[t] \in Nat
  BY <1>0, <1>1, <1>11, <1>12
<1>16. sampled => probs[chosen] # NaN /\ selected_time[chosen] >= 2
  BY <1>0, <1>4, <1>10
<1>21. has_finished_sample' <=> has_finished_sample \/ (sampled /\ chosen + 1 >= TargetCount)
  BY <1>1
<1> HIDE DEF sampled
<1>17. SelectionTypes'
  <2>1. total_select_time' \in 0 .. MaxSelections
    BY <1>0, <1>1
  <2>2. \A t \in Targets : selected_time'[t] <= total_select_time' /\ Score(prob_scores'[t])
    BY <1>0, <1>1, <1>6, <1>14, <1>15 DEF SelectionInv, SelectionTypes
  <2> QED BY <1>1, <1>5, <1>6, <1>11, <1>15, <2>1, <2>2 DEF SelectionTypes
<1>18. CASE has_finished_sample
  <2>1. ASSUME NEW t \in Targets
        PROVE  selected_time'[t] >= 2 /\ (t # nx => prob_scores'[t] # NaN /\ mdafl_scores'[t] # NaN)
    <3>1. selected_time[t] >= 2
      BY <1>18 DEF SelectionInv, Sampled
    <3>2. t # nx => scores[t] # NaN
      <4>1. CASE t = chosen
        BY <1>11, <1>12, <1>18, <4>1
      <4>2. CASE t # chosen
        <5>1. probs[t] # NaN
          BY <1>6, <1>18, <4>2 DEF SelectionInv, Sampled
        <5> QED BY <1>9, <1>10, <3>1, <4>2, <5>1
      <4> QED BY <4>1, <4>2
    <3>3. t # nx => probs[t] # NaN
      BY <3>2, <1>10
    <3> QED BY <3>1, <3>2, <3>3, <1>1, <1>14, <1>15
  <2> QED BY <1>1, <1>12, <1>17, <1>18, <2>1 DEF SelectionInv, Sampled, OthersScored, SampledInOrder
<1>19. CASE ~has_finished_sample
  <2>1. \A t \in Targets : /\ t < chosen => prob_scores[t] # NaN /\ selected_time[t] >= 2
                           /\ t > chosen => selected_time[t] = 0
    BY <1>19 DEF SelectionInv, SampledInOrder
  <2>2. CASE sampled /\ chosen + 1 < TargetCount
    <3>1. nx = chosen + 1 /\ ~has_finished_sample'
      <4>1. ~(chosen + 1 >= TargetCount)
        BY <1>0, <2>2
      <4> QED BY <1>13, <1>19, <1>21, <2>2, <4>1
    <3>2. ASSUME NEW t \in Targets, t < chosen + 1
          PROVE  prob_scores'[t] # NaN /\ selected_time'[t] >= 2
      <4>1. t # nx /\ t <= chosen
        BY <1>0, <3>1, <3>2
      <4>2. CASE t = chosen
        BY <1>1, <1>14, <1>16, <2>2, <4>1, <4>2
      <4>3. CASE t < chosen
        BY <1>1, <1>6, <1>14, <2>1, <4>1, <4>3, <1>0
      <4> QED BY <4>1, <4>2, <4>3, <1>0
    <3>3. ASSUME NEW t \in Targets, t > chosen + 1
          PROVE  selected_time'[t] = 0
      BY <1>0, <1>14, <2>1, <3>1, <3>3
    <3>4. chosen' = chosen + 1
      BY <1>1, <1>12, <3>1
    <3> QED BY <1>17, <3>1, <3>2, <3>3, <3>4 DEF SelectionInv, Sampled, OthersScored, SampledInOrder
  <2>3. CASE sampled /\ chosen + 1 >= TargetCount
    <3>1. nx = chosen /\ has_finished_sample'
      <4>1. ~(chosen + 1 < TargetCount)
        BY <1>0, <2>3
      <4>2. nx = chosen
        BY <1>13, <1>19, <4>1
      <4>3. has_finished_sample'
        BY <1>21, <2>3
      <4> QED BY <4>2, <4>3
    <3>2. ASSUME NEW t \in Targets
          PROVE  selected_time'[t] >= 2 /\ (t # chosen => prob_scores'[t] # NaN /\ mdafl_scores'[t] # NaN)
      <4>1. CASE t = chosen
        BY <1>14, <1>15, <1>16, <2>3, <4>1
      <4>2. CASE t # chosen
        <5>1. t < chosen
          BY <1>0, <2>3, <4>2
        <5>2. prob_scores[t] # NaN /\ selected_time[t] >= 2
          BY <2>1, <5>1
        <5>3. probs[t] # NaN /\ sel[t] # NaN
          BY <1>6, <1>9, <4>2, <5>2
        <5> QED BY <1>1, <1>10, <1>14, <1>15, <5>2, <5>3
      <4> QED BY <4>1, <4>2
    <3>3. chosen' = chosen
      BY <1>1, <1>12, <3>1
    <3> QED BY <1>17, <3>1, <3>2, <3>3 DEF SelectionInv, Sampled, OthersScored, SampledInOrder
  <2>4. CASE ~sampled
    <3>1. nx = chosen /\ ~has_finished_sample' /\ chosen' = chosen
      BY <1>0, <1>1, <1>12, <1>13, <1>19, <2>4
    <3>2. ASSUME NEW t \in Targets
          PROVE  /\ t < chosen => prob_scores'[t] # NaN /\ selected_time'[t] >= 2
                 /\ t > chosen => selected_time'[t] = 0
      BY <1>0, <1>1, <1>6, <1>14, <2>1, <3>1
    <3> QED BY <1>17, <3>1, <3>2 DEF SelectionInv, Sampled, OthersScored, SampledInOrder
  <2> QED BY <1>0, <2>2, <2>3, <2>4
<1> QED BY <1>18, <1>19

(* SelectionRight: whatever the targets log, a target enters the           *)
(* comparison of the scores only with one that is a number, and targets    *)
(* are sampled one after the other, each at least twice                    *)
(* (select_target, src/afl-fuzz.c:8448-8667).                              *)
THEOREM SelectionRightHolds == SelectionSpec => []SelectionRight
<1>1. ASSUME SelectionInv, [SelectionNext]_selectionVars PROVE SelectionInv'
  <2>1. CASE UNCHANGED selectionVars
    BY <1>1, <2>1 DEF selectionVars, SelectionInv, SelectionTypes, Sampled, OthersScored, SampledInOrder
  <2> QED BY <1>1, <2>1, SelectKeeps DEF SelectionNext
<1>2. SelectionInv => SelectionRight
  BY DEF SelectionInv, SelectionRight
<1> QED BY <1>1, <1>2, SelectionInitInv, PTL DEF SelectionSpec

-----------------------------------------------------------------------------
(***************************************************************************)
(* Binding to a core: CoresRight holds for every set of processes and      *)
(* every number of cores.                                                  *)
(***************************************************************************)
CoreTypes ==
  /\ life \in [Procs -> {"off", "scan", "run", "refused"}]
  /\ bound \in [Procs -> CoreSet \cup {Free}]
  /\ unread \in [Procs -> SUBSET Procs]
  /\ cpu_used \in [Procs -> SUBSET CoreSet]
  /\ witnessed \in [Procs -> SUBSET CoreSet]
  /\ collided \in BOOLEAN

(* Only who runs is bound.  A scan knows no core that was not taken since  *)
(* it began, and every core that is taken now was taken since it began.    *)
Witnessed ==
  \A p \in Procs :
    /\ life[p] # "run" => bound[p] = Free
    /\ life[p] = "scan" =>
         /\ cpu_used[p] \subseteq witnessed[p]
         /\ \A q \in Procs : bound[q] # Free => bound[q] \in witnessed[p]

(* A scan that is alone has seen the cores of all it has read about: as    *)
(* only a scan can end in a binding, none of these has moved.              *)
SeenWhenAlone ==
  ~collided =>
    \A p, q \in Procs : life[p] = "scan" /\ p # q =>
      /\ life[q] # "scan"
      /\ bound[q] # Free /\ q \notin unread[p] => bound[q] \in cpu_used[p]

CoresInv == CoreTypes /\ Witnessed /\ SeenWhenAlone /\ CoresRight

-----------------------------------------------------------------------------

(* The invariant holds when no fuzzer has started. *)
LEMMA CoresInitInv == CoresInit => CoresInv
  BY CoresAssumption DEF CoresInit, CoresInv, CoreTypes, Witnessed, SeenWhenAlone, CoresRight, CoreSet, Free

(* Every step of a fuzzer keeps it. *)
LEMMA CoresStepInv == CoresInv /\ [CoresNext]_coreVars => CoresInv'
<1> SUFFICES ASSUME CoresInv, [CoresNext]_coreVars PROVE CoresInv'
  OBVIOUS
<1> USE CoresAssumption DEF CoresInv, CoreTypes, CoreSet, Free
<1>1. ASSUME NEW p \in Procs, StartScan(p) PROVE CoresInv'
  <2>1. CASE CoreTotal < 2 \/ p \in NoAffinity
    BY <1>1, <2>1 DEF StartScan, Witnessed, SeenWhenAlone, CoresRight
  <2>2. CASE ~(CoreTotal < 2 \/ p \in NoAffinity)
    <3>1. CoreTypes'
      BY <1>1, <2>2 DEF StartScan
    <3>2. Witnessed'
      BY <1>1, <2>2 DEF StartScan, Witnessed
    <3>3. SeenWhenAlone'
      <4> SUFFICES ASSUME ~collided', NEW r \in Procs, NEW q \in Procs, life'[r] = "scan", r # q
                   PROVE  life'[q] # "scan" /\ (bound'[q] # Free /\ q \notin unread'[r] => bound'[q] \in cpu_used'[r])
        BY DEF SeenWhenAlone
      <4>1. \A o \in Procs : life[o] # "scan"
        BY <1>1, <2>2 DEF StartScan
      <4>2. r = p
        BY <1>1, <2>2, <4>1 DEF StartScan
      <4> QED BY <1>1, <2>2, <4>1, <4>2 DEF StartScan
    <3>4. CoresRight'
      BY <1>1, <2>2 DEF StartScan, CoresRight
    <3> QED BY <3>1, <3>2, <3>3, <3>4
  <2> QED BY <2>1, <2>2
<1>2. ASSUME NEW p \in Procs, NEW q \in Procs, ReadStatus(p, q) PROVE CoresInv'
  <2>1. CoreTypes'
    BY <1>2 DEF ReadStatus
  <2>2. Witnessed'
    BY <1>2 DEF ReadStatus, Witnessed
  <2>3. SeenWhenAlone'
    BY <1>2 DEF ReadStatus, SeenWhenAlone
  <2>4. CoresRight'
    BY <1>2 DEF ReadStatus, CoresRight
  <2> QED BY <2>1, <2>2, <2>3, <2>4
<1>3. ASSUME NEW p \in Procs, BindOrRefuse(p) PROVE CoresInv'
  <2> DEFINE free == CoreSet \ cpu_used[p]
  <2>1. CASE free = {}
    <3>1. witnessed[p] = CoreSet
      BY <1>3, <2>1 DEF BindOrRefuse, Witnessed
    <3>2. life' = [life EXCEPT ![p] = "refused"] /\ UNCHANGED <<bound, witnessed, unread, cpu_used, collided>>
      BY <1>3, <2>1 DEF BindOrRefuse
    <3>3. life[p] = "scan"
      BY <1>3 DEF BindOrRefuse
    <3>4. CoreTypes'
      BY <3>2
    <3>5. Witnessed'
      BY <3>2, <3>3 DEF Witnessed
    <3>6. SeenWhenAlone'
      BY <3>2 DEF SeenWhenAlone
    <3>7. CoresRight'
      BY <3>1, <3>2 DEF CoresRight
    <3> QED BY <3>4, <3>5, <3>6, <3>7
  <2>2. CASE free # {}
    <3> DEFINE c == CHOOSE d \in free : \A e \in free : d <= e
    <3>1. c \in CoreSet /\ c \notin cpu_used[p]
      <4>1. free \in SUBSET Nat
        OBVIOUS
      <4> HIDE DEF free
      <4>2. \E d \in free : \A e \in free : d <= e
        BY <2>2, <4>1, LeastMember
      <4>3. c \in free
        BY <4>2
      <4> QED BY <4>3 DEF free
    <3>2. /\ life[p] = "scan" /\ unread[p] = {}
          /\ life' = [life EXCEPT ![p] = "run"] /\ Taken(p, c)
          /\ UNCHANGED <<unread, cpu_used, collided>>
      BY <1>3, <2>2 DEF BindOrRefuse
    <3> HIDE DEF c
    <3>3. CoreTypes'
      BY <3>1, <3>2 DEF Taken
    <3>4. Witnessed'
      BY <3>1, <3>2 DEF Taken, Witnessed
    <3>5. SeenWhenAlone'
      BY <3>1, <3>2 DEF Taken, SeenWhenAlone
    <3>6. CoresRight'
      <4>1. ~collided => \A q \in Procs : q # p => bound[q] # c
        BY <3>1, <3>2 DEF SeenWhenAlone
      <4> QED BY <3>1, <3>2, <4>1 DEF Taken, CoresRight
    <3> QED BY <3>3, <3>4, <3>5, <3>6
  <2> QED BY <2>1, <2>2
<1>4. ASSUME NEW p \in Procs, Finish(p) PROVE CoresInv'
  <2>1. CoreTypes'
    BY <1>4 DEF Finish
  <2>2. Witnessed'
    BY <1>4 DEF Finish, Witnessed
  <2>3. SeenWhenAlone'
    BY <1>4 DEF Finish, SeenWhenAlone
  <2>4. CoresRight'
    BY <1>4 DEF Finish, CoresRight
  <2> QED BY <2>1, <2>2, <2>3, <2>4
<1>5. CASE UNCHANGED coreVars
  BY <1>5 DEF coreVars, Witnessed, SeenWhenAlone, CoresRight
<1> QED BY <1>1, <1>2, <1>3, <1>4, <1>5 DEF CoresNext

(* Two fuzzers share a core only when their scans overlapped, and one is   *)
(* refused only when every core was taken at some time of its scan, for    *)
(* any number of processes and cores (src/afl-fuzz.c:563-667).             *)
THEOREM CoresRightHolds == CoresSpec => []CoresRight
<1>1. CoresInv => CoresRight
  BY DEF CoresInv
<1> QED BY CoresInitInv, CoresStepInv, <1>1, PTL DEF CoresSpec

-----------------------------------------------------------------------------
(***************************************************************************)
(* Shared-memory segments: SegmentsRight holds for any number of fuzzers and *)
(* logs and whatever keys they draw.                                       *)
(***************************************************************************)
Live(f) == segStage[f] \in {"keyed", "run"}

SegmentTypes ==
  /\ segment \in [Keys -> [size : {"none", "small", "log"}, word : Nat]]
  /\ maps \subseteq Fuzzers
  /\ segStage \in [Fuzzers -> {"off", "keyed", "run", "ended", "failed"}]
  /\ base \in [Fuzzers -> Nat] /\ segTarget \in [Fuzzers -> 0 .. LogCount - 1]
  /\ alone \in BOOLEAN
  /\ \A f \in Fuzzers : segStage[f] = "off" => segTarget[f] = 0

(* Everything a live fuzzer uses is its own and of the right kind. *)
InOrder(f) ==
  /\ base[f] \in Bases
  /\ segment[PointerKey(f)].word = LogKey(f, segTarget[f])
  /\ \A t \in 0 .. LogCount - 1 :
       segment[LogKey(f, t)].size = "log" /\ segment[LogKey(f, t)].word <= MaxAppends

AloneInOrder ==
  alone => \A f \in Fuzzers : Live(f) =>
             InOrder(f) /\ \A g \in Fuzzers : Live(g) => g = f

SegmentsInv == SegmentTypes /\ MapsRemoved /\ AloneInOrder

-----------------------------------------------------------------------------
(* The keys of one fuzzer are keys, and its pointer is none of its logs. *)
LEMMA KeysOfOne ==
  ASSUME NEW b \in Bases, NEW t \in 0 .. LogCount - 1
  PROVE  b + t \in Keys /\ b + LogCount \in Keys /\ b + t # b + LogCount /\ b \in Nat
<1>1. b \in Nat /\ LogCount \in Nat \ {0} /\ t \in Nat
  BY SegmentsAssumption
<1>2. b + t \in b .. b + LogCount /\ b + LogCount \in b .. b + LogCount
  BY <1>1
<1> QED BY <1>1, <1>2 DEF Keys

(* The invariant holds on a machine without segments. *)
LEMMA SegmentsInitInv == SegmentsInit => SegmentsInv
<1> SUFFICES ASSUME SegmentsInit PROVE SegmentsInv
  OBVIOUS
<1>1. SegmentTypes
  BY SegmentsAssumption DEF SegmentsInit, SegmentTypes, NoSegment
<1>2. MapsRemoved /\ AloneInOrder
  BY DEF SegmentsInit, MapsRemoved, AloneInOrder, Live
<1> QED BY <1>1, <1>2 DEF SegmentsInv

(* A fuzzer that starts alone puts its logs and its pointer in order. *)
LEMMA FuzzerStarts ==
  ASSUME SegmentsInv, NEW f \in Fuzzers, NEW b \in Bases, init_parameter_shm(f, b)
  PROVE  SegmentsInv'
<1> DEFINE logs == b .. b + LogCount - 1
           bad == {k \in logs : ~Obtains(k, "log")}
           untorn == {k \in logs : \A j \in bad : k < j}
<1>1. /\ segStage[f] = "off" /\ UNCHANGED <<maps, segTarget>>
      /\ base' = [base EXCEPT ![f] = b]
      /\ alone' = (alone /\ \A g \in Fuzzers \ {f} : segStage[g] \notin {"keyed", "run"})
      /\ segStage' = [segStage EXCEPT ![f] = IF bad = {} THEN "keyed" ELSE "failed"]
      /\ segment' = [k \in Keys |->
           IF k \in untorn THEN NewLog
           ELSE IF k = b + LogCount /\ bad = {} THEN Named(segment[k], b)
           ELSE segment[k]]
  BY DEF init_parameter_shm
<1>2. b \in Nat /\ LogCount \in Nat \ {0} /\ MaxAppends \in Nat
  BY SegmentsAssumption
<1>3. bad = {} => untorn = logs
  OBVIOUS
<1> HIDE DEF bad, untorn
<1>4. SegmentTypes'
  <2>1. segment' \in [Keys -> [size : {"none", "small", "log"}, word : Nat]]
    <3> SUFFICES ASSUME NEW k \in Keys
                 PROVE  segment'[k] \in [size : {"none", "small", "log"}, word : Nat]
      BY <1>1
    <3>1. segment[k] \in [size : {"none", "small", "log"}, word : Nat]
      BY DEF SegmentsInv, SegmentTypes
    <3>2. NewLog \in [size : {"none", "small", "log"}, word : Nat]
      BY DEF NewLog
    <3>3. Named(segment[k], b) \in [size : {"none", "small", "log"}, word : Nat]
      BY <1>2 DEF Named
    <3> QED BY <1>1, <3>1, <3>2, <3>3
  <2>2. alone' \in BOOLEAN
    BY <1>1
  <2>3. /\ segStage' \in [Fuzzers -> {"off", "keyed", "run", "ended", "failed"}]
        /\ \A g \in Fuzzers : segStage'[g] = "off" => segTarget'[g] = 0
    BY <1>1 DEF SegmentsInv, SegmentTypes
  <2> QED BY <1>1, <1>2, <2>1, <2>2, <2>3 DEF SegmentsInv, SegmentTypes
<1>5. MapsRemoved'
  BY <1>1 DEF SegmentsInv, SegmentTypes, MapsRemoved
<1>6. AloneInOrder'
  <2> SUFFICES ASSUME alone', NEW g \in Fuzzers, Live(g)'
               PROVE  InOrder(g)' /\ \A h \in Fuzzers : Live(h)' => h = g
    BY DEF AloneInOrder
  <2>1. \A h \in Fuzzers : h # f => ~Live(h)'
    BY <1>1 DEF SegmentsInv, SegmentTypes, Live
  <2>2. g = f /\ \A h \in Fuzzers : Live(h)' => h = g
    BY <2>1
  <2>3. bad = {}
    BY <1>1, <2>2 DEF SegmentsInv, SegmentTypes, Live
  <2>4. base'[f] = b /\ segTarget'[f] = 0
    BY <1>1 DEF SegmentsInv, SegmentTypes
  <2>5. ASSUME NEW t \in 0 .. LogCount - 1
        PROVE  segment'[b + t].size = "log" /\ segment'[b + t].word <= MaxAppends
    <3>1. b + t \in Keys /\ b + t \in logs
      BY <1>2, KeysOfOne
    <3>2. segment'[b + t] = NewLog
      BY <1>1, <1>3, <2>3, <3>1
    <3> QED BY <1>2, <3>2 DEF NewLog
  <2>6. segment'[b + LogCount].word = b
    <3>1. b + LogCount \in Keys /\ b + LogCount \notin logs
      BY <1>2, KeysOfOne
    <3>2. segment'[b + LogCount] = Named(segment[b + LogCount], b)
      BY <1>1, <1>3, <2>3, <3>1
    <3> QED BY <3>2 DEF Named
  <2>7. InOrder(f)'
    BY <1>2, <2>4, <2>5, <2>6 DEF InOrder, PointerKey, LogKey
  <2> QED BY <2>2, <2>7
<1> QED BY <1>4, <1>5, <1>6 DEF SegmentsInv

(* Switching the target keeps the order: the pointer names its log. *)
LEMMA NameKeeps ==
  ASSUME SegmentsInv, NEW f \in Fuzzers, NEW t \in 0 .. LogCount - 1, NameLog(f, t)
  PROVE  SegmentsInv'
<1>1. /\ segStage[f] = "run" /\ UNCHANGED <<maps, segStage, base, alone>>
      /\ segment' = [segment EXCEPT ![PointerKey(f)] = Named(segment[PointerKey(f)], LogKey(f, t))]
      /\ segTarget' = [segTarget EXCEPT ![f] = t]
  BY DEF NameLog
<1>2. SegmentTypes'
  <2>1. LogKey(f, t) \in Nat
    BY SegmentsAssumption DEF SegmentsInv, SegmentTypes, LogKey
  <2>2. Named(segment[PointerKey(f)], LogKey(f, t)) \in [size : {"none", "small", "log"}, word : Nat]
    BY <2>1 DEF Named
  <2>3. segment' \in [Keys -> [size : {"none", "small", "log"}, word : Nat]]
    BY <1>1, <2>2 DEF SegmentsInv, SegmentTypes
  <2>4. \A g \in Fuzzers : segStage'[g] = "off" => segTarget'[g] = 0
    BY <1>1 DEF SegmentsInv, SegmentTypes
  <2> QED BY <1>1, <2>3, <2>4 DEF SegmentsInv, SegmentTypes
<1>3. MapsRemoved'
  BY <1>1 DEF SegmentsInv, MapsRemoved
<1>4. AloneInOrder'
  <2> SUFFICES ASSUME alone PROVE InOrder(f)' /\ \A g \in Fuzzers : Live(g)' => g = f
    BY <1>1 DEF AloneInOrder, Live
  <2>1. InOrder(f) /\ \A g \in Fuzzers : Live(g) => g = f
    BY <1>1 DEF SegmentsInv, AloneInOrder, Live
  <2>2. base[f] \in Bases /\ PointerKey(f) \in Keys
    BY <2>1, KeysOfOne DEF InOrder, PointerKey
  <2>3. segTarget'[f] = t
    BY <1>1 DEF SegmentsInv, SegmentTypes
  <2>4. segment'[PointerKey(f)].word = LogKey(f, t)
    BY <1>1, <2>2 DEF SegmentsInv, SegmentTypes, Named
  <2>5. ASSUME NEW u \in 0 .. LogCount - 1
        PROVE  segment'[LogKey(f, u)] = segment[LogKey(f, u)]
    BY <1>1, <2>2, KeysOfOne DEF SegmentsInv, SegmentTypes, PointerKey, LogKey
  <2>6. PointerKey(f)' = PointerKey(f) /\ \A u : LogKey(f, u)' = LogKey(f, u)
    BY <1>1 DEF PointerKey, LogKey
  <2>7. InOrder(f)'
    BY <1>1, <2>1, <2>3, <2>4, <2>5, <2>6 DEF InOrder, PointerKey, LogKey
  <2> QED BY <1>1, <2>1, <2>7 DEF Live
<1> QED BY <1>2, <1>3, <1>4 DEF SegmentsInv

(* A record of the only fuzzer goes to one of its logs. *)
LEMMA AppendKeeps ==
  ASSUME SegmentsInv, NEW f \in Fuzzers, AppendRecord(f)
  PROVE  SegmentsInv'
<1> DEFINE k == segment[PointerKey(f)].word
<1>1. /\ segStage[f] = "run" /\ UNCHANGED <<maps, segStage, base, segTarget, alone>>
      /\ k \in Keys /\ segment[k].size = "log" /\ segment[k].word < MaxAppends
      /\ segment' = [segment EXCEPT ![k] = [size |-> "log", word |-> segment[k].word + 1]]
  BY DEF AppendRecord
<1>2. k = segment[PointerKey(f)].word
  OBVIOUS
<1> HIDE DEF k
<1>3. SegmentTypes'
  <2>1. segment[k].word + 1 \in Nat
    BY <1>1 DEF SegmentsInv, SegmentTypes
  <2>2. segment' \in [Keys -> [size : {"none", "small", "log"}, word : Nat]]
    BY <1>1, <2>1 DEF SegmentsInv, SegmentTypes
  <2> QED BY <1>1, <2>2 DEF SegmentsInv, SegmentTypes
<1>4. MapsRemoved'
  BY <1>1 DEF SegmentsInv, MapsRemoved
<1>5. AloneInOrder'
  <2> SUFFICES ASSUME alone PROVE InOrder(f)' /\ \A g \in Fuzzers : Live(g)' => g = f
    BY <1>1 DEF AloneInOrder, Live
  <2>1. InOrder(f) /\ \A g \in Fuzzers : Live(g) => g = f
    BY <1>1 DEF SegmentsInv, AloneInOrder, Live
  <2>2. base[f] \in Bases /\ segTarget[f] \in 0 .. LogCount - 1
    BY <2>1 DEF InOrder, SegmentsInv, SegmentTypes
  <2>3. k = base[f] + segTarget[f] /\ k # base[f] + LogCount
    BY <1>2, <2>1, <2>2, KeysOfOne DEF InOrder, LogKey
  <2>4. segment'[base[f] + LogCount] = segment[base[f] + LogCount]
    BY <1>1, <2>2, <2>3, KeysOfOne DEF SegmentsInv, SegmentTypes
  <2>5. ASSUME NEW u \in 0 .. LogCount - 1
        PROVE  segment'[base[f] + u].size = "log" /\ segment'[base[f] + u].word <= MaxAppends
    <3>1. /\ base[f] + u \in Keys
          /\ segment[base[f] + u].size = "log" /\ segment[base[f] + u].word <= MaxAppends
      BY <2>1, <2>2, KeysOfOne DEF InOrder, LogKey
    <3>2. segment[k].word + 1 <= MaxAppends
      BY <1>1, SegmentsAssumption DEF SegmentsInv, SegmentTypes
    <3>3. CASE base[f] + u = k
      BY <1>1, <3>2, <3>3 DEF SegmentsInv, SegmentTypes
    <3>4. CASE base[f] + u # k
      BY <1>1, <3>1, <3>4 DEF SegmentsInv, SegmentTypes
    <3> QED BY <3>3, <3>4
  <2>6. InOrder(f)'
    BY <1>1, <2>1, <2>4, <2>5 DEF InOrder, PointerKey, LogKey
  <2> QED BY <1>1, <2>1, <2>6 DEF Live
<1> QED BY <1>3, <1>4, <1>5 DEF SegmentsInv

(* The maps come and go with the fuzzer; the segments stay. *)
LEMMA LifeKeeps ==
  ASSUME SegmentsInv, NEW f \in Fuzzers, setup_multi_shm(f) \/ remove_shm(f) \/ Reborn(f)
  PROVE  SegmentsInv'
<1>1. UNCHANGED <<segment, alone>>
  BY DEF setup_multi_shm, remove_shm, Reborn
<1>2. SegmentTypes' /\ MapsRemoved'
  BY <1>1, SegmentsAssumption DEF setup_multi_shm, remove_shm, Reborn, SegmentsInv, SegmentTypes, MapsRemoved
<1>3. \A g \in Fuzzers : Live(g)' => Live(g) /\ base'[g] = base[g] /\ segTarget'[g] = segTarget[g]
  BY DEF setup_multi_shm, remove_shm, Reborn, SegmentsInv, SegmentTypes, Live
<1>4. AloneInOrder'
  BY <1>1, <1>3 DEF SegmentsInv, AloneInOrder, InOrder, PointerKey, LogKey
<1> QED BY <1>2, <1>4 DEF SegmentsInv

-----------------------------------------------------------------------------
(* The invariant is inductive. *)
LEMMA SegmentsStepInv == SegmentsInv /\ [SegmentsNext]_segmentVars => SegmentsInv'
<1> SUFFICES ASSUME SegmentsInv, [SegmentsNext]_segmentVars PROVE SegmentsInv'
  OBVIOUS
<1>1. ASSUME NEW f \in Fuzzers, NEW b \in Bases, init_parameter_shm(f, b) PROVE SegmentsInv'
  BY <1>1, FuzzerStarts
<1>2. ASSUME NEW f \in Fuzzers, NEW t \in 0 .. LogCount - 1, NameLog(f, t) PROVE SegmentsInv'
  BY <1>2, NameKeeps
<1>3. ASSUME NEW f \in Fuzzers, AppendRecord(f) PROVE SegmentsInv'
  BY <1>3, AppendKeeps
<1>4. ASSUME NEW f \in Fuzzers, setup_multi_shm(f) \/ remove_shm(f) \/ Reborn(f) PROVE SegmentsInv'
  BY <1>4, LifeKeeps
<1>5. CASE UNCHANGED segmentVars
  BY <1>5 DEF segmentVars, SegmentsInv, SegmentTypes, MapsRemoved, AloneInOrder, Live, InOrder,
     PointerKey, LogKey
<1> QED BY <1>1, <1>2, <1>3, <1>4, <1>5 DEF SegmentsNext

(* SegmentsRight: the segments that earlier fuzzers left behind, as        *)
(* remove_shm exits at its first failing shmdt (src/afl-fuzz.c:1450-1476), *)
(* do no harm to a fuzzer that runs alone, and no map is left behind.      *)
THEOREM SegmentsRightHolds == SegmentsSpec => []SegmentsRight
<1>1. SegmentsInit => SegmentsInv
  BY SegmentsInitInv
<1>2. SegmentsInv /\ [SegmentsNext]_segmentVars => SegmentsInv'
  BY SegmentsStepInv
<1>3. SegmentsInv => SegmentsRight
  BY DEF SegmentsInv, AloneInOrder, InOrder, Live, SegmentsRight, LeftoversHarmless, MapsRemoved
<1> QED BY <1>1, <1>2, <1>3, PTL DEF SegmentsSpec

-----------------------------------------------------------------------------
(***************************************************************************)
(* Statistics and screen.                                                  *)
(***************************************************************************)

-----------------------------------------------------------------------------
(***************************************************************************)
(* Speeds.                                                                 *)
(***************************************************************************)
LEMMA FastestIs ==
  Fastest \in Rates /\ Fastest \in Nat /\ \A n \in Rates : n \in Nat /\ n <= Fastest
<1> DEFINE HasMax(T) == T = {} \/ \E r \in T : \A s \in T : s <= r
           Sizes == {n \in Nat : \E T \in SUBSET Rates : Cardinality(T) = n /\ ~HasMax(T)}
<1>1. IsFiniteSet(Rates) /\ Rates # {} /\ Rates \subseteq Nat
  BY ScreenAssumption
<1>2. Sizes = {}
  <2>1. SUFFICES ASSUME Sizes # {} PROVE FALSE
    OBVIOUS
  <2>2. PICK n \in Sizes : \A m \in Sizes : n <= m
    <3>1. Sizes \in SUBSET Nat
      OBVIOUS
    <3> HIDE DEF Sizes
    <3> QED BY <2>1, <3>1, LeastMember
  <2>3. PICK T \in SUBSET Rates : Cardinality(T) = n /\ ~HasMax(T)
    BY <2>2
  <2>4. PICK x \in T : TRUE
    BY <2>3
  <2>5. IsFiniteSet(T) /\ Cardinality(T \ {x}) = n - 1 /\ n \in Nat /\ n - 1 \in Nat
    <3>1. IsFiniteSet(T)
      BY <1>1, FS_Subset
    <3>2. Cardinality(T \ {x}) = n - 1 /\ Cardinality(T \ {x}) \in Nat
      BY <2>3, <2>4, <3>1, FS_RemoveElement, FS_CardinalityType
    <3> QED BY <2>2, <3>1, <3>2
  <2>6. n - 1 \notin Sizes
    <3>1. ~(n <= n - 1)
      BY <2>5
    <3> HIDE DEF Sizes
    <3> QED BY <2>2, <3>1
  <2>7. HasMax(T \ {x})
    <3>1. T \ {x} \in SUBSET Rates
      OBVIOUS
    <3> HIDE DEF HasMax
    <3> QED BY <2>5, <2>6, <3>1
  <2>8. CASE T \ {x} = {}
    <3>1. \A s \in T : s = x /\ s \in Nat
      BY <1>1, <2>8
    <3>2. \A s \in T : s <= x
      BY <3>1
    <3> QED BY <2>3, <2>4, <3>2
  <2>9. CASE T \ {x} # {}
    <3>1. PICK r \in T \ {x} : \A s \in T \ {x} : s <= r
      BY <2>7, <2>9
    <3>2. r \in Nat /\ x \in Nat
      BY <1>1, <2>4
    <3>3. CASE x <= r
      <4>1. \A s \in T : s <= r
        BY <3>1, <3>3
      <4> QED BY <2>3, <4>1
    <3>4. CASE r <= x
      <4>1. \A s \in T : s <= x
        <5>1. ASSUME NEW s \in T PROVE s <= x
          <6>1. s \in Nat /\ (s = x \/ s <= r)
            BY <1>1, <3>1
          <6> QED BY <3>2, <3>4, <6>1
        <5> QED BY <5>1
      <4> QED BY <2>3, <2>4, <4>1
    <3> QED BY <3>2, <3>3, <3>4
  <2> QED BY <2>8, <2>9
<1>3. HasMax(Rates)
  <2>1. Cardinality(Rates) \in Nat
    BY <1>1, FS_CardinalityType
  <2> HIDE DEF HasMax
  <2> QED BY <1>2, <2>1
<1>4. \E r \in Rates : \A s \in Rates : s <= r
  BY <1>1, <1>3
<1>5. Fastest \in Rates /\ \A n \in Rates : n <= Fastest
  BY <1>4 DEF Fastest
<1> QED BY <1>1, <1>5

\* A product with a larger factor.
LEMMA AtMostTimes ==
  ASSUME NEW f \in Nat, NEW n \in Nat, n <= f, NEW d \in Nat
  PROVE  n * d \in Nat /\ n * d <= f * d
<1>1. PICK e \in Nat : f = n + e
  <2>1. f - n \in Nat /\ f = n + (f - n)
    OBVIOUS
  <2> QED BY <2>1
<1>2. f * d = n * d + e * d /\ e * d \in Nat /\ n * d \in Nat
  BY <1>1
<1> QED BY <1>2

(* A quotient of at most f times the divisor is at most f. *)
LEMMA QuotientAtMost ==
  ASSUME NEW a \in Nat, NEW b \in Nat, b > 0, NEW f \in Nat, a <= f * b
  PROVE  a \div b \in Nat /\ a \div b <= f
<1> DEFINE q == a \div b
<1>1. q \in Int /\ q * b <= a /\ a < (q + 1) * b
  <2>1. PICK k \in Int, r \in 0 .. b - 1 : a = k * b + r /\ a \div b = k
    OBVIOUS
  <2>2. (k + 1) * b = k * b + b
    BY <2>1
  <2> QED BY <2>1, <2>2
<1> HIDE DEF q
<1>2. q >= 0
  <2>1. CASE q <= -1
    <3>1. PICK e \in Nat : q + 1 = -e
      <4>1. -(q + 1) \in Nat /\ q + 1 = -(-(q + 1))
        BY <1>1, <2>1
      <4> QED BY <4>1
    <3>2. (q + 1) * b = -(e * b) /\ e * b \in Nat
      BY <3>1
    <3> QED BY <1>1, <3>2
  <2> QED BY <1>1, <2>1
<1>3. q <= f
  <2>1. CASE q >= f + 1
    <3>1. PICK e \in Nat : q = f + 1 + e
      <4>1. q - f - 1 \in Nat /\ q = f + 1 + (q - f - 1)
        BY <1>1, <2>1
      <4> QED BY <4>1
    <3>2. q * b = f * b + b + e * b /\ e * b \in Nat /\ f * b \in Nat
      BY <3>1
    <3> QED BY <1>1, <3>2
  <2> QED BY <1>1, <2>1
<1> QED BY <1>1, <1>2, <1>3 DEF q

-----------------------------------------------------------------------------
(***************************************************************************)
(* The screen: the inductive invariant.                                    *)
(***************************************************************************)
Tallies == [execs : Nat, pending : BOOLEAN, quiet : Nat, crashes : BOOLEAN, start : {0}]
Files   == [execs : Nat, at : Nat, start : Nat]

ScreenTypes ==
  /\ shownTargets \in ScreenTargets /\ fresh \subseteq shownTargets
  /\ screenPc \in {"starting", "dry run", "fuzzing"}
  /\ tally \in [shownTargets -> Tallies] /\ statsFile \in [shownTargets -> Files]
  /\ clock \in Nat /\ Epoch <= clock /\ stopNow \in BOOLEAN
  /\ last_ms \in Nat /\ last_execs \in Nat /\ avg_exec \in Nat /\ last_stats_ms \in Nat

(* Before the dry runs are over nothing has been shown. *)
NothingShown ==
  screenPc # "fuzzing" =>
    clock = Epoch /\ last_ms = 0 /\ last_execs = 0 /\ avg_exec = 0 /\ last_stats_ms = 0 /\ ~stopNow

(* The dry run sets start_time to the one that its target does not have yet. *)
SomeTargetShown == screenPc = "fuzzing" => screenTarget \in shownTargets /\ startTime = 0

FilesBehind == \A t \in shownTargets : statsFile[t].execs <= tally[t].execs

(* What the only target did since the start and since the last update, in  *)
(* executions and in time.                                                 *)
SpeedBounds ==
  /\ Mine.execs <= Fastest * (clock - Epoch + 1)
  /\ avg_exec <= Fastest
  /\ last_execs # 0 =>
       /\ Epoch <= last_ms /\ last_execs <= Mine.execs
       /\ Mine.execs - last_execs <= Fastest * (clock - last_ms)

FileIsRecent ==
  /\ last_ms <= clock
  /\ statsFile[screenTarget].at = IF last_stats_ms = 0 THEN Epoch ELSE last_stats_ms
  /\ last_ms > 0 => last_ms - statsFile[screenTarget].at <= StatsPeriod

OneTarget ==
  Cardinality(shownTargets) = 1 /\ screenPc = "fuzzing" =>
    SpeedBounds /\ FileIsRecent /\ (stopNow => Done(Mine) \/ Mine.crashes)

ScreenInv == ScreenTypes /\ NothingShown /\ SomeTargetShown /\ FilesBehind /\ OneTarget

\* A run with one target has this one only.
LEMMA OnlyOne ==
  ASSUME NEW T \in ScreenTargets, Cardinality(T) = 1, NEW t \in T
  PROVE  \A u \in T : u = t
<1>1. IsFiniteSet(T)
  BY ScreenAssumption
<1>2. PICK x : T = {x}
  BY <1>1, FS_Singleton
<1> QED BY <1>2

\* The invariant holds before the dry run.
LEMMA ScreenInitInv == ScreenInit => ScreenInv
<1> SUFFICES ASSUME ScreenInit PROVE ScreenInv
  OBVIOUS
<1>1. /\ shownTargets \in ScreenTargets /\ fresh \subseteq shownTargets
      /\ screenPc \in {"starting", "dry run", "fuzzing"} /\ stopNow \in BOOLEAN
      /\ last_ms \in Nat /\ last_execs \in Nat /\ avg_exec \in Nat /\ last_stats_ms \in Nat
  BY DEF ScreenInit
<1>2. clock \in Nat /\ Epoch <= clock
  BY DEF ScreenInit, Epoch
<1>3. tally \in [shownTargets -> Tallies]
  <2>1. [execs |-> 0, pending |-> TRUE, quiet |-> 0, crashes |-> FALSE, start |-> 0] \in Tallies
    BY DEF Tallies
  <2> QED BY <2>1 DEF ScreenInit
<1>4. statsFile \in [shownTargets -> Files]
  <2>1. [execs |-> 0, at |-> 0, start |-> 0] \in Files
    BY DEF Files
  <2> QED BY <2>1 DEF ScreenInit
<1>5. ScreenTypes
  BY <1>1, <1>2, <1>3, <1>4 DEF ScreenTypes
<1> QED BY <1>5 DEF ScreenInit, ScreenInv, NothingShown, SomeTargetShown, FilesBehind, OneTarget

-----------------------------------------------------------------------------
(***************************************************************************)
(* Its steps.                                                              *)
(***************************************************************************)
LEMMA StartKeepsScreen == ScreenInv /\ TakeStartTime => ScreenInv'
<1> SUFFICES ASSUME ScreenInv, TakeStartTime PROVE ScreenInv'
  OBVIOUS
<1>1. /\ screenPc = "starting" /\ screenPc' = "dry run"
      /\ shownTargets' = shownTargets /\ clock' = clock /\ stopNow' = stopNow /\ fresh' = fresh
      /\ tally' = tally /\ statsFile' = statsFile
      /\ last_ms' = last_ms /\ last_execs' = last_execs /\ avg_exec' = avg_exec
      /\ last_stats_ms' = last_stats_ms
  BY DEF TakeStartTime, Statics
<1>2. ScreenTypes'
  BY <1>1 DEF ScreenInv, ScreenTypes
<1>3. NothingShown' /\ SomeTargetShown' /\ FilesBehind'
  BY <1>1 DEF ScreenInv, NothingShown, SomeTargetShown, FilesBehind
<1>4. OneTarget'
  BY <1>1 DEF OneTarget
<1> QED BY <1>2, <1>3, <1>4 DEF ScreenInv

\* The dry run of a target shows it for the first time.
LEMMA DryRunKeepsScreen ==
  ASSUME ScreenInv, NEW t, DryRunTarget(t)
  PROVE  ScreenInv'
<1>1. /\ t \in fresh /\ t \in shownTargets /\ screenPc = "dry run" /\ screenTarget' = t
      /\ fresh' = fresh \ {t} /\ startTime' = tally[t].start /\ tally[t] \in Tallies
      /\ screenPc' = IF fresh' = {} THEN "fuzzing" ELSE "dry run"
      /\ shownTargets' = shownTargets /\ clock' = clock /\ stopNow' = stopNow
      /\ last_ms' = last_ms /\ last_execs' = last_execs /\ avg_exec' = avg_exec
      /\ last_stats_ms' = last_stats_ms
  BY DEF DryRunTarget, switch_start, Statics, ScreenInv, ScreenTypes
<1>2. startTime' = 0
  BY <1>1 DEF Tallies
<1>3. /\ clock = Epoch /\ last_ms = 0 /\ last_execs = 0 /\ avg_exec = 0 /\ last_stats_ms = 0 /\ ~stopNow
  BY <1>1 DEF ScreenInv, NothingShown
<1>4. PICK n \in Rates :
        /\ tally' = [tally EXCEPT ![t] = [tally[t] EXCEPT !.execs = n, !.start = 0]]
        /\ statsFile' = [statsFile EXCEPT ![t] = [execs |-> n, at |-> clock, start |-> 0]]
  BY <1>2 DEF DryRunTarget
<1>5. n \in Nat /\ n <= Fastest /\ Fastest \in Nat
  BY FastestIs
<1> DEFINE c == [tally[t] EXCEPT !.execs = n, !.start = 0]
           e == [execs |-> n, at |-> clock, start |-> 0]
<1>6. c \in Tallies /\ c.execs = n
  BY <1>1, <1>5 DEF Tallies
<1>7. e \in Files /\ e.execs = n /\ e.at = clock
  BY <1>3, <1>5 DEF Files, Epoch
<1>8. /\ tally \in [shownTargets -> Tallies] /\ statsFile \in [shownTargets -> Files]
  BY DEF ScreenInv, ScreenTypes
<1>9. /\ tally' = [tally EXCEPT ![t] = c] /\ statsFile' = [statsFile EXCEPT ![t] = e]
  BY <1>4
<1> HIDE DEF c, e
<1>10. /\ tally' \in [shownTargets -> Tallies] /\ statsFile' \in [shownTargets -> Files]
       /\ tally'[t] = c /\ statsFile'[t] = e
       /\ \A u \in shownTargets : u # t => tally'[u] = tally[u] /\ statsFile'[u] = statsFile[u]
  BY <1>1, <1>6, <1>7, <1>8, <1>9
<1>11. ScreenTypes'
  BY <1>1, <1>10 DEF ScreenInv, ScreenTypes
<1>12. NothingShown' /\ SomeTargetShown'
  BY <1>1, <1>2, <1>3 DEF NothingShown, SomeTargetShown
<1>13. FilesBehind'
  <2>1. \A u \in shownTargets : statsFile'[u].execs <= tally'[u].execs
    BY <1>5, <1>6, <1>7, <1>10 DEF ScreenInv, FilesBehind
  <2> QED BY <1>1, <2>1 DEF FilesBehind
<1>14. OneTarget'
  <2>1. Mine'.execs = n /\ statsFile'[screenTarget'].at = Epoch
    BY <1>1, <1>3, <1>6, <1>7, <1>10 DEF Mine
  <2>2. Fastest * (clock' - Epoch + 1) = Fastest
    <3>1. clock' - Epoch + 1 = 1
      <4>1. clock' = Epoch
        BY <1>1, <1>3
      <4> QED BY <4>1 DEF Epoch
    <3>2. Fastest * 1 = Fastest
      BY <1>5
    <3> QED BY <3>1, <3>2
  <2>3. Mine'.execs <= Fastest * (clock' - Epoch + 1)
    BY <1>5, <2>1, <2>2
  <2>4. avg_exec' <= Fastest /\ last_execs' = 0 /\ last_ms' = 0 /\ last_stats_ms' = 0 /\ last_ms' <= clock'
    <3>1. clock' = Epoch /\ last_ms' = 0 /\ last_execs' = 0 /\ avg_exec' = 0 /\ last_stats_ms' = 0
      BY <1>1, <1>3
    <3> QED BY <1>5, <3>1 DEF Epoch
  <2>5. SpeedBounds'
    BY <2>3, <2>4, Zenon DEF SpeedBounds, Fastest
  <2>6. FileIsRecent'
    BY <2>1, <2>4 DEF FileIsRecent
  <2> QED BY <1>1, <1>3, <2>5, <2>6 DEF OneTarget
<1> QED BY <1>11, <1>12, <1>13, <1>14 DEF ScreenInv

(* Between two updates: the clock, and the counters of the current target. *)
LEMMA RunKeepsScreen == ScreenInv /\ FuzzAndShow => ScreenInv'
<1> SUFFICES ASSUME ScreenInv, FuzzAndShow PROVE ScreenInv'
  OBVIOUS
<1>1. /\ screenPc = "fuzzing" /\ screenPc' = "fuzzing" /\ ~stopNow /\ fresh' = fresh
      /\ shownTargets' = shownTargets /\ stopNow' = stopNow /\ screenTarget' = screenTarget
      /\ startTime' = startTime /\ statsFile' = statsFile
      /\ last_ms' = last_ms /\ last_execs' = last_execs /\ avg_exec' = avg_exec
      /\ last_stats_ms' = last_stats_ms
  BY DEF FuzzAndShow, Statics
<1>2. PICK d \in ClockSteps, n \in Rates, crashed \in BOOLEAN :
        /\ clock' = clock + d
        /\ tally' = [tally EXCEPT ![screenTarget] =
                       [Mine EXCEPT !.execs = Mine.execs + (n * d), !.crashes = Mine.crashes \/ crashed]]
  BY DEF FuzzAndShow
<1>3. d \in Nat /\ n \in Nat /\ n <= Fastest /\ Fastest \in Nat
  BY FastestIs, ScreenAssumption
<1>4. n * d \in Nat /\ n * d <= Fastest * d
  BY <1>3, AtMostTimes
<1>5. /\ screenTarget \in shownTargets /\ startTime = 0 /\ Mine \in Tallies /\ Mine = tally[screenTarget]
      /\ tally \in [shownTargets -> Tallies] /\ statsFile \in [shownTargets -> Files]
      /\ clock \in Nat /\ Epoch <= clock
  BY <1>1 DEF ScreenInv, ScreenTypes, SomeTargetShown, Mine
<1>6. Mine.execs \in Nat
  BY <1>5 DEF Tallies
<1> DEFINE k == n * d
           b == Mine.crashes \/ crashed
           c == [Mine EXCEPT !.execs = Mine.execs + k, !.crashes = b]
<1>7. c \in Tallies /\ c.execs = Mine.execs + k
  <2>1. b \in BOOLEAN
    OBVIOUS
  <2>2. k \in Nat
    BY <1>4
  <2> DEFINE m == Mine.execs + k
  <2>3. m \in Nat
    BY <1>6, <2>2
  <2> HIDE DEF b, k, m
  <2>4. [Mine EXCEPT !.execs = m, !.crashes = b] \in Tallies
    BY <1>5, <2>1, <2>3, Zenon DEF Tallies
  <2>5. [Mine EXCEPT !.execs = m, !.crashes = b].execs = m
    BY <1>5 DEF Tallies
  <2> QED BY <2>4, <2>5 DEF m
<1>8. tally' = [tally EXCEPT ![screenTarget] = c]
  BY <1>2
<1>9. k \in Nat /\ k <= Fastest * d
  BY <1>4
<1> HIDE DEF c, k
<1>10. /\ tally' \in [shownTargets -> Tallies] /\ tally'[screenTarget] = c
       /\ \A u \in shownTargets : u # screenTarget => tally'[u] = tally[u]
  BY <1>5, <1>7, <1>8
<1>11. clock' \in Nat /\ Epoch <= clock'
  BY <1>2, <1>3, <1>5 DEF Epoch
<1>12. ScreenTypes'
  BY <1>1, <1>10, <1>11 DEF ScreenInv, ScreenTypes
<1>13. NothingShown' /\ SomeTargetShown'
  BY <1>1, <1>5 DEF NothingShown, SomeTargetShown
<1>14. FilesBehind'
  <2>1. ASSUME NEW u \in shownTargets PROVE statsFile'[u].execs <= tally'[u].execs
    <3>1. statsFile[u].execs <= tally[u].execs /\ statsFile[u].execs \in Nat /\ statsFile'[u] = statsFile[u]
      <4>1. statsFile[u] \in Files
        BY <1>5
      <4> QED BY <1>1, <4>1 DEF ScreenInv, FilesBehind, Files
    <3>2. CASE u = screenTarget
      <4>1. tally'[u].execs = tally[u].execs + k /\ tally[u].execs \in Nat
        BY <1>5, <1>6, <1>7, <1>10, <3>2
      <4> QED BY <1>9, <3>1, <4>1
    <3>3. CASE u # screenTarget
      BY <1>10, <3>1, <3>3
    <3> QED BY <3>2, <3>3
  <2> QED BY <1>1, <2>1 DEF FilesBehind
<1>15. OneTarget'
  <2>1. SUFFICES ASSUME Cardinality(shownTargets) = 1 PROVE SpeedBounds' /\ FileIsRecent'
    BY <1>1 DEF OneTarget
  <2>2. SpeedBounds /\ FileIsRecent
    BY <1>1, <2>1 DEF ScreenInv, OneTarget
  <2>3. Mine' = c /\ c.execs = Mine.execs + k
    BY <1>1, <1>7, <1>10 DEF Mine
  <2>4. Fastest * (clock' - Epoch + 1) = Fastest * (clock - Epoch + 1) + Fastest * d
    <3>1. clock' - Epoch + 1 = (clock - Epoch + 1) + d
      BY <1>2, <1>3, <1>5 DEF Epoch
    <3>2. clock - Epoch + 1 \in Nat
      BY <1>5 DEF Epoch
    <3> DEFINE a == clock - Epoch + 1
    <3> HIDE DEF a
    <3>3. a \in Nat => Fastest * (a + d) = Fastest * a + Fastest * d
      BY <1>3
    <3> QED BY <3>1, <3>2, <3>3 DEF a
  <2>5. Fastest * d \in Nat /\ Fastest * (clock - Epoch + 1) \in Nat
    <3>1. clock - Epoch + 1 \in Nat
      BY <1>5 DEF Epoch
    <3> QED BY <1>3, <3>1
  <2>6. Mine'.execs <= Fastest * (clock' - Epoch + 1)
    <3>1. Mine.execs <= Fastest * (clock - Epoch + 1)
      BY <2>2 DEF SpeedBounds
    <3> QED BY <1>6, <1>9, <2>3, <2>4, <2>5, <3>1
  <2>7. avg_exec' <= Fastest
    BY <1>1, <2>2 DEF SpeedBounds
  <2>8. ASSUME last_execs' # 0
        PROVE  /\ Epoch <= last_ms' /\ last_execs' <= Mine'.execs
               /\ Mine'.execs - last_execs' <= Fastest * (clock' - last_ms')
    <3>1. /\ Epoch <= last_ms /\ last_execs <= Mine.execs
          /\ Mine.execs - last_execs <= Fastest * (clock - last_ms)
      BY <1>1, <2>2, <2>8 DEF SpeedBounds
    <3>2. last_ms \in Nat /\ last_execs \in Nat /\ last_ms <= clock
      BY <2>2 DEF ScreenInv, ScreenTypes, FileIsRecent
    <3>3. clock - last_ms \in Nat /\ clock' - last_ms' = (clock - last_ms) + d
      BY <1>1, <1>2, <1>3, <1>5, <3>2
    <3> DEFINE a == clock - last_ms
    <3>4. a \in Nat /\ clock' - last_ms' = a + d /\ Mine.execs - last_execs <= Fastest * a
      BY <3>1, <3>3
    <3> HIDE DEF a
    <3>5. Fastest * (a + d) = Fastest * a + Fastest * d /\ Fastest * a \in Nat
      BY <1>3, <3>4
    <3>6. Mine'.execs - last_execs' <= Fastest * (clock' - last_ms')
      <4>1. Mine'.execs - last_execs' = (Mine.execs - last_execs) + k
        BY <1>1, <1>6, <1>9, <2>3, <3>2
      <4> QED BY <1>6, <1>9, <2>5, <3>2, <3>4, <3>5, <4>1
    <3>7. last_execs' <= Mine'.execs
      BY <1>1, <1>6, <1>9, <2>3, <3>1, <3>2
    <3> QED BY <1>1, <3>1, <3>6, <3>7
  <2>9. SpeedBounds'
    BY <2>6, <2>7, <2>8, Zenon DEF SpeedBounds, Fastest
  <2>10. FileIsRecent'
    <3>1. last_ms' <= clock'
      <4>1. last_ms <= clock /\ last_ms \in Nat
        BY <2>2 DEF FileIsRecent, ScreenInv, ScreenTypes
      <4> QED BY <1>1, <1>2, <1>3, <1>5, <4>1
    <3> QED BY <1>1, <2>2, <3>1 DEF FileIsRecent
  <2> QED BY <2>9, <2>10
<1> QED BY <1>12, <1>13, <1>14, <1>15 DEF ScreenInv

\* A switch of the target saves and restores the counters.
LEMMA SwitchKeepsScreen ==
  ASSUME ScreenInv, NEW t, SwitchShown(t)
  PROVE  ScreenInv'
<1>1. /\ screenPc = "fuzzing" /\ screenPc' = "fuzzing" /\ ~stopNow /\ fresh' = fresh
      /\ shownTargets' = shownTargets /\ stopNow' = stopNow /\ tally' = tally /\ statsFile' = statsFile
      /\ clock' = clock /\ last_ms' = last_ms /\ last_execs' = last_execs /\ avg_exec' = avg_exec
      /\ last_stats_ms' = last_stats_ms
      /\ t \in shownTargets /\ t # screenTarget /\ screenTarget' = t /\ startTime' = tally[t].start
  BY DEF SwitchShown, switch_start, Statics
<1>2. startTime' = 0
  <2>1. tally[t] \in Tallies
    BY <1>1 DEF ScreenInv, ScreenTypes
  <2> QED BY <1>1, <2>1 DEF Tallies
<1>3. ScreenTypes'
  BY <1>1 DEF ScreenInv, ScreenTypes
<1>4. NothingShown' /\ SomeTargetShown' /\ FilesBehind'
  BY <1>1, <1>2 DEF ScreenInv, NothingShown, SomeTargetShown, FilesBehind
<1>5. Cardinality(shownTargets) # 1
  BY <1>1, OnlyOne DEF ScreenInv, ScreenTypes, SomeTargetShown
<1>6. OneTarget'
  BY <1>1, <1>5 DEF OneTarget
<1> QED BY <1>3, <1>4, <1>6 DEF ScreenInv

\* A cycle of the queue ends, with or without a find.
LEMMA CycleKeepsScreen ==
  ASSUME ScreenInv, NEW found \in BOOLEAN, QueueCycle(found)
  PROVE  ScreenInv'
<1>1. /\ screenPc = "fuzzing" /\ screenPc' = "fuzzing" /\ ~stopNow /\ fresh' = fresh
      /\ shownTargets' = shownTargets /\ stopNow' = stopNow /\ screenTarget' = screenTarget
      /\ startTime' = startTime /\ statsFile' = statsFile /\ clock' = clock
      /\ last_ms' = last_ms /\ last_execs' = last_execs /\ avg_exec' = avg_exec
      /\ last_stats_ms' = last_stats_ms
  BY DEF QueueCycle, Statics
<1> DEFINE h == IF found THEN 0 ELSE Mine.quiet + 1
           c == [Mine EXCEPT !.quiet = h, !.pending = found]
<1>2. tally' = [tally EXCEPT ![screenTarget] = c]
  BY DEF QueueCycle
<1>3. /\ screenTarget \in shownTargets /\ startTime = 0 /\ Mine \in Tallies /\ Mine = tally[screenTarget]
      /\ tally \in [shownTargets -> Tallies]
  BY <1>1 DEF ScreenInv, ScreenTypes, SomeTargetShown, Mine
<1>4. c \in Tallies /\ c.execs = Mine.execs
  <2>1. h \in Nat
    BY <1>3 DEF Tallies
  <2> HIDE DEF h
  <2> QED BY <1>3, <2>1 DEF Tallies
<1> HIDE DEF c
<1>5. /\ tally' \in [shownTargets -> Tallies] /\ tally'[screenTarget] = c
      /\ \A u \in shownTargets : tally'[u].execs = tally[u].execs
  BY <1>2, <1>3, <1>4
<1>6. ScreenTypes'
  BY <1>1, <1>5 DEF ScreenInv, ScreenTypes
<1>7. NothingShown' /\ SomeTargetShown' /\ FilesBehind'
  BY <1>1, <1>5 DEF ScreenInv, NothingShown, SomeTargetShown, FilesBehind
<1>8. OneTarget'
  <2>1. Mine'.execs = Mine.execs
    BY <1>1, <1>4, <1>5 DEF Mine
  <2>2. ASSUME SpeedBounds, FileIsRecent PROVE SpeedBounds' /\ FileIsRecent'
    BY <1>1, <2>1, <2>2, Zenon DEF SpeedBounds, FileIsRecent, Fastest
  <2> QED BY <1>1, <2>2 DEF ScreenInv, OneTarget
<1> QED BY <1>6, <1>7, <1>8 DEF ScreenInv

(* The speeds averaged are at most the fastest one. *)
LEMMA SmoothedAtMost ==
  ASSUME NEW f \in Nat, avg_exec \in Nat, avg_exec <= f, NEW s \in Nat, s <= f
  PROVE  Smoothed(s) \in Nat /\ Smoothed(s) <= f
<1> DEFINE basis == IF s * 5 < avg_exec \/ s \div 5 > avg_exec THEN s ELSE avg_exec
<1>1. basis \in Nat /\ basis <= f
  OBVIOUS
<1>2. Smoothed(s) = ((basis * 15) + s) \div 16
  BY DEF Smoothed, Smoothing
<1> HIDE DEF basis
<1>3. ((basis * 15) + s) \div 16 \in Nat /\ ((basis * 15) + s) \div 16 <= f
  BY <1>1
<1> QED BY <1>2, <1>3

\* The average never exceeds the fastest speed, with one target.
LEMMA AverageIs ==
  ASSUME ScreenInv, screenPc = "fuzzing", clock - last_ms >= 1
  PROVE  Average \in Nat /\ (Cardinality(shownTargets) = 1 => Average <= Fastest)
<1>1. /\ clock \in Nat /\ Epoch <= clock /\ clock > 0 /\ last_ms \in Nat /\ last_execs \in Nat /\ avg_exec \in Nat
      /\ startTime = 0 /\ Mine \in Tallies /\ Fastest \in Nat
  BY FastestIs DEF ScreenInv, ScreenTypes, SomeTargetShown, Mine, Epoch
<1>2. Mine.execs \in Nat /\ clock - last_ms \in Nat /\ clock - last_ms > 0
  BY <1>1 DEF Tallies
<1>3. CASE last_execs = 0
  <2>1. Average = Mine.execs \div clock
    BY <1>1, <1>3 DEF Average, FirstAverage
  <2>2. Average \in Nat
    BY <1>1, <1>2, <2>1
  <2>3. ASSUME Cardinality(shownTargets) = 1 PROVE Average <= Fastest
    <3>1. Mine.execs <= Fastest * (clock - Epoch + 1)
      BY <2>3 DEF ScreenInv, OneTarget, SpeedBounds
    <3> DEFINE a == clock - Epoch + 1
    <3>2. a \in Nat /\ clock = a + 999
      BY <1>1 DEF Epoch
    <3>3. Mine.execs <= Fastest * a
      BY <3>1
    <3> HIDE DEF a
    <3>4. Fastest * (a + 999) = Fastest * a + Fastest * 999 /\ Fastest * a \in Nat /\ Fastest * 999 \in Nat
      BY <1>1, <3>2
    <3>5. Mine.execs <= Fastest * clock
      BY <1>2, <3>2, <3>3, <3>4
    <3> QED BY <1>1, <1>2, <2>1, <3>5, QuotientAtMost
  <2> QED BY <2>2, <2>3
<1>4. CASE last_execs # 0
  <2>1. Average = Smoothed(Speed)
    BY <1>4 DEF Average
  <2>2. Speed \in Nat
    <3>1. CASE Mine.execs < last_execs
      BY <3>1 DEF Speed, BelowZero
    <3>2. CASE ~(Mine.execs < last_execs)
      <4>1. Mine.execs - last_execs \in Nat
        BY <1>1, <1>2, <3>2
      <4>2. (Mine.execs - last_execs) \div (clock - last_ms) \in Nat
        BY <1>2, <4>1
      <4> QED BY <3>2, <4>2 DEF Speed
    <3> QED BY <3>1, <3>2
  <2>3. Average \in Nat
    <3> DEFINE f == avg_exec + Speed
    <3>1. f \in Nat /\ avg_exec <= f /\ Speed <= f
      BY <1>1, <2>2
    <3> HIDE DEF f
    <3> QED BY <1>1, <2>1, <2>2, <3>1, SmoothedAtMost
  <2>4. ASSUME Cardinality(shownTargets) = 1 PROVE Average <= Fastest
    <3>1. /\ avg_exec <= Fastest /\ last_execs <= Mine.execs
          /\ Mine.execs - last_execs <= Fastest * (clock - last_ms)
      BY <1>4, <2>4 DEF ScreenInv, OneTarget, SpeedBounds
    <3>2. Speed = (Mine.execs - last_execs) \div (clock - last_ms)
      BY <1>1, <1>2, <3>1 DEF Speed
    <3>3. Mine.execs - last_execs \in Nat
      BY <1>1, <1>2, <3>1
    <3>4. Speed <= Fastest
      BY <1>1, <1>2, <3>1, <3>2, <3>3, QuotientAtMost
    <3> QED BY <1>1, <2>1, <2>2, <3>1, <3>4, SmoothedAtMost
  <2> QED BY <2>3, <2>4
<1> QED BY <1>3, <1>4

\* show_stats.
LEMMA ShowKeepsScreen == ScreenInv /\ ShowStats => ScreenInv'
<1> SUFFICES ASSUME ScreenInv, ShowStats PROVE ScreenInv'
  OBVIOUS
<1>1. /\ screenPc = "fuzzing" /\ screenPc' = "fuzzing" /\ ~stopNow /\ fresh' = fresh
      /\ shownTargets' = shownTargets /\ screenTarget' = screenTarget
      /\ startTime' = startTime /\ clock' = clock /\ tally' = tally
      /\ clock - last_ms >= 1 /\ last_ms' = clock /\ last_execs' = Mine.execs /\ avg_exec' = Average
      /\ stopNow' = (stopNow \/ ("done" \in exits /\ Done(Mine)) \/ ("crash" \in exits /\ Mine.crashes))
  BY DEF ShowStats, show_stats
<1>2. /\ screenTarget \in shownTargets /\ startTime = 0 /\ Mine \in Tallies /\ Mine = tally[screenTarget]
      /\ tally \in [shownTargets -> Tallies] /\ statsFile \in [shownTargets -> Files]
      /\ clock \in Nat /\ Epoch <= clock /\ last_stats_ms \in Nat /\ Fastest \in Nat /\ StatsPeriod \in Nat
  BY <1>1, FastestIs, ScreenAssumption DEF ScreenInv, ScreenTypes, SomeTargetShown, Mine
<1>3. Mine.execs \in Nat /\ Mine' = Mine
  BY <1>1, <1>2 DEF Tallies, Mine
<1>4. Average \in Nat /\ (Cardinality(shownTargets) = 1 => Average <= Fastest)
  BY <1>1, AverageIs
<1> DEFINE e == [execs |-> Mine.execs, at |-> clock, start |-> startTime]
<1>5. e \in Files /\ e.execs = Mine.execs /\ e.at = clock
  BY <1>2, <1>3 DEF Files
<1>6. \/ clock - last_stats_ms > StatsPeriod /\ last_stats_ms' = clock
         /\ statsFile' = [statsFile EXCEPT ![screenTarget] = e]
      \/ ~(clock - last_stats_ms > StatsPeriod) /\ last_stats_ms' = last_stats_ms /\ statsFile' = statsFile
  BY DEF ShowStats, show_stats, write_stats_file
<1> HIDE DEF e
<1>7. statsFile' \in [shownTargets -> Files] /\ last_stats_ms' \in Nat
  BY <1>2, <1>5, <1>6
<1>8. stopNow' \in BOOLEAN
  BY <1>1
<1>9. ScreenTypes'
  BY <1>1, <1>2, <1>3, <1>4, <1>7, <1>8 DEF ScreenInv, ScreenTypes
<1>10. NothingShown' /\ SomeTargetShown'
  BY <1>1, <1>2 DEF NothingShown, SomeTargetShown
<1>11. FilesBehind'
  <2>1. ASSUME NEW u \in shownTargets PROVE statsFile'[u].execs <= tally[u].execs
    <3>1. CASE statsFile'[u] = statsFile[u]
      BY <3>1 DEF ScreenInv, FilesBehind
    <3>2. CASE u = screenTarget /\ statsFile'[u] = e
      BY <1>2, <1>3, <1>5, <3>2
    <3> QED BY <1>2, <1>6, <3>1, <3>2
  <2> QED BY <1>1, <2>1 DEF FilesBehind
<1>12. OneTarget'
  <2>1. SUFFICES ASSUME Cardinality(shownTargets) = 1
                 PROVE  SpeedBounds' /\ FileIsRecent' /\ (stopNow' => Done(Mine) \/ Mine.crashes)
    BY <1>1, <1>3 DEF OneTarget, Done
  <2>2. SpeedBounds /\ FileIsRecent
    BY <1>1, <2>1 DEF ScreenInv, OneTarget
  <2>3. stopNow' => Done(Mine) \/ Mine.crashes
    BY <1>1
  <2>4. SpeedBounds'
    <3>1. Mine.execs <= Fastest * (clock - Epoch + 1)
      BY <2>2 DEF SpeedBounds
    <3>2. Mine.execs - Mine.execs <= Fastest * (clock - clock)
      <4>1. clock - clock = 0 /\ Fastest * 0 = 0 /\ Mine.execs - Mine.execs = 0
        BY <1>2, <1>3
      <4> QED BY <4>1
    <3>3. Epoch <= clock /\ Mine.execs <= Mine.execs
      BY <1>2, <1>3
    <3> QED BY <1>1, <1>3, <1>4, <2>1, <3>1, <3>2, <3>3, Zenon DEF SpeedBounds, Fastest
  <2>5. FileIsRecent'
    <3>1. statsFile[screenTarget].at = IF last_stats_ms = 0 THEN Epoch ELSE last_stats_ms
      BY <2>2 DEF FileIsRecent
    <3>2. CASE clock - last_stats_ms > StatsPeriod
      <4>1. statsFile'[screenTarget].at = clock /\ last_stats_ms' = clock
        BY <1>2, <1>5, <1>6, <3>2
      <4> QED BY <1>1, <1>2, <4>1 DEF FileIsRecent, Epoch
    <3>3. CASE ~(clock - last_stats_ms > StatsPeriod)
      <4>1. statsFile' = statsFile /\ last_stats_ms' = last_stats_ms
        BY <1>6, <3>3
      <4>2. clock - statsFile[screenTarget].at <= StatsPeriod
        BY <1>2, <3>1, <3>3 DEF Epoch
      <4> QED BY <1>1, <1>2, <3>1, <4>1, <4>2 DEF FileIsRecent
    <3> QED BY <3>2, <3>3
  <2> QED BY <2>3, <2>4, <2>5
<1> QED BY <1>9, <1>10, <1>11, <1>12 DEF ScreenInv

\* Every step of the statistics keeps the invariant.
LEMMA ScreenStepInv == ScreenInv /\ [ScreenNext]_screenVars => ScreenInv'
<1> SUFFICES ASSUME ScreenInv, [ScreenNext]_screenVars PROVE ScreenInv'
  OBVIOUS
<1>1. CASE UNCHANGED screenVars
  <2>1. /\ screenPc' = screenPc /\ fresh' = fresh /\ shownTargets' = shownTargets /\ stopNow' = stopNow
        /\ screenTarget' = screenTarget /\ startTime' = startTime /\ clock' = clock
        /\ tally' = tally /\ statsFile' = statsFile /\ last_ms' = last_ms /\ last_execs' = last_execs
        /\ avg_exec' = avg_exec /\ last_stats_ms' = last_stats_ms
    BY <1>1 DEF screenVars
  <2>2. ScreenTypes' /\ NothingShown' /\ SomeTargetShown' /\ FilesBehind'
    BY <2>1 DEF ScreenInv, ScreenTypes, NothingShown, SomeTargetShown, FilesBehind
  <2>3. Mine' = Mine
    BY <2>1 DEF Mine
  <2>4. OneTarget'
    BY <2>1, <2>3, Zenon DEF ScreenInv, OneTarget, SpeedBounds, FileIsRecent, Done, Fastest
  <2> QED BY <2>2, <2>4 DEF ScreenInv
<1>2. ASSUME ScreenNext PROVE ScreenInv'
  BY <1>2, StartKeepsScreen, RunKeepsScreen, ShowKeepsScreen, DryRunKeepsScreen, SwitchKeepsScreen,
     CycleKeepsScreen DEF ScreenNext
<1> QED BY <1>1, <1>2

\* The invariant is strong enough.
LEMMA ScreenInvEnough == ScreenInv => ScreenSound
<1> SUFFICES ASSUME ScreenInv PROVE ScreenSound
  OBVIOUS
<1>1. ASSUME Cardinality(shownTargets) = 1
      PROVE  /\ avg_exec <= Fastest
             /\ last_ms > 0 => last_ms - statsFile[screenTarget].at <= StatsPeriod
             /\ stopNow => \A t \in shownTargets : Done(tally[t]) \/ tally[t].crashes
  <2>1. CASE screenPc = "fuzzing"
    <3>1. SpeedBounds /\ FileIsRecent /\ (stopNow => Done(Mine) \/ Mine.crashes)
      BY <1>1, <2>1 DEF ScreenInv, OneTarget
    <3>2. \A t \in shownTargets : tally[t] = Mine
      BY <1>1, <2>1, OnlyOne DEF ScreenInv, ScreenTypes, SomeTargetShown, Mine
    <3> QED BY <3>1, <3>2 DEF SpeedBounds, FileIsRecent
  <2>2. CASE screenPc # "fuzzing"
    <3>1. avg_exec = 0 /\ last_ms = 0 /\ ~stopNow
      BY <2>2 DEF ScreenInv, NothingShown
    <3> QED BY <3>1, FastestIs
  <2> QED BY <2>1, <2>2
<1> QED BY <1>1 DEF ScreenInv, FilesBehind, ScreenSound

-----------------------------------------------------------------------------
(***************************************************************************)
(* What is drawn.                                                          *)
(***************************************************************************)
PanelInv ==
  /\ trimIn \in Nat /\ trimOut \in Nat /\ trimOut <= trimIn
  /\ effTotal \in Nat /\ effSelected \in Nat /\ effSelected <= effTotal
  /\ smoothRunnable \in Nat

\* Nothing is drawn at first.
LEMMA PanelInitInv == PanelInit => PanelInv
BY DEF PanelInit, PanelInv

\* The smoothed load is a number.
LEMMA SmoothRunnableNat ==
  ASSUME smoothRunnable \in Nat, NEW n \in Nat
  PROVE  get_runnable_processes(n) \in Nat
<1>1. n * 256 \in Nat /\ ((smoothRunnable * 15) + (n * 256)) \div 16 \in Nat
  OBVIOUS
<1> QED BY <1>1 DEF get_runnable_processes

\* Every step of the screen keeps its invariant.
LEMMA PanelStepInv == PanelInv /\ [PanelNext]_panelVars => PanelInv'
<1> SUFFICES ASSUME PanelInv, [PanelNext]_panelVars PROVE PanelInv'
  OBVIOUS
<1>1. CASE EndCycle
  BY <1>1 DEF EndCycle, Work, Drawn, PanelInv
<1>2. CASE FuzzSeed
  <2>1. /\ \E before, after \in {1, 3} : after <= before /\ trimIn' = trimIn + before /\ trimOut' = trimOut + after
        /\ \E blocks, selected \in {0, 2} :
             selected <= blocks /\ effTotal' = effTotal + blocks /\ effSelected' = effSelected + selected
        /\ smoothRunnable' = smoothRunnable
    BY <1>2 DEF FuzzSeed, Drawn
  <2> QED BY <2>1 DEF PanelInv
<1>3. CASE DrawScreen
  <2>1. trimIn' = trimIn /\ trimOut' = trimOut /\ effTotal' = effTotal /\ effSelected' = effSelected
    BY <1>3 DEF DrawScreen, Work
  <2>2. smoothRunnable' = smoothRunnable \/ \E n \in Runnable : smoothRunnable' = get_runnable_processes(n)
    BY <1>3 DEF DrawScreen
  <2>3. smoothRunnable' \in Nat
    BY <2>2, SmoothRunnableNat, PanelAssumption DEF PanelInv
  <2> QED BY <2>1, <2>3 DEF PanelInv
<1>4. CASE UNCHANGED panelVars
  BY <1>4 DEF panelVars, PanelInv
<1> QED BY <1>1, <1>2, <1>3, <1>4 DEF PanelNext

(* One buffer, and yet every row has its own text. *)
LEMMA RowsAreOwn ==
  /\ \A r \in Rows : RowText[r] \in {-1, 0, r} /\ (RowText[r] = -1 => mode.skip /\ r # 6)
<1> DEFINE Text(g, r) == IF r = 1 /\ mode.skip THEN -1
                         ELSE IF mode.skip /\ r # 6 THEN g[r - 1] ELSE Own(r)
           IsText(g) == g = [r \in Rows |-> Text(g, r)]
           f == [r \in Rows |-> IF mode.skip /\ r # 6 THEN -1 ELSE Own(r)]
           t == CHOOSE g : IsText(g)
<1>1. \A r \in Rows : Own(r) \in {0, r} /\ r \in Int /\ Own(r) # -1
  BY DEF Own, Rows
<1>2. \A r \in Rows : f[r] = Text(f, r)
  <2>1. ASSUME NEW r \in Rows, mode.skip, r # 6, r # 1 PROVE f[r - 1] = -1
    <3>1. r - 1 \in Rows /\ r - 1 # 6
      BY <2>1 DEF Rows
    <3> QED BY <2>1, <3>1
  <2>2. 1 # 6
    OBVIOUS
  <2> QED BY <2>1, <2>2
<1>3. IsText(f)
  <2> HIDE DEF Text
  <2>1. f = [r \in Rows |-> f[r]]
    OBVIOUS
  <2> HIDE DEF f
  <2> QED BY <1>2, <2>1
<1>4. IsText(t)
  <2> HIDE DEF IsText, f
  <2> QED BY <1>3
<1>5. RowText = t
  BY DEF RowText
<1> HIDE DEF t
<1>6. \A r \in Rows : t[r] = Text(t, r)
  BY <1>4, Zenon
<1>7. ASSUME mode.skip PROVE t[1] = -1 /\ t[2] = -1 /\ t[3] = -1 /\ t[4] = -1 /\ t[5] = -1
  <2>1. 1 \in Rows /\ 2 \in Rows /\ 3 \in Rows /\ 4 \in Rows /\ 5 \in Rows
    BY DEF Rows
  <2>2. t[1] = -1
    BY <1>6, <1>7, <2>1
  <2>3. t[2] = t[2 - 1] /\ t[3] = t[3 - 1] /\ t[4] = t[4 - 1] /\ t[5] = t[5 - 1]
    BY <1>6, <1>7, <2>1
  <2>4. 2 - 1 = 1 /\ 3 - 1 = 2 /\ 4 - 1 = 3 /\ 5 - 1 = 4
    OBVIOUS
  <2> QED BY <2>2, <2>3, <2>4
<1>8. ASSUME NEW r \in Rows PROVE t[r] \in {-1, 0, r} /\ (t[r] = -1 => mode.skip /\ r # 6)
  <2>1. CASE mode.skip /\ r # 6
    <3>1. r = 1 \/ r = 2 \/ r = 3 \/ r = 4 \/ r = 5
      BY <2>1 DEF Rows
    <3> QED BY <1>7, <2>1, <3>1
  <2>2. CASE ~(mode.skip /\ r # 6)
    <3>1. t[r] = Own(r)
      BY <1>6, <2>2
    <3> QED BY <1>1, <2>2, <3>1
  <2> QED BY <2>1, <2>2
<1> QED BY <1>5, <1>8

\* What a trim saved, in percent.
LEMMA ShareIsPercentage ==
  ASSUME NEW a \in Nat, NEW b \in Nat, b <= a, a > 0
  PROVE  ((a - b) * 100) \div a \in -1 .. 100
<1>1. (a - b) * 100 \in Nat /\ (a - b) * 100 <= 100 * a
  OBVIOUS
<1> DEFINE c == (a - b) * 100
<1>2. c \in Nat /\ c <= 100 * a
  BY <1>1
<1> HIDE DEF c
<1>3. c \div a \in Nat /\ c \div a <= 100
  BY <1>2, QuotientAtMost
<1>4. c \div a \in -1 .. 100
  BY <1>3
<1> QED BY <1>4 DEF c

\* What a drawing puts into its fields.
LEMMA DrawnRight == PanelInv /\ PanelInv' /\ DrawScreen => Drawing'
<1> SUFFICES ASSUME PanelInv, PanelInv', DrawScreen PROVE Drawing'
  OBVIOUS
<1>1. /\ mode' = mode /\ wo_finds' = wo_finds /\ notFuzzed' = notFuzzed
      /\ panel'.colour = CycleColour /\ panel'.rows = RowText /\ panel'.trim = TrimShare
      /\ panel'.eff = EffShare /\ panel'.meter = CpuMeter(smoothRunnable')
  BY DEF DrawScreen
<1>2. CycleColour = "green" => ~mode.dumb /\ wo_finds > 100 /\ ~notFuzzed
  BY DEF CycleColour
<1>3. TrimShare \in -1 .. 100
  <2>1. CASE trimOut = 0
    BY <2>1 DEF TrimShare
  <2>2. CASE trimOut # 0
    <3>1. trimIn \in Nat /\ trimOut \in Nat /\ trimOut <= trimIn /\ trimIn > 0
      BY <2>2 DEF PanelInv
    <3> QED BY <2>2, <3>1, ShareIsPercentage DEF TrimShare
  <2> QED BY <2>1, <2>2
<1>4. EffShare \in -1 .. 100
  <2>1. CASE effTotal = 0
    BY <2>1 DEF EffShare
  <2>2. CASE effTotal # 0
    <3>1. effTotal \in Nat /\ effSelected \in Nat /\ effSelected <= effTotal /\ effTotal > 0
      BY <2>2 DEF PanelInv
    <3> QED BY <2>2, <3>1, ShareIsPercentage DEF EffShare
  <2> QED BY <2>1, <2>2
<1>5. CpuMeter(smoothRunnable') = "green" => smoothRunnable' < CoreCount * 256
  <2> DEFINE n == smoothRunnable'
             m == CoreCount * 256
  <2>1. n \in Nat /\ m \in Nat
    BY PanelAssumption DEF PanelInv
  <2>2. CpuMeter(n) = "green" => n + 256 <= m
    BY DEF CpuMeter
  <2> HIDE DEF n, m
  <2>3. n + 256 <= m => n < m
    BY <2>1
  <2> QED BY <2>2, <2>3 DEF n, m
<1> QED BY <1>1, <1>2, <1>3, <1>4, <1>5, RowsAreOwn DEF Drawing

\* A drawing shows what there is.
LEMMA PanelStepRight == PanelInv /\ PanelInv' /\ [PanelNext]_panelVars => PanelRight
<1> SUFFICES ASSUME PanelInv, PanelInv', [PanelNext]_panelVars PROVE PanelRight
  OBVIOUS
<1>1. CASE DrawScreen
  BY <1>1, DrawnRight DEF PanelRight
<1>2. CASE EndCycle \/ FuzzSeed \/ UNCHANGED panelVars
  BY <1>2 DEF EndCycle, FuzzSeed, panelVars, Drawn, PanelRight
<1> QED BY <1>1, <1>2 DEF PanelNext

(* For all rates, clocks and targets: what is averaged, written and drawn is *)
(* what happened, and the automatic end comes when a run with one target is *)
(* done (src/afl-fuzz.c:4293-4747).                                        *)
THEOREM ScreenRightHolds == ScreenSpec /\ PanelSpec => ScreenRight
<1>1. ScreenInit /\ PanelInit => ScreenInv /\ PanelInv
  BY ScreenInitInv, PanelInitInv
<1>2. ScreenInv /\ [ScreenNext]_screenVars => ScreenInv'
  BY ScreenStepInv
<1>3. PanelInv /\ [PanelNext]_panelVars => PanelInv'
  BY PanelStepInv
<1>4. PanelInv /\ PanelInv' /\ [PanelNext]_panelVars => PanelRight
  BY PanelStepRight
<1>5. ScreenInv => ScreenSound
  BY ScreenInvEnough
<1>6. ScreenInv' => ScreenSound'
  BY <1>5, PTL
<1>7. /\ ScreenInv /\ [ScreenNext]_screenVars /\ PanelInv /\ [PanelNext]_panelVars
      => [ScreenSound' /\ PanelRight]_<<screenVars, panelVars>>
  BY <1>2, <1>3, <1>4, <1>6
<1> QED BY <1>1, <1>2, <1>3, <1>7, PTL DEF ScreenSpec, PanelSpec, ScreenRight
=============================================================================
