------------------------------- MODULE Timeout -------------------------------
(***************************************************************************)
(* The execution timeout of a session: one for all targets, from -t, from  *)
(* a fuzzer_stats (find_timeout, src/afl-fuzz.c:3746-3776), or derived     *)
(* from the calibration of the seeds (show_init_stats, 4766-4868), and the *)
(* dry runs of the targets (perform_dry_run, 3110-3310), one after the     *)
(* other, each under the timeout in force by then.                         *)
(***************************************************************************)
EXTENDS Integers, FiniteSets

CONSTANTS StatTargets,     \* target_num
          SeedCount,       \* queued_paths of a target
          AvgUs,           \* averages of exec_us that the calibration can measure
          Took,            \* times that the runs of a seed can take, in ms
          Given,           \* values that -t accepts, in ms
          FoundStats,      \* exec_timeout in the file that find_timeout opens; None without one
          SkipCrashes      \* AFL_SKIP_CRASHES

None == 0
ASSUME TimeoutAssumption ==
  /\ StatTargets \in Nat \ {0} /\ SeedCount \in Nat \ {0}
  /\ AvgUs \subseteq Nat /\ Took \subseteq Nat /\ SkipCrashes \in BOOLEAN
  /\ Given \subseteq {t \in Nat : t >= 5} /\ FoundStats \subseteq Nat

VARIABLES
  session,         \* "off" before main and after a fatal error, "init" (dry runs), "fuzz"
  resuming_fuzz,   \* the seeds are those of an earlier session (pivot_inputs)
  option,          \* -t was given
  starting,        \* the target whose dry run comes next
  dryLeft, cal_failures,  \* its seeds to go, and those skipped
  usable,          \* [target -> seeds of its queue that can be fuzzed]
  seedMax,         \* [target -> its slowest usable seed in ms]
  abort,           \* why the session gave up: "no", "timeout", "crash", "error", "all";
  slowest,         \* the time of the seed it gave up on
  exec_tmout, timeout_given, hang_tmout

dryVars == <<dryLeft, cal_failures, usable, seedMax, abort, slowest>>
timeVars == <<resuming_fuzz, option, exec_tmout, timeout_given, hang_tmout>>
timeoutVars == <<session, starting, dryVars, timeVars>>

StatIndex == 0 .. StatTargets - 1
EXEC_TIMEOUT == 1000
EXEC_TM_ROUND == 20
Bigger(a, b) == IF a > b THEN a ELSE b
Lesser(a, b) == IF a < b THEN a ELSE b

TimeoutInit ==
  /\ session = "off" /\ starting = 0 /\ resuming_fuzz = FALSE /\ option = FALSE
  /\ exec_tmout = EXEC_TIMEOUT /\ timeout_given = 0 /\ hang_tmout = EXEC_TIMEOUT
  /\ dryLeft = SeedCount /\ cal_failures = 0 /\ abort = "no" /\ slowest = 0
  /\ usable = [t \in StatIndex |-> 0] /\ seedMax = [t \in StatIndex |-> 0]

(* find_timeout looks in the directory given with -i, or in that given     *)
(* with -o: the fuzzer writes its statistics one directory further down,   *)
(* so that only a file somebody put there is found.                        *)
find_timeout(found) ==
  IF resuming_fuzz' /\ found > 4
  THEN exec_tmout' = found /\ timeout_given' = 3
  ELSE exec_tmout' = EXEC_TIMEOUT /\ timeout_given' = 0

(* -t, with or without the '+' that skips slow seeds; or find_timeout. *)
StartSession(resume, t, found) ==
  /\ session = "off" /\ abort = "no"
  /\ session' = "init" /\ resuming_fuzz' = resume /\ option' = (t # None)
  /\ IF t # None THEN exec_tmout' = t /\ timeout_given' \in {1, 2} ELSE find_timeout(found)
  /\ UNCHANGED <<hang_tmout, starting, dryVars>>

(* calibrate_case, on a seed of the queue: more generous when resuming. *)
use_tmout ==
  IF resuming_fuzz THEN Bigger(exec_tmout + 50, (exec_tmout * 125) \div 100) ELSE exec_tmout

(* perform_dry_run.  A seed that runs into the timeout ends the fuzzer     *)
(* unless timeout_given is above 1; one that crashes does unless           *)
(* AFL_SKIP_CRASHES is set.  Skipped seeds stay in the queue for good.     *)
InDryRun == session = "init" /\ dryLeft > 0

SeedRuns(ms) ==
  /\ InDryRun /\ ms <= use_tmout
  /\ dryLeft' = dryLeft - 1
  /\ usable' = [usable EXCEPT ![starting] = @ + 1]
  /\ seedMax' = [seedMax EXCEPT ![starting] = Bigger(@, ms)]
  /\ UNCHANGED <<session, starting, cal_failures, abort, slowest, timeVars>>

SeedFails(why, ms, skip) ==
  /\ InDryRun
  /\ LET failed == cal_failures + 1
         end == IF ~skip THEN why ELSE IF failed = SeedCount THEN "all" ELSE "no"
     IN /\ abort' = end /\ session' = IF end = "no" THEN session ELSE "off"
        /\ cal_failures' = failed
        /\ dryLeft' = dryLeft - 1 /\ slowest' = IF end = "no" THEN 0 ELSE ms
  /\ UNCHANGED <<starting, usable, seedMax, timeVars>>

SeedTimesOut(ms) == ms > use_tmout /\ SeedFails("timeout", ms, timeout_given > 1)
SeedCrashes(ms) == ms <= use_tmout /\ SeedFails("crash", ms, SkipCrashes)
(* The target cannot be executed, or is not instrumented. *)
SeedBroken ==
  /\ InDryRun /\ abort' = "error" /\ session' = "off"
  /\ UNCHANGED <<starting, dryLeft, cal_failures, usable, seedMax, slowest, timeVars>>

(* 5x the average or 1x the maximum, rounded up and capped at a second. *)
Derived(avg, max) ==
  LET times == IF avg > 50000 THEN 2 ELSE IF avg > 10000 THEN 3 ELSE 5
      raw == Bigger((avg * times) \div 1000, max)
      rounded == ((raw + EXEC_TM_ROUND) \div EXEC_TM_ROUND) * EXEC_TM_ROUND
  IN Lesser(rounded, EXEC_TIMEOUT)

\* Mutant: timeout_given is not set, so that every target derives one.
show_init_stats_Each(avg, dumb) ==
  /\ session = "init" /\ dryLeft = 0
  /\ exec_tmout' = IF timeout_given = 0 THEN Derived(avg, seedMax[starting]) ELSE exec_tmout
  /\ hang_tmout' = IF dumb THEN Lesser(EXEC_TIMEOUT, exec_tmout' * 2 + 100) ELSE hang_tmout
  /\ starting' = starting + 1
  /\ session' = IF starting + 1 = StatTargets THEN "fuzz" ELSE "init"
  /\ dryLeft' = SeedCount /\ cal_failures' = 0
  /\ UNCHANGED <<resuming_fuzz, option, timeout_given, usable, seedMax, abort, slowest>>

(* The end of a target's dry run, and the next one. *)
show_init_stats(avg, dumb) ==
  /\ session = "init" /\ dryLeft = 0
  /\ IF timeout_given = 0
     THEN exec_tmout' = Derived(avg, seedMax[starting]) /\ timeout_given' = 1
     ELSE UNCHANGED <<exec_tmout, timeout_given>>
  /\ hang_tmout' = IF dumb THEN Lesser(EXEC_TIMEOUT, exec_tmout' * 2 + 100) ELSE hang_tmout
  /\ starting' = starting + 1
  /\ session' = IF starting + 1 = StatTargets THEN "fuzz" ELSE "init"
  /\ dryLeft' = SeedCount /\ cal_failures' = 0
  /\ UNCHANGED <<resuming_fuzz, option, usable, seedMax, abort, slowest>>

TimeoutNext ==
  \/ \E r \in BOOLEAN, t \in Given \cup {None}, f \in FoundStats : StartSession(r, t, f)
  \/ \E ms \in Took : SeedRuns(ms) \/ SeedTimesOut(ms) \/ SeedCrashes(ms)
  \/ \E a \in AvgUs, d \in BOOLEAN : show_init_stats(a, d)
  \/ SeedBroken
TimeoutSpec == TimeoutInit /\ [][TimeoutNext]_timeoutVars

-----------------------------------------------------------------------------
(* A session that fuzzes has at least one seed per target that its dry run *)
(* did not give up on, so that the loop over the queue finds work.         *)
SeedsUsable == session = "fuzz" => \A t \in StatIndex : usable[t] > 0

(* The timeout in force when fuzzing begins, derived from one target's     *)
(* seeds, lets every seed that any target kept pass another calibration.   *)
SeedsFit == session = "fuzz" => \A t \in StatIndex : seedMax[t] <= use_tmout

(* The dry runs leave every target with seeds that can be fuzzed under the *)
(* one timeout (src/afl-fuzz.c:3110-3310, 2915-2924, 4830-4851).           *)
TimeoutRight == SeedsUsable /\ SeedsFit

(* src/afl-fuzz.c:3172-3174, the advice on a seed that is too slow: delete *)
(* -t "and allow the fuzzer to auto-calibrate".  Without -t only a seed    *)
(* slower than EXEC_TIMEOUT ends the fuzzer.                               *)
AutoTimeoutAccepts == abort = "timeout" /\ ~option => slowest > EXEC_TIMEOUT
=============================================================================
