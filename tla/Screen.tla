-------------------------------- MODULE Screen --------------------------------
(***************************************************************************)
(* show_stats (src/afl-fuzz.c:4293-4747): the statistics of the current    *)
(* target on the screen, in fuzzer_stats and in plot_data, and the end of  *)
(* a run by AFL_EXIT_WHEN_DONE or AFL_BENCH_UNTIL_CRASH.  Every target     *)
(* has its own counters, start_time included, and its own files; the times *)
(* of the last updates and the average speed are shared by all of them.    *)
(* Time is counted in screen periods (1000 / UI_TARGET_HZ = 200 ms).       *)
(***************************************************************************)
EXTENDS Integers, FiniteSets

CONSTANTS ScreenTargets,   \* sets of targets a run may have
          StatsPeriod,     \* STATS_UPDATE_SEC
          PlotPeriod,      \* PLOT_UPDATE_SEC
          ClockSteps,           \* sizes of the steps of the clock, 0 included
          Rates,           \* executions per period
          Quiet,           \* cycles_wo_finds above which a run is done (100)
          MaxClock, MaxQuiet

ASSUME ScreenAssumption ==
  /\ StatsPeriod \in Nat /\ PlotPeriod \in Nat /\ ClockSteps \subseteq Nat /\ Rates \subseteq Nat
  /\ Quiet \in Nat /\ MaxClock \in Nat /\ MaxQuiet \in Nat
  /\ IsFiniteSet(Rates) /\ Rates # {}
  /\ \A T \in ScreenTargets : IsFiniteSet(T) /\ T \subseteq Nat

VARIABLES
  shownTargets,                 \* the targets of this run
  clock, begunAt,               \* time now, and when afl-fuzz was started
  screenPc,                     \* "starting", "dry run" or "fuzzing"
  screenTarget,                      \* cur_target
  tally,                     \* [target -> [execs, pending, quiet, crashes, start]]
  fresh,                        \* targets whose dry run is still to come
  startTime,                    \* the global start_time
  last_ms, last_execs, avg_exec, last_stats_ms, last_plot_ms, prev_plot,
  statsFile,                    \* [target -> [execs, at, start], of fuzzer_stats]
  exits,                        \* variables of the environment: "done", "crash"
  stopNow                       \* stop_soon is 2

screenVars == <<shownTargets, clock, begunAt, screenPc, screenTarget, tally, fresh, startTime, last_ms,
                last_execs, avg_exec, last_stats_ms, last_plot_ms, prev_plot, statsFile, exits, stopNow>>

Statics == <<last_ms, last_execs, avg_exec, last_stats_ms, last_plot_ms, prev_plot>>
Epoch == 1000                   \* the time when afl-fuzz starts: long after 0
BelowZero == 1000000            \* the speed made of an unsigned difference below zero
Smoothing == 16                 \* AVG_SMOOTHING
Mine == tally[screenTarget]

ScreenInit ==
  /\ shownTargets \in ScreenTargets /\ exits \in SUBSET {"done", "crash"}
  /\ clock = Epoch /\ begunAt = Epoch /\ screenPc = "starting" /\ screenTarget = 0 /\ fresh = shownTargets
  /\ tally = [t \in shownTargets |-> [execs |-> 0, pending |-> TRUE, quiet |-> 0,
                                         crashes |-> FALSE, start |-> 0]]
  /\ startTime = 0 /\ last_ms = 0 /\ last_execs = 0 /\ avg_exec = 0 /\ last_stats_ms = 0 /\ last_plot_ms = 0
  /\ prev_plot = <<>> /\ stopNow = FALSE
  /\ statsFile = [t \in shownTargets |-> [execs |-> 0, at |-> 0, start |-> 0]]

(* main takes the time once, before the dry runs. *)
TakeStartTime ==
  /\ screenPc = "starting" /\ screenPc' = "dry run" /\ startTime' = clock
  /\ UNCHANGED <<shownTargets, clock, begunAt, screenTarget, tally, fresh, Statics, statsFile, exits, stopNow>>

(* switch_target loads the target's start_time with its other counters. *)
switch_start(t) == startTime' = tally[t].start /\ screenTarget' = t

(* A dry run: the target's turn, its executions, and its first fuzzer_stats. *)
DryRunTarget(t) ==
  /\ screenPc = "dry run" /\ t \in fresh /\ \A u \in fresh : t <= u
  /\ switch_start(t) /\ fresh' = fresh \ {t}
  /\ \E n \in Rates :
       /\ tally' = [tally EXCEPT ![t] = [tally[t] EXCEPT !.execs = n, !.start = startTime']]
       /\ statsFile' = [statsFile EXCEPT ![t] = [execs |-> n, at |-> clock, start |-> startTime']]
  /\ screenPc' = IF fresh' = {} THEN "fuzzing" ELSE "dry run"
  /\ UNCHANGED <<shownTargets, clock, begunAt, Statics, exits, stopNow>>

(* The main loop turns to another target; a queue cycle of it may have     *)
(* ended with or without finds.                                            *)
SwitchShown(t) ==
  /\ screenPc = "fuzzing" /\ ~stopNow /\ t \in shownTargets /\ t # screenTarget
  /\ switch_start(t)
  /\ UNCHANGED <<shownTargets, clock, begunAt, screenPc, tally, fresh, Statics, statsFile, exits, stopNow>>

QueueCycle(found) ==
  /\ screenPc = "fuzzing" /\ ~stopNow
  /\ Mine.quiet < MaxQuiet \/ found
  /\ tally' = [tally EXCEPT ![screenTarget] =
                    [Mine EXCEPT !.quiet = IF found THEN 0 ELSE Mine.quiet + 1, !.pending = found]]
  /\ UNCHANGED <<shownTargets, clock, begunAt, screenPc, screenTarget, fresh, startTime, Statics, statsFile,
                 exits, stopNow>>

-----------------------------------------------------------------------------
(* The average before the first update, and its change by a speed that is  *)
(* 5 times higher or lower (taken at once) or not (smoothed).              *)
FirstAverage == Mine.execs \div (clock - startTime)

Smoothed(speed) ==
  LET base == IF speed * 5 < avg_exec \/ speed \div 5 > avg_exec THEN speed ELSE avg_exec
  IN ((base * (Smoothing - 1)) + speed) \div Smoothing

(* The runs since the last update are an unsigned difference: fewer than   *)
(* another target had are a huge number.                                   *)
\* Mutant: they are not divided by the time.
Speed_Count == IF Mine.execs < last_execs THEN BelowZero ELSE Mine.execs - last_execs

Speed == IF Mine.execs < last_execs THEN BelowZero ELSE (Mine.execs - last_execs) \div (clock - last_ms)

Average == IF last_execs = 0 THEN FirstAverage ELSE Smoothed(Speed)

(* fuzzer_stats, auto tokens and the bitmap, once a minute, of the target that is current. *)
write_stats_file ==
  IF clock - last_stats_ms > StatsPeriod
  THEN /\ last_stats_ms' = clock
       /\ statsFile' = [statsFile EXCEPT ![screenTarget] = [execs |-> Mine.execs, at |-> clock, start |-> startTime]]
  ELSE UNCHANGED <<last_stats_ms, statsFile>>

(* plot_data gets a line if a counter differs from those of the last line. *)
maybe_update_plot_file ==
  IF clock - last_plot_ms > PlotPeriod
  THEN last_plot_ms' = clock /\ prev_plot' = <<Mine.pending, Mine.crashes>>
  ELSE UNCHANGED <<last_plot_ms, prev_plot>>

Done(c) == c.quiet > Quiet /\ ~c.pending

show_stats ==
  /\ clock - last_ms >= 1
  /\ avg_exec' = Average /\ last_ms' = clock /\ last_execs' = Mine.execs
  /\ write_stats_file /\ maybe_update_plot_file
  /\ stopNow' = (stopNow \/ ("done" \in exits /\ Done(Mine)) \/ ("crash" \in exits /\ Mine.crashes))

(* Time passes, the target runs, and the fuzzer calls show_stats, which    *)
(* does nothing within a period of the last update.                        *)
FuzzAndShow ==
  /\ screenPc = "fuzzing" /\ ~stopNow
  /\ \E d \in ClockSteps, n \in Rates, crashed \in BOOLEAN :
       /\ clock + d <= Epoch + MaxClock /\ (d = 0 => n = 0)
       /\ clock' = clock + d
       /\ tally' = [tally EXCEPT ![screenTarget] =
                         [Mine EXCEPT !.execs = Mine.execs + (n * d), !.crashes = Mine.crashes \/ crashed]]
  /\ UNCHANGED <<shownTargets, begunAt, screenPc, screenTarget, fresh, startTime, Statics, statsFile, exits, stopNow>>

ShowStats ==
  /\ screenPc = "fuzzing" /\ ~stopNow /\ show_stats
  /\ UNCHANGED <<shownTargets, clock, begunAt, screenPc, screenTarget, tally, fresh, startTime, exits>>

ScreenNext ==
  \/ TakeStartTime \/ FuzzAndShow \/ ShowStats
  \/ \E t \in UNION ScreenTargets : DryRunTarget(t) \/ SwitchShown(t)
  \/ \E found \in BOOLEAN : QueueCycle(found)

ScreenSpec == ScreenInit /\ [][ScreenNext]_screenVars

-----------------------------------------------------------------------------
Fastest == CHOOSE r \in Rates : \A s \in Rates : s <= r

(* With one target the screen tells the truth: the average speed is within *)
(* the speeds the target ran at (a difference taken against another        *)
(* counter would wrap), fuzzer_stats is at most a period older than the    *)
(* screen, and AFL_EXIT_WHEN_DONE ends the run when the queue is done.     *)
(* With several, fuzzer_stats never claims an execution that its target    *)
(* has not made (src/afl-fuzz.c:4305-4378).                                *)
ScreenSound ==
  /\ \A t \in shownTargets : statsFile[t].execs <= tally[t].execs
  /\ Cardinality(shownTargets) = 1 =>
       /\ avg_exec <= Fastest
       /\ last_ms > 0 => last_ms - statsFile[screenTarget].at <= StatsPeriod
       /\ stopNow => \A t \in shownTargets : Done(tally[t]) \/ tally[t].crashes

(* docs/status_screen.txt:383 says of fuzzer_stats: "start_time - unix     *)
(* time indicating the start time of afl-fuzz".  Every file that was       *)
(* written after the dry runs carries that time (src/afl-fuzz.c:3842).     *)
StartTimeRight == \A t \in shownTargets : statsFile[t].at > 0 => statsFile[t].start = begunAt

(* docs/env_variables.txt:105: afl-fuzz terminates when all existing paths *)
(* have been fuzzed: with several targets the paths of all of them.        *)
ExitWhenAllDone ==
  stopNow /\ "crash" \notin exits => \A t \in shownTargets : Done(tally[t])
==============================================================================
