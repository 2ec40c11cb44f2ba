# Multi-DAFL: a verification in TLA+

Multi-DAFL is AFL 2.57b with DAFL's directed scheduling and an extension that
fuzzes one program for several *targets* (lines of interest) from one process,
switching between them after every seed. This directory holds TLA+ models of
the fuzzer, of the code it puts into programs and of its command-line tools, the
TLC configurations that check them, and proofs for TLAPS.

    tlc -workers 2 -config Campaign.cfg Campaign    # one run
    tlapm MultiTargetProof.tla                      # one proof module

Contents: [1 the system](#1-the-system) · [2 the models](#2-the-models) ·
[3 the runs](#3-the-runs-and-their-bounds) · [4 fairness](#4-fairness) ·
[5 the proofs](#5-the-proofs) · [6 what was found](#6-what-was-found) ·
[7 what is not modelled](#7-what-is-not-modelled) · [8 the plan](#8-the-plan)

Line numbers refer to `src/afl-fuzz.c` unless another file is named.
`PROJECT.json` maps every definition to the lines it stands for.

## 1 The system

`afl-fuzz` is one thread with signal handlers. It runs the program under test
through a fork server that lives in another process, and exchanges data with it
through pipes and shared memory. Programs are instrumented by a pass of LLVM or
by an assembler wrapper; `afl-tmin`, `afl-showmap` and `afl-analyze` run them
without a fork server.

    set-up ── dry runs ── main loop ── select_target / switch_target ── cull_queue ── fuzz_one
       │                     │                │                            │           │
    output directory    all_* arrays     GC-log segments              top_rated[]  run_target
       │                     │                ▲                                        │ pipes 198/199
    other fuzzers        show_stats           │ mdafl_gc_log                           ▼
    (cores, shm keys)                    program under test ◄── fork / SIGCONT ── fork server

| Part | State | Operations | Interacts with |
|---|---|---|---|
| Execution of the target | `child_pid`, `child_timed_out`, `prev_timed_out`, `stop_soon`, interval timer; the server's `child_pid`, `child_stopped`, `was_killed`; `trace_bits` | `init_forkserver`, `run_target`, `handle_timeout`, `handle_stop_sig`; `__afl_start_forkserver`, `__afl_persistent_loop` | two pipes, `SIGKILL`/`SIGCONT`/`SIGSTOP`, shared trace |
| Guarding-condition log | one ring per target (`count`, `tail`, `log_data`), the segment that names the current ring | `mdafl_gc_log`, `get_prob_share_time`, the redirection in `switch_target` | program under test writes, fuzzer reads |
| Shared-memory segments | keys, identifiers, maps | `init_parameter`, `setup_multi_shm`, `remove_shm` | the kernel, other fuzzers |
| Multi-target engine | about 60 globals, one `all_*` array for each; flags that exist once | `init_parameter`, `read_all_testcases`, `switch_target`, `save_target`, the main loop, `save_in_file`, `cleanup_queue` | everything that belongs to a target |
| Target selection, estimator | probabilities, selections and times per target | `select_target`, `nomalize`, the density estimate | log, engine |
| Seed queue | linked list by `prox_score`, `queue_cur`, `first_unhandled`, `shortcut_per_100` | `add_to_queue`, `sorted_insert_to_queue`, `sort_queue`, the walk in `main`, splicing | engine, calibration |
| Favored seeds | `top_rated[]`, `tc_ref`, `trace_mini`, `favored`, `pending_favored` | `update_bitmap_score`, `minimize_bits`, `cull_queue` | calibration, trimming, `fuzz_one`'s skipping |
| Calibration, new coverage | virgin maps, `var_bytes`, `cal_failed`, totals | `calibrate_case`, `has_new_bits`, `save_if_interesting` | queue, favored seeds |
| Fuzzing stages | buffers, stage counters, effector map | `fuzz_one` | all of the above |
| Trimming | file and length of a seed | `trim_case` | favored seeds |
| Dictionary | `extras`, `a_extras` | `load_extras`, `maybe_add_auto`, `save_auto`, `load_auto` | shared by all targets |
| Output directory, resume | `target<i>/` with `queue/`, `crashes/`, `fuzzer_stats`; `_resume/` | `setup_dirs_fds`, `maybe_delete_out_dir`, `pivot_inputs`, `find_timeout`, `perform_dry_run` | earlier and later sessions |
| Synchronisation (not reached, section 7) | `.synced/`, the other's `queue/` | `sync_fuzzers`, `fix_up_sync` | other fuzzers |
| Statistics, user interface | clocks and averages kept in statics | `show_stats`, `write_stats_file`, `maybe_update_plot_file` | engine |
| Set-up | options, environment, cores | `main`, `check_*`, `bind_to_free_cpu`, `detect_file_args`, `find_binary` | other fuzzers, the host |
| Instrumentation | flags of a compilation, of a scan; selections and graphs of the targets; `__afl_prev_loc`, `__afl_area_ptr` | `afl-gcc`, `afl-as`, the LLVM pass, the inserted code | compiler, fork-server protocol |
| Around the program | `total_mem` and buffers; translations and their pipe | `libdislocator`, QEMU's `afl_forkserver`, `afl_request_tsl`, `afl_wait_tsl` | program under test, fork-server protocol |
| Tools | the input being shrunk or analysed; timer, `child_pid` | `afl-tmin`, `afl-analyze`, `afl-showmap`, `afl-gotcpu` | programs under test |

What is hard about them, and what must hold:

* **Execution.** The four-byte messages of the status pipe carry no tag: their
  order is all there is. The time limit can expire before, while or after a
  persistent child stops itself, and Ctrl-C can come between any two steps.
  *A call returns the fault of its own run; every call returns; trace and
  processes are quiet between runs; nothing outlives the fuzzer.*
* **Log.** A run may be killed inside `mdafl_gc_log`, and the ring lives on.
  *A reader gets the most recent conditions of the current target, whatever was
  killed, and the damage to the counter is bounded.*
* **Engine.** Per-target state is swapped by hand; some of it is reached by
  pointer and not swapped, some flags exist once for all targets.
  *Targets do not disturb one another; what one target needs done is not
  cancelled by another; files are complete at the end.*
* **Queue and favored seeds.** Seeds are inserted in front of the walk that is
  under way; counts and marks are updated by two loops that meet seeds in any
  order. *A cycle ends only when all seeds had their turn, best first; every
  covered byte is covered by a favored seed; counters equal what they count.*
* **Calibration and stages.** Runs fail, hang, vary and are retried; a seed is
  mutated in place and shrinks under the stages. *Totals count once; variable
  bytes really varied; the seed is itself again before the next run; skipped
  values are values that were run.*
* **Files and other fuzzers.** A session may be killed between any two file
  operations, decides by what an earlier one left what it may delete, and looks
  for cores and keys while other fuzzers do. *What was found is not deleted by a
  later session, and is there for the next; a trimmed seed keeps what its trace
  depends on; a core is shared only if two looked for it at once.*
* **Tools and instrumentation.** What one process knows the next learns only
  from the environment; a scan decides with a handful of flags; a timer races
  the fork. *A result is that of a complete run; the output behaves like the
  input; trampolines are where they belong and count steps.*

The hazards, with their lines and the properties aimed at them, are in
`PROJECT.json`.

## 2 The models

| Module | Models | Kind |
|---|---|---|
| `ForkServer` | execution of the target, three kinds of process | detailed |
| `ExecOracle` | what `run_target` promises its callers | abstract |
| `GcLog` | the log rings, field by field | detailed |
| `RecentLog` | what the log is for | abstract |
| `MultiTarget` | the engine: contexts, shared flags, main loop, clean-up | detailed |
| `Sessions` | independent sessions, one per target | abstract |
| `Favored` | scoring and culling, byte by byte | detailed |
| `OutDir` | the output directories over many sessions, with kills | detailed |
| `Corpus` | composes `Favored` and `OutDir` | instance |
| `MCMultiTarget` | `MultiTarget` with three tokens that are alike | instance |
| `Campaign` | composes the modules of afl-fuzz below | instance |
| · `Calibration` | virgin maps, `calibrate_case`, `save_if_interesting` | |
| · `Dictionary` | user and auto tokens, over sessions | |
| · `SeedQueue` | the sorted list and its walk | |
| · `Timeout` | the timeout of a session and the dry runs | |
| · `Machine` | cores and shared memory of several fuzzers on one machine | |
| · `Selection` | the estimate and the choice of a target | |
| · `Setup` | from the command line to the first run | |
| · `Screen`, `Panel` | `show_stats`: files, clocks and ends; what is drawn | |
| `Jobs` | composes the modules about one seed or one program | instance |
| · `Stages`, `ByteOps` | the deterministic stages; the values they skip | |
| · `Havoc` | the number of random runs, and the buffer under them | |
| · `Trim` | `trim_case` and the files of a seed | |
| · `Tmin`, `Analyze`, `ToolRun`, `Launch` | the tools | |
| · `Build`, `AsScan`, `Trampoline` | wrappers, assembler, inserted code | |
| · `LlvmPass` | the pass: which blocks count, and which scores they store | |
| · `Dislocator`, `QemuServer` | the allocator and the emulator under a program | |
| · `ProgramSide` | states the property of the last three together | |
| `ForkServerProof`, `ProgramSideProof`, `MultiTargetProof`, `FavoredProof`, `QueueProof`, `StagesProof`, `SessionProof`, `JobsProof` | what section 5 says | proofs |

Definitions carry the names of the functions and variables they model. A
definition called `X_Something` right before `X` is a *mutant*: `X` with a
plausible bug, used to show that the properties notice it. It is part of no
specification.

Every module is a specification of its own (`…Spec`). `Corpus`, `Campaign` and `Jobs`
check several of them in one run: a variable `part`, chosen at the start, says
which component the behaviour is of, and the others stand still. The components
share no state there; each has actions for what the rest of the system does to
it. Where components really meet they meet in one module: fuzzer, server and
program in `ForkServer`; program and reader in `GcLog`; the engine and what a
round of `fuzz_one` does to it in `MultiTarget`; calibration, trimming and
culling in `Favored`.

### ForkServer and ExecOracle

`fz` is the place of the fuzzer (in `init_forkserver`, between calls, or one of
the places in `run_target` between which something can happen), `fs` that of
the fork server, `proc[p]` the state of process `p`. A zombie is named by what
`waitpid` will report. A signal handler runs between any two steps of the
fuzzer; `handle_stop_sig` has two halves (`StopSig`, `StopSigServer`), since
the fork server can act between its two kills. There are three ways to run a
target: persistent (`__AFL_LOOP`), one process per run, and without the server
(`no_forkserver` or dumb mode); the mode is fixed by `Init`.

`FsStart` is the fork or the `SIGCONT`; `FsWriteOff` the block that collects a
child that was killed after it had stopped itself; `FsWait` joins `waitpid` and
the relay of its status, because a kill of the server between the two looks to
the fuzzer like one before or after both. A wait for a process that was
collected before fails and takes the server down (`lost`), as `_exit(1)` does.

`ExecOracle` has no pipes, processes or signals: a call runs the program once,
the program meets one fate, and the fault returned is that of this fate. A kill
is a fate only if the limit of *this* call expired or the user is stopping.
`ForkServer!Refinement` is the detailed model under the mapping of `fz` to the
four phases of the oracle. Left out: MSan's exit code and `EXEC_FAIL_SIG`,
which only rename a fault.

### GcLog and RecentLog

The writer is at one of five places (`writer`): outside, and before each of
`count++`, the write of `index`, of the other fields, and the advance of
`tail`. `KillRun` ends a run at any of the inner ones. `GetProb` computes the
input of the estimator (`Observe`): the records of the biggest index among those
visited, the last `MAX_VEC_SIZE` of them. The estimator's arithmetic is not
modelled. `logged` and `cuts` are history. `RecentLog` keeps all records in a
sequence per target and lets the reader see the last `Capacity` of the current
one; `GcLog` implements it until a run is killed while it logs to the ring that
is read (`Refinement`). What holds after that is `RingSound`.

### MultiTarget and Sessions

`live` is the context in the globals, `saved` the `all_*` arrays. Of the copied
variables, the context has those that decide something: `queued_paths`,
`queue_cycle`, `cycles_wo_finds`, `havoc_div`, whether `start_time` is set, and
what `queue_cur` and `first_unhandled` point at. These two are abstracted to
"no seed", "a seed still to do in this cycle" and "one that is done"; the order
of the list is the business of `SeedQueue`. `heap` is what is reached by a
pointer and therefore never copied: how many seeds are unhandled, whether the
`top_rated` table changed since the last culling, whether `virgin_bits` changed
since `fuzz_bitmap` was written. The dictionary is the set of its tokens and the
set of those in use (`used`, at most `USE_AUTO_EXTRAS` of them), which is all that
`save_auto` writes: `AddToken` is a hit on a token, an append, or an eviction from
the part that is not in use, followed by the sort (`Sorted`). The flags `bitmap_changed`, `score_changed`,
`auto_changed`, the dictionary, `use_splicing` and `prev_queued` exist once.

Actions are the bodies of main's loops: `ReadTarget`, `StartClock`, `DryRun`,
`Ready` (the first `switch_target`, or the way to the clean-up), `Enter`
(`select_target`, `switch_target`, `cull_queue`, the new cycle), `EndFuzz`
(with `save_target`), `SaveInFile`, `CleanUp`. In between, `fuzz_one` may find
a seed (`Find`), change scores (`Rescore`), detect a token (`AddToken`) and show
statistics. Which target `select_target` picks is left open, so what holds,
holds for every policy.

`Sessions` gives every target a session of its own: it reads its corpus once,
takes up seeds, starts a cycle exactly when the last has nothing left to do,
and adds finds. `Refinement` says that the multiplexed globals implement it.

### SeedQueue

One target; a list of entries, their scores and the shortcuts. `SortedInsert`
is `sorted_insert_to_queue` (place, `first_unhandled`, shortcuts), `SortQueue`
folds it over the list. `Find` queues a seed by the score of the run that
found it; the calibration that follows may change the score in place, which
`drifted` remembers. `SpliceTarget` is `fuzz_one`'s walk to a partner drawn by
index, with its arithmetic on the unsigned `idx`. `BestFirst` is the order in
which a cycle takes seeds up; `QueueRight` joins it with the invariants.

### Favored

`ScoreByte` and `CullByte` are the bodies of the loops of `update_bitmap_score`
and `cull_queue`. A trace is a set of bytes. Seeds are scored by `Calibrate`
and `Trim`, and counted out by `Fuzzed`; `cull_queue` runs when `score_changed`
is set. `varied` remembers that a seed was scored with two different traces,
which only targets with variable behaviour do.

### Calibration

A trace is a function from map bytes to hit-count bits, grouped into words as
`has_new_bits` reads them. `CalibrationRun` is one round of the loop (a variable
byte lengthens it), `CalibrationFault` and `CalibrationDone` its exits; `DryRun`,
`RetryCalibration`, `CalibrateFound` call it. `FoundNormal`, `FoundTimeout`,
`FoundCrash` are the branches of `save_if_interesting`, with the second run
under `hang_tmout`. `CalibrationRight`: a byte is marked variable only if two
runs of one seed differed in it; the totals count a seed once, whatever was
retried; `has_new_bits` says what it says.

### Dictionary

A token is its text up to case, its spelling and its length: what the
comparisons of `maybe_add_auto` look at. `sort_a_extras` is the sort by use and
the sort of the first `USE_AUTO_EXTRAS` by length. Sessions save and load.
`DictionaryRight`: the tokens in use are those hit most, in the order of their
lengths, none is there twice or repeats one of the user's, and no saved token is
lost or altered by a restart.

### OutDir and Timeout

`OutDir` has one action per step of `setup_dirs_fds`, `maybe_delete_out_dir`,
`read_all_testcases`, `pivot_all_inputs` and `write_stats_file` that changes a
file, and `Killed` between any two. A path is a sequence, so that the model knows
that `target0/` lies below the directory given with `-o`: the old-session checks of
`maybe_delete_out_dir` look at the latter and find something only if the user gives
the directory of a target. An in-place resume is modelled as it is in this
program: it takes the directory over and ends at the `mkdir` of the first target
(section 6). What works is a new session whose `-i` is the output directory of an
old one. `WorkSurvives`: nothing that a session found is deleted by another
(`FindsKept`), and a session that is given another's output starts from all seeds
of all targets with their marks (`CarriedOver`).

`Timeout` follows `exec_tmout` through one session: from `-t`, from a file that
`find_timeout` meets (it looks one directory above the one the fuzzer writes, so
only a file that somebody put there is met), or derived by `show_init_stats`, and
the dry runs of the targets one after the other under what is in force by then.
`TimeoutRight`: when fuzzing starts, every target has a seed that can be fuzzed
(`SeedsUsable`), and no seed that a dry run kept is too slow for the timeout that
the dry run of the first target left (`SeedsFit`).

### Machine

*Cores*: `/proc` is read entry by entry while others scan and bind. *Segments*:
`shmget` by key, with what earlier fuzzers left behind. `alone`, `collided` and
`witnessed` are history that the properties need to say under which
circumstances something holds.

### Selection

`get_prob_share_time` maps a window of records to a probability (samples of a
comparison, equal samples, and/or/not); `Arithmetic` replaces the integral of
the kernel by an exact rational of the same sign and order, in sixtieths, with
NaN as a value of its own. `nomalize` and the two phases of `select_target` are
modelled with the order of their updates. `SelectionRight`: in the sampling
phase targets are gone through in order, and when it is over every other target
has a score that is a number.

### Setup

Options are parsed in any order, then come the checks in `main`'s order, the
deletion of an old session, `init_parameter` and the first `switch_target`.
`OptionsAgree`: the order of the options never matters, and contradictory
options never get as far as deleting anything. `OptionsKept` (violated) says that
`-N` and `-c` are still in force when fuzzing starts.

### Screen and Panel

`Screen` keeps the clocks, the smoothed speed and the periods that `show_stats`
holds in statics, shared by all targets and updated only by some of its exits;
`Panel` computes what is drawn from the counters. `ScreenRight`: with one
target the average speed stays within the speeds measured, `fuzzer_stats` is at
most a period older than the screen, and the automatic end has its cause; with
several no file claims more executions than its target made; rows and
percentages are those of their stage.

### Stages, ByteOps, Havoc, Trim

`Stages`: `entry` and `walk` are the seed and the loop under way; one action per
start, step and end of a stage, with the widths and skips of the stage as
operators. The outcome of a run is its checksum (one of a few); the effector map
and the collection of tokens depend on it. `StagesRight`: the buffer is the seed
at every run, tokens are maximal runs of one checksum, counts match.

`ByteOps` computes `could_be_bitflip`, `could_be_arith` and `could_be_interest`
on bytes and 16-bit words with the real tables and compares them with the sets
of values that the earlier stages run.

`Havoc` is the number of runs: `calculate_score`, the doubling on finds, the
splicing rounds, in arithmetic modulo `StageValues`; and the buffer under them:
`temp_len`, its allocation, and every index a stacked tweak uses. `Trim` has the
loops, an abort at any run, and the files (`names` to `inode`: a queue file may be
a hard link to the input). Unlinking, creating and writing the queue file are three
steps, and the last two can fail. `TrimKeepsSeed`: the buffer has all that the trace
depends on, the queue file too except between `unlink` and the end of the write
(`Replacing`), when a kill leaves none or an empty one, and the input is never
written to.

### The tools

`Tmin` runs the four passes of `afl-tmin` on all files of up to four bytes
against programs that disagree about what matters; `TminRight`: the output
behaves as the input, no byte can be removed from it, and skipping a block is
justified by a refusal. `Analyze`: one action per try on a byte, with late runs;
`AnalyzeRight`: each try differs in one byte from the original, bytes of
two magic fields are never shown as one block, every byte is shown once. `ToolRun`: the fork, the storing of
`child_pid`, the timer and Ctrl-C of the three tools, and `afl-gotcpu`'s measuring
processes with their exit codes. `Launch`: options, `PATH`, `@@` and QEMU.

### Build, AsScan, Trampoline

`Build`: `afl-gcc`, the compiler and `afl-as` are one chain of processes that
share only the environment. `AsScan`: `ReadLine` is the loop body of
`add_instrumentation` with its six flags; `TrampolinesPlaced` defines the right
places from the whole file. `Trampoline`: `mem` is the memory of the running
process, copied at a fork; cells are `loc xor prev_loc`.

### LlvmPass, Dislocator, QemuServer

`LlvmPass`: `initialize` compares the two folders and reads them pair by pair
(`ReadPair`); `RunOnFunction` is one turn of the loop over the functions of a
module, with the file name that a function without debug information takes from
the one before. `ScoresAreTheTargets` says, from the names of the files and not
from the vectors, which scores each block must store. `Dislocator`: a call of
`malloc`, `calloc`, `realloc` or `free` by one of two threads is a step; sizes
wrap at `SizeLimit`; `HeapCounts` relates the counts of all threads to the
buffers in use. `QemuServer`: child, a process that it forks, the pipe of
translations with room for few requests, and the parent that reads it;
`TranslatedOnce`: between runs the parent knows all that was asked for. The
pipe ends only when the last process that has it ends, so that the answer to
the fuzzer waits for a process that outlives the child. `ProgramSideRight` is
the three properties together.

## 3 The runs and their bounds

| Run | Question | Distinct states |
|---|---|---|
| `forkserver` | Does `run_target` keep its promise and return, in all three modes? | 37 919 |
| `stop_orphan` † | Does Ctrl-C kill the program under test? | |
| `gclog` | Does the reader see the most recent records, and what survives a run that is killed while it logs? | 6 631 784 |
| `two_targets` | Do two targets advance as if each were alone? | 2 496 774 |
| `shared_tokens` | Do the tokens in use survive the sharing of one dictionary? | 1 209 558 |
| `one_target` | What holds as long as there is one target? | 20 134 |
| `multi_havoc` † | Is `havoc_div` positive with one target? | |
| `corpus` | Are holders, traces, marks and counters right? Do finds survive kills, resumes and later sessions? | 4 984 206 |
| `campaign` | Are the parts around the execution right? | 358 113 |
| `jobs` | Are the work on a seed, the tools and the instrumentation right? | 271 784 |
| `options_kept` † | Are `-N` and `-c` in force when fuzzing starts? | |
| `start_time` † | Does `fuzzer_stats` tell when the fuzzer was started? | |

† The property is violated by the code; see [section 6](#6-what-was-found).

The property of a component is a conjunction of named parts, each with a comment
of its own: `CallsSound` (`TypeOK`, `PipeInStep`, `TraceQuiet`, `OneProgram`,
`FatalOnlyWithCause`), `CallsEnd` (`EveryCallReturns`, `ServerEnds`),
`RingSound`, `TargetsSound` (with `HavocDivPositive` and `AutoSurvives`),
`SingleSound` and `SingleFresh` (`BitmapsSaved`, `ExtrasFreedOnce`,
`FavoredFresh`, `DryCyclesOnly`), `MarksSound`, and the `…Right` properties of
section 2.

Why the bounds are enough to meet the interesting cases:

* **ForkServer**: four runs with two iterations per process. A process is
  reused once, ends its loop, and is replaced, and a run that was killed after
  it stopped itself is followed by two more; every message of one run can meet
  one of the next. Bound: `MaxRuns`.
* **GcLog**: a ring of two slots, three records per target, two targets, one
  cut, two indices and three values. The ring wraps, is overwritten while full,
  and is cut short before or after the wrap; with a window of one record the
  estimate tells the last record from the one before. That two cuts do no more
  damage each is in the proof. Bounds: `MaxLogged`, `MaxCuts`.
* **MultiTarget**: two targets, queues of up to two seeds, two cycles (a third
  only to end after Ctrl-C), one token; `shared_tokens` has three tokens, a table for
  two and one in use, so that tokens are appended, hit, evicted and left out of
  what is saved, and is symmetric in them; `one_target` has three seeds and four
  cycles, which it takes to have a dry cycle, splicing, and a dry cycle after
  that. Bounds: `MaxSeeds`, `MaxCycles`, `Tokens`.
* **Favored**: two bytes, three seeds and two costs: a seed can hold both bytes,
  lose one, lose both, win one back, and be shadowed by a set of others.
* **Campaign**, by component:
  * *Calibration*: a word of two bytes and one of one, two inputs of which one
    varies, two hits at most; two cycles, three with variable bytes.
  * *Dictionary*: four tokens, two of them spellings of one word, three places
    of which two are used; a file with a level and a malformed line.
  * *SeedQueue*: four entries and scores 0..2, so ties, a new head, an insertion
    before and behind `queue_cur` all occur; a shortcut every second entry.
  * *Timeout*: two targets with two seeds, averages that are scaled by 2 and by
    5, seeds of 1 to 2000 ms.
  * *Machine*: three processes, one without an affinity, on two cores; two fuzzers
    and three keys of which two are so near that logs and pointers overlap.
  * *Selection*: two targets, six selections (so both phases), nine windows.
  * *Setup*: eleven sets of options, five environments, five kinds of file.
    *Screen*: one or two targets, two periods; *Panel*: three updates.
* **OutDir**: two directories, one target below each, and the directory of a target
  given with `-o` itself; one input seed, one find, one crash; any number of sessions
  and kills, as the directories are finite.
* **Jobs**, by component:
  * *Stages*: lengths 1 to 5, three checksums, effector blocks of two bytes.
    *ByteOps*: all pairs of representative bytes, and words at the borders of
    the real limits (`ARITH_MAX` 35, the real tables of interesting values).
  * *Havoc*: 8-bit counters with scores that overflow them, and files of up to
    seven bytes, of which blocks and tokens of one to four bytes are made.
  * *Trim*: all seeds of up to seven bytes with every set of needed bytes.
  * *Tmin*: all files of up to four bytes over three symbols. *Analyze*: four
    files, eight parsers, one late run. *ToolRun*: two runs, three cores.
  * *Build*: four sets of flags, seven environments. *AsScan*: all files of up
    to four lines of six kinds, and up to three of ten. *Trampoline*: two object
    files, four cells, three steps, two runs. *Launch*: three options.
  * *LlvmPass*: two targets that share a function and a line, in every order and
    with files missing; a graph with a line twice, and one that is too long.
    *Dislocator*: two threads, two buffers, four lengths, 6-bit sizes.
    *QemuServer*: two runs of three blocks, room for one request.

Deadlock is checked where nothing may stop: `ForkServer` (with an explicit step
for the fuzzer that is over) and `GcLog`, where the fuzzer can always switch.
The others stop at `exit`, at the end of a job, or at their bounds.

Every property of a passing run has a mutant (in `PROJECT.json`) that makes TLC
find it violated.

## 4 Fairness

* **ForkServer**: the fork server is scheduled, an armed timer goes off and a
  handler that was entered returns (weak fairness). The flow of the fuzzer gets
  its turn although Ctrl-C may interrupt it again and again: strong fairness,
  because every interruption disables it for a while. *Nothing* is assumed of
  the program under test, which may hang for ever, and nobody has to press
  Ctrl-C. `EveryCallReturns` therefore rests on the timer alone, and
  `ServerEnds` on the end of file the server reads.
* **MultiTarget**: `main` is one thread that waits for nothing outside the
  model (`WF_vars(Main)`); a round of `fuzz_one` ends because every call of
  `run_target` returns, which `ForkServer` shows. Finds, tokens and Ctrl-C are
  never forced to happen.
* **Jobs**: havoc and trimming are steps of that same thread, so their next step
  is taken (`HavocPart`, `TrimPart`); a find may prolong havoc, but how often is
  for the code to bound, which `HavocReturns` shows. `afl-tmin` is one thread
  (`Minimize`). In `ToolRun` the tool's own step and its armed timer are fair,
  and nothing is assumed of the program: that is why `ToolEnds` speaks of runs
  with a timeout.

The other modules state no liveness property; what is eventual about them is
the scheduling of `main`.

## 5 The proofs

All theorems hold for every value of the constants that satisfies the named
`ASSUME`s (positive sizes, bounds that are naturals, input sets of the right
type). The bounds are constants like the others, so they limit the runs and not
the theorems. Where an assumption says more than that, it is given below. An
invariant `X` of a run is proved from an inductive one, named in parentheses; the
conjuncts of that one are explained in the module. With them every safety
property that a passing run checks is a theorem; liveness is not.

Four proofs need an induction over data, though the library's induction rules
cannot be used here (they take an operator as a parameter). Instead the
recursive function of the model is shown to *exist* for every length, by the
well-foundedness of the naturals: a least length without one would have a
predecessor with one, which extends. What it computes is shown the same way.
`SortQueueIs`, `LoadedFromIs`, `LocateDiffsFinds` and the sums of `Dislocator`
(`SumAdds`) are proved like this.

| Module | What it proves |
|---|---|
| `ForkServerProof` | `CallsSound`; `ForkServer` implements `ExecOracle` |
| `ProgramSideProof` | `RingSound`, `WritesToCurrent`; `GcLog` implements `RecentLog` until a kill; `ProgramSideRight` |
| `MultiTargetProof` | `TargetsSound`, `SingleSound`, `SingleFresh`; `MultiTarget` implements `Sessions` |
| `FavoredProof` | `MarksSound`, `CheapestHolds`, `FavoredCover` |
| `QueueProof` | `CalibrationRight`, `DictionaryRight`, `QueueRight` |
| `StagesProof` | `StagesRight`, `HavocRight`, `SkipsAreRepeats`, `TraceIsSteps` |
| `SessionProof` | `TimeoutRight`, `OptionsAgree`, `WorkSurvives`, `SelectionRight`, `CoresRight`, `SegmentsRight`, `ScreenRight` |
| `JobsProof` | `TrimKeepsSeed`, `TminRight`, `AnalyzeRight`, `RunsRight`, `VerdictSound`, `BuildSound`, `TrampolinesPlaced`, `LaunchAgrees` |

### ForkServerProof

*`CallsSound` and `Refinement`*, for any number of runs and iterations of the
persistent loop, in all three modes (`IInv`). What carries the proof is a table
of what can be in the two pipes at each place of the fuzzer (`PipeInv`): since a
message has no tag, its meaning rests on there being no other one. `ServerInv`
and `ProcInv` say what the server knows about its child, and that all earlier
processes were reaped; `StatusInv` that a status in the pipe, or read from it, is
that of the program of this very call. `KillInv` is about the second kill: until
a stop is asked for, a child that was killed and not yet collected was killed by
the timer of this call, or of the last one *and then the server is told so*
before it looks at the child (`prev_timed_out`). `FatalOnlyWithCause` needs
`GoneInv`: without a stop the server is gone only when its first request or its
fork failed. The refinement then goes place by place: only the step that fixes
the fate of the program and the return of the call are steps of the oracle.

### ProgramSideProof

*Type correctness, `WritesToCurrent`, `CountBounded`, `RecentIntact`* (types and
the last two are `RingSound`), for every ring size, set of targets and number of
kills. The idea of `RecentIntact`: the slot that `tail` names is the only one
that may be torn, whatever was killed, since only `Advance` moves `tail`; the
slots 1 to `MAX_LOG_NUM - 1` behind it are the last records. The proof needs that
the slot being written is none of these (arithmetic modulo the ring size), and
that a call that has come to the last step has written the whole record. That
argument also shows why the property stops one short of the ring: the oldest
slot is the one being overwritten.

*`Refinement`*: every step is one of `RecentLog`, or none, as long as no run was
killed inside `mdafl_gc_log` while it logged to the ring that is read; what was
killed in the rings of other targets does not matter. After such a kill it is
false (section 6). Its invariant `LogInv` adds `OldestIntact`: between two writes a
full ring holds the oldest record too.

*`ProgramSideRight`*, for every module, every pair of folders, all allocations and
all orders of processes. In the pass (`PassInv`) the three vectors stay in step
with the two folders (`FilesRead`), and each function with a file of its own has
been given exactly what the targets that select it want (`FunctionsDone`). In the
allocator (`HeapInv`) the counts of all threads together are what is in use, up
to a multiple of the size of a number (`Balanced`): the count of one thread may
be negative, since `free` counts in the thread that calls it. In the emulator
(`QemuInv`) whatever was asked for is known or still in the pipe, and the pipe is
empty unless the parent reads it. Assumed of the input of the pass: a folder has
one file of a name.

### FavoredProof

*`MarksSound` (`RefsRight`, `MiniKept`, `CountsRight` and types), `CheapestHolds`
and `FavoredCover`*, for every size of the bitmap and of the queue. None of them
is inductive: they speak of the time between the walks, or say too little in the
middle of one. The inductive invariant is

    IInv == TypeInv /\ RefsRight /\ MiniKept /\ Cheapest /\ Cover /\ Pending /\ Steady

* `Cheapest` extends `CheapestHolds` to the middle of scoring: bytes the walk
  has not reached yet are excepted for the seed being scored.
* `Cover` extends `FavoredCover` to the middle of culling: every byte that
  left `temp_v` is covered by a favored seed, and so is every byte before `i`.
* `Pending` (`pending_favored` is at least what it counts) is what keeps the
  unsigned counter from wrapping, even for targets with variable behaviour.
* `Steady` says that with steady traces a favored seed leaves none of its
  bytes in `temp_v`: this is why no seed is counted twice, and where the proviso
  of `CountsRight` comes from.

The main lemmas are on the exchange of a holder: what happens to the
cardinality of the sets of held bytes when one byte passes from one seed to
another, or to the same seed.

### MultiTargetProof

*`TargetsSound` (types, `HavocDivPositive`, `AutoSurvives`; given two targets or
more), and `Spec => Refinement`*: for any number of targets the engine implements
`Sessions`. The inductive invariant is

    IInv == TypeOK /\ SavedInv /\ LiveInv /\ DivInv /\ LoopInv /\ AutoInv

* `SavedInv`: a context in the arrays *fits* its queue. If its `queue_cur` is
  NULL, nothing is left to do or no cycle has begun; if it names a seed still to
  do, there is one. This is what makes `Enter` start a cycle exactly when
  `Sessions` does. The context of the target being fuzzed is excepted, because
  the arrays are stale then: `LiveInv` says the same of the globals.
* `DivInv`: `havoc_div` is 0 for the target that was read last until the next
  target is read, so the invariant has a case for the second round of
  `read_testcases`. It is the reason why one target is not enough.
* `AutoInv`: while `auto_changed` is clear, some target's files are exactly the tokens
  in use. A hit may take a token out of use and put another in, in which case the
  flag is set; an append or an eviction behind those in use sets it too, to no effect.
* `LoopInv`: the loop index is 0 whenever main is not in a loop over the
  targets, and counts the releases of the dictionary in the last one.

Then every step is a step of `Sessions` of one target, or changes no session:
`ReadTarget` imports, `Enter` takes a seed up (or, when `first_unhandled` sent
the walk to a finished seed, changes nothing), `Find` finds.

*`SingleSound` and the action property `SingleFresh`*, under `NTargets = 1`: with
more targets they are false (section 6). `SingleInv` adds to `IInv` that the flags
tell the truth about the one heap (`FlagsTell`: a cleared `score_changed` means
that the marks are those of the present table), that a cleared `bitmap_changed`
means that the file is the map (`FilesTell`), and that between rounds the arrays
are the globals (`LiveStored`).

### QueueProof

*`CalibrationRight`*, for every map, trace and order of calls (`CalInv`). The
totals are cardinalities of sets of seeds (`Totals`), which stay right because a
seed at work is not in them (`Accounts`). That a byte is variable only when the
seed's own runs differ rests on `Compared`: the trace that a calibration compares
with is one of this seed, whether it was just run or is left from the find.

*`DictionaryRight`*, for any number of tokens (`DictInv`). The model's
`sort_a_extras` is any permutation that puts the entries in order, as `qsort` is
for equal keys, so a lemma says what every permutation keeps (`PermKeeps`). A
token that is hit again is counted and sorted again, a new one replaces one of
the second half (`AddedIs`). What a resumed session loads is found by induction
over the files (`LoadedFromIs`): a table with the saved tokens and no others.

*`QueueRight`*, for any queue that the shortcuts reach, that is,
`MaxEntries <= Stride * Slots`, a hypothesis of the theorem and not of the model: in
the code 1024 shortcuts, 100 entries apart, reach 102 400 entries, and for an
index beyond them `SpliceTarget` computes the rest of its way by another formula,
`idx - div * Slots` in the model, which does not lead to the entry (`QueueInv`). The
list holds each entry once, each shortcut leads to its place (`QueueTypes`), and
the order of the scores is kept until one is changed in place (`InOrder`). The walk
is right since every seed in front of the one to take up next was handled
(`DoneBefore`, `ItsTurn`). `SortQueueIs` says of `sort_queue` that it returns the
same entries in descending order, for every list.

### StagesProof

*`StagesRight`*, for seeds of any length, any number of tokens, any checksums
(`StagesInv`). `Touched` bounds what a step may have changed by what the end of
the position puts back; for the stages that overwrite with tokens this needs the
tokens to be sorted by length, as `load_extras` and `maybe_add_auto` leave them,
since what is put back is as long as the last one written. `Planned`
is the number of runs still to come. `Collecting` describes the collection of
tokens in `flip1` by the maximal runs of one checksum that ended so far
(`Ended`) and the one under way (`Trailing`). The assumptions are the sorted
token lengths and `MIN_AUTO_EXTRA >= 2` (3 in `config.h`): `flip1` never looks at a
run that is the last byte alone.

*`HavocRight`*, for all scores and finds and every stack of tweaks. The
length of a stage that was not lifted to `HAVOC_MIN` is at most what score and
cycles give, and a find doubles both together (`HavocInv`). Every index of a tweak is inside
the buffer that it was allocated with (`OpsInv`); a joined input differs from its
seed because the place of the splice is before the last difference
(`LocateDiffsFinds`, for buffers of every length and content).

*`SkipsAreRepeats`*, for every byte and word, all tables of interesting values and
every `ARITH_MAX` up to 255. No state is needed but that `word` is one or two
bytes; the proof is about the operators. What `could_be_bitflip` accepts is a run
of bits that the walk through the file goes over, unless it lies over the border
of the two bytes (`FlipIsWalked`); what `could_be_arith` accepts is a step
(`NearIsStep`); and a step of the word that the 16-bit stage leaves out carries
nothing into the other byte, so it is a step of one byte (`StepInByte`).

*`TraceIsSteps`*, for every map and any number of steps, object files and forks
(`TrampolineInv`): `prev_loc` of an object file is its last step, halved
(`Remembered`), whatever was logged before the map was there, and a cell counts
the steps that fall into it (`CountsSteps`). A location is the set of its bits, so
that `xor` is the symmetric difference and the shift moves each bit down.

### SessionProof

*`TimeoutRight`*, for any number of targets, seeds and times (`TimeInv`). Each seed
of a dry run is to come, usable, or skipped, and not all are skipped
(`DryRunCounts`). That all kept seeds fit (`KeptFit`) needs that the one derived
timeout is not below the slowest seed it was derived from, rounded and capped, and
that from then on it never changes: the seeds of later targets were kept under it.

*`OptionsAgree`*, for every set of options and environment (`SetupInv`): `ReadSoFar`
says what the options read so far have made of the variables, whatever their
order, and `Checked` what the checks passed so far have excluded.

*`WorkSurvives`*, for any number of targets, seeds, crashes and directories, and
any number of sessions killed after any file operation (`DirInv`). Nothing is
found in a directory before its `fuzzer_stats` is opened (`StatsFirst`), and one
that has the file is either refused, torn or whole, or resumed in place; so what
a session deletes holds no find (`DeletesNothing`). A resume in place moves the
queue aside once, since it never gets as far as making a new one (`OneQueue`,
`TargetDirs`). What was read of another session is what is there, and what is
pivoted is what was read (`ReadAll`), the two directories being different ones
since the target's was just made.

*`SelectionRight`*, for any number of targets, of selections and of records, whose
estimates are kept exact in sixtieths (`SelectionInv`). `Score` bounds every score
far from the number that stands for NaN, through all of the estimate, the
logarithmic term and `nomalize`; the proof then rests on two facts: a target
selected once has the term 0 and is selected again, and the current target is
left only with a score that is a number. Of the logarithms (`Log7200`) it
is assumed that `log(n) <= n - 1`.

*`CoresRight`*, for any number of processes and cores. A scan knows only cores
that were taken since it began (`Witnessed`): this gives the refusals. That a core
is not taken twice needs that a scan which is alone has seen the core of
everyone it has read about (`SeenWhenAlone`): only the end of a scan binds, so
nobody it has read about has moved. The first free core exists by the
well-foundedness of the naturals.

*`SegmentsRight`*, for any number of fuzzers, logs and keys. While no two fuzzers
were ever alive together, a live one has all its logs in the right size and its
pointer names the log of its target (`InOrder`), whatever the segments were
before: the logs are emptied, and the pointer is written *after* its key was
found to be none of the logs.

*`ScreenRight`*, for all rates, clocks, numbers of targets and sizes of the screen
(`ScreenInv`, `PanelInv`). With one target, what was run since the last update is at
most the fastest rate times what has passed since (`SpeedBounds`), hence an
average of such speeds stays below it; the file is as old as `last_stats_ms` says
(`FileIsRecent`). With several targets only `FilesBehind` is left, and it is all that
is claimed.

### JobsProof

* *`TrimKeepsSeed`*, for seeds of any length. The set that a trace depends on
  stays within the seed in memory, as a block is dropped only if the trace is the
  same, and therefore within the file: the old one until it is unlinked, and the
  new one once all of it is written (`Faithful`).
* *`TminRight`*, for files of any length below `TMIN_MAX_FILE` and the four kinds
  of program of the model, with any pattern (`TminInv`). What is kept behaves as
  the original (`StillBehaves`). That the result cannot lose a byte needs what a
  pass has already refused at the *present* file (`PassedOver`, `PassDone`), and
  that the block skipped because it equals the one before was refused with it:
  without either block the file is the same (`EqualBlocks`).
* *`AnalyzeRight`*, for files of any length and any fields that do not overlap
  (`AnalyzeInv`). The byte under way holds what its `change`-th try leaves
  (`InPlace`, from which `OneByteAtATime` follows); the checksums in hand are those
  of this byte and of the one before (`Summed`), so that the bit noted of a byte
  flips where a field ends (`Noted`), and no run that is printed crosses such a
  place (`Whole`). Two bytes may lie in fields that are not neighbours: one of the
  two ends between them.
* *`RunsRight`*, for any number of runs and signals at any step (`ToolInv`): where
  the tool is, what is known of the child and whether the timer can still fire.
* *`VerdictSound`*, for any number of cores (`CpuInv`): the counters are positive
  exactly if a process of that outcome was reaped.
* *`BuildSound`*, for all flags and environments (`BuildInv`): what each program
  of the chain has put into the environment of the next (`Environment`).
* *`TrampolinesPlaced`*, for assembly files of any length (`ScanInv`): each flag
  equals a question about the text read so far ("which of `.text` and `.data` came
  last?", `Modes`), and a pending label is one that nothing has served (`Labels`).
* *`LaunchAgrees`*, for argument lists and search paths of any length and options in
  any order (`LaunchInv`).

### What is only model-checked

Liveness: `CallsEnd`, `StopEnds`, `SeedWorkEnds`, `EveryToolEnds`, which rest on fairness
and `ENABLED`. The prover has no rules for these, and the runs decide them on
their instances.

## 6 What was found

Four claims of the sources that the code does not meet, each with a run:

| Run | Claim | What happens |
|---|---|---|
| `stop_orphan` | "we kill the forkserver and the current runner. If we stopped manually, this is done by the signal handler" (9294) | From the request to the arrival of the PID, `child_pid` is that of an earlier run, or 0. Ctrl-C then kills the fork server only, and the child it has just forked runs on with nobody to stop it. |
| `multi_havoc` | "havoc_div = 1" (211) | With one target, the 0 loaded by `switch_target` before `read_testcases` sets the array is written back; the division at 6543 follows unless the target is slow enough for `show_init_stats` to raise it. |
| `options_kept` | "Do not perform DFG-based seed scheduling" (9042) | `init_parameter` zeroes `all_no_dfg_schedule` and `all_t_x` after the options were parsed, and the first `switch_target` loads the zeros. |
| `start_time` | "unix time indicating the start time of afl-fuzz" (`docs/status_screen.txt:383`) | `start_time` is set in the globals before the first `switch_target` of the dry runs replaces it with 0; rates and times since the start are computed from 0. |

Seen with the same models, and stated there as properties without a run of
their own. Each was checked once with TLC and is violated:

| Property | What happens |
|---|---|
| `CountIsLogNumber` (GcLog) | A run killed after `count++` and before the advance of `tail` leaves `count` one too high for good ("current log number", `shm-data.h:22`). `CountBounded` shows that there is no other damage. |
| `FavoredFresh`, `BitmapsSaved`, `DryCyclesOnly` with two targets | `score_changed`, `bitmap_changed` and `prev_queued` exist once: culling, saving or ending a cycle of one target decides for the others. |
| `ExtrasFreedOnce` with two targets | `cleanup_queue` destroys the one dictionary once per target. |
| `SpliceFinds` (SeedQueue) | Beyond the last shortcut (entry 102 400 in the code) the remaining distance is `idx - idx_div * 1024`. |
| `HavocCapped` (Havoc) | A stage that was lifted to `HAVOC_MIN` can be doubled past the cap; without lifting the cap holds (`ScaledHavocCapped`). |
| `ProbabilityAtMostOne` (Selection) | An "or" of comparisons adds their probabilities, which exceed 1; `record.md:5,9` calls that solved. |
| `SegmentsRemoved` (Machine) | `init_parameter` has detached what `remove_shm` detaches; `shmdt` fails and `exit(0)` leaves all segments behind. Two fuzzers at once with near keys (`rand() % 2901`) write to each other's logs. |
| `ExitWhenAllDone` (Screen) | `AFL_EXIT_WHEN_DONE` looks at the current target only: with two targets one that is done ends the other. |
| `Resumable` (OutDir) | "Any existing output directory can be also used to resume aborted jobs" with `-i-` (`AFL_README.md:243`). The old queue is looked for, and then every target's directory must be made anew (7616-7617): in a directory with finds it exists, and the fuzzer ends. |
| `AutoTimeoutAccepts` (Timeout) with two targets | A slow seed: "relax the -t option - or to delete it altogether and allow the fuzzer to auto-calibrate" (3172-3174). Without `-t`, the timeout derived from the first target's seeds sets `timeout_given` (4851), and a seed of the next target that is slower, but far from `EXEC_TIMEOUT`, ends the fuzzer with this advice. |
| `IdleMeasured` (ToolRun) | A measuring process that was killed has `WEXITSTATUS` 0 and counts as an idle core. |
| `OwnRows` (LlvmPass) | The pass loads `__target_map_ptr` as a pointer to pointers, so that a target and a node each move a store by eight bytes (`CreateGEP`, 374-375); `afl-llvm-rt.o.c:67` and `compute_proximity_score` have a row of `TRGT_MAP_SIZE` cells per target. Node 1 of the first target and node 0 of the second share a cell, in the first target's row. (A build of LLVM with assertions would stop at the type of the store.) |
| `RefusedOnlyWhenFull` (Dislocator) with two threads | `total_mem` is per thread and unsigned: a thread that frees what another one allocated counts below zero and is refused every allocation. |
| `CountsRight` (Favored) without its proviso | A target with variable behaviour can have a seed counted twice. |

Not stated as a property: the statistics of the last seed are lost at a stop,
since the `break` skips `save_target` (9279); and at start-up the timer can go
off after the hello and before it is disarmed, so that the first request fails
(the exception `child_pid = -1` in `FatalOnlyWithCause`).

## 7 What is not modelled

* **Numerical code**: the kernel sum of the estimator (`kde.cpp`), the averages
  over doubles and the formatting of numbers. Their inputs and the comparisons
  made with the results are modelled. That `calculate_score` compares a seed
  with averages over all targets is therefore not told apart.
* **LLVM's instructions**: the pass builds them through LLVM's library; what
  they do is modelled where they run (`GcLog`, `Trampoline`), and which are built
  in `LlvmPass`.
* **Synchronisation** (`-M`, `-S`): not supported by this fuzzer, as the comment at
  7581 says. `fix_up_sync` changes `out_dir` but not `root_out_dir` (7967-7970,
  8887-8888), so `pivot_all_inputs` (8220-8226) links the seeds into directories that
  nobody made, and the fuzzer ends before `sync_fuzzers` could be called. Only
  the options are modelled, in `Setup`.
* **Output directory**: the lock on it (`flock`), plot files, the bitmap of `-B`,
  `find_start_position`, and `nuke_resume_dir`, which no resume reaches.
* **Failures of the system** that end a program at once: `fork` and `waitpid` in
  `afl-as` (`afl-as.c:548-550`), the `exit` codes of QEMU's fork server.
* **Resource limits of the multi-target arrays**: the number of `-F` options is
  not compared with `TRGT_SIZE` and `SHARE_MEMORIES_NUM`; the models take it to
  be within them.
* **`libtokencap`** compares strings and writes those it finds in read-only
  memory to a file; **`alloc-inl.h`** is allocation with assertions. Of **QEMU
  mode** only the fork server is modelled, not the emulator's set-up of shared
  memory nor its count of a step; the emulator is not in the repository. A call
  of `Dislocator` is one step, and damage to its canary is left out.
* **`experimental/multi_target`** and **`DAFL-afl-fuzz.c`** are older states of the
  modelled code, which the Makefile does not build.
* **Scripts, benchmarks, dictionaries**: shell and data.

## 8 The plan

The modules were written in the order of importance: execution, log and engine
first, since a wrong fault code or a lost target spoils everything built on
them; then what decides about seeds; then files, other fuzzers and tools.

What would be worth adding:

1. `OutDir` as an implementation of an atomic store of finds.
2. The composition of `Calibration` with `Favored` and `SeedQueue`, which have
   the same interface (a trace, a cost, a score), on instances small enough for
   TLC.
3. `SkipsAreRepeats` for words of four bytes, whose arithmetic is beyond TLC's
   integers but not beyond the proof.
4. `libtokencap` and the set-up of QEMU mode's shared memory.
