------------------------------- MODULE ToolRun --------------------------------
(***************************************************************************)
(* How afl-showmap, afl-tmin and afl-analyze run the program: no fork      *)
(* server, a timer instead of select, and two signal handlers that may run *)
(* between any two steps.  The tools share the code of a run; what they do *)
(* with its result differs.                                                *)
(***************************************************************************)
EXTENDS Integers, FiniteSets

CONSTANTS ToolRuns,        \* runs that afl-tmin and afl-analyze make
          ToolTimeouts     \* values of "a timeout is set": afl-showmap has none by default

ASSUME ToolAssumption == ToolRuns \in Nat \ {0} /\ ToolTimeouts \subseteq BOOLEAN

VARIABLES
  tool, timeoutSet, cminCrashes,   \* AFL_CMIN_CRASHES_ONLY
  toolPc,        \* next step of the tool
  pidKnown,      \* child_pid > 0
  runChild,      \* "none", "running", "ended", "reaped"
  runEnd,        \* "exit", "nonzero", "signal", "killed" (by the tool), "noexec"
  runTrace,      \* "clear", "partial", "full", "sig" (EXEC_FAIL_SIG)
  runTimer,      \* setitimer is armed
  runTimedOut, runCrashed, stopSoon,
  segment, tempFile, \* the segment and prog_in exist
  runsDone,
  result,        \* of the last run: "none", "hang", "fault", "ok"
  exitCode,
  written        \* afl-showmap's file: "none", "empty", "tuples"

toolVars == <<tool, timeoutSet, cminCrashes, toolPc, pidKnown, runChild, runEnd, runTrace, runTimer,
              runTimedOut, runCrashed, stopSoon, segment, tempFile, runsDone, result, exitCode, written>>

Invoked == <<tool, timeoutSet, cminCrashes>>
Output == <<result, exitCode, written, runsDone>>

ToolInit ==
  /\ tool \in {"showmap", "tmin", "analyze"} /\ cminCrashes \in BOOLEAN
  /\ timeoutSet \in ToolTimeouts /\ (tool # "showmap" => timeoutSet)
  /\ toolPc = "setup" /\ pidKnown = FALSE /\ runChild = "none" /\ runEnd = "exit"
  /\ runTrace = "clear" /\ runTimer = FALSE
  /\ runTimedOut = FALSE /\ runCrashed = FALSE /\ stopSoon = FALSE
  /\ segment = FALSE /\ tempFile = FALSE /\ runsDone = 0
  /\ result = "none" /\ exitCode = 0 /\ written = "none"

(* setup_shm, before the signal handlers are installed. *)
SetUpSegment ==
  /\ toolPc = "setup" /\ toolPc' = "input" /\ segment' = TRUE
  /\ UNCHANGED <<Invoked, pidKnown, runChild, runEnd, runTrace, runTimer, runTimedOut, runCrashed,
                 stopSoon, tempFile, Output>>

(* The trace is cleared and the file written; afl-showmap does neither.    *)
WriteInput ==
  /\ toolPc = "input" /\ toolPc' = "fork"
  /\ runTrace' = "clear" /\ tempFile' = (tool # "showmap")
  /\ UNCHANGED <<Invoked, pidKnown, runChild, runEnd, runTimer, runTimedOut, runCrashed, stopSoon,
                 segment, Output>>

ForkRun ==
  /\ toolPc = "fork" /\ toolPc' = "pid" /\ runChild' = "running"
  /\ UNCHANGED <<Invoked, pidKnown, runEnd, runTrace, runTimer, runTimedOut, runCrashed, stopSoon,
                 segment, tempFile, Output>>

(* fork has returned: a handler that runs before child_pid is stored finds *)
(* no process to kill.                                                     *)
StorePid ==
  /\ toolPc = "pid" /\ toolPc' = "arm" /\ pidKnown' = TRUE
  /\ UNCHANGED <<Invoked, runChild, runEnd, runTrace, runTimer, runTimedOut, runCrashed, stopSoon,
                 segment, tempFile, Output>>

ArmTimer ==
  /\ toolPc = "arm" /\ toolPc' = "wait"
  /\ runTimer' = timeoutSet
  /\ runTimedOut' = (runTimedOut /\ ~timeoutSet)
  /\ UNCHANGED <<Invoked, pidKnown, runChild, runEnd, runTrace, runCrashed, stopSoon, segment, tempFile, Output>>

WaitRun ==
  /\ toolPc = "wait" /\ runChild = "ended"
  /\ toolPc' = "reaped" /\ runChild' = "reaped"
  /\ UNCHANGED <<Invoked, pidKnown, runEnd, runTrace, runTimer, runTimedOut, runCrashed, stopSoon,
                 segment, tempFile, Output>>

ClearPid ==
  /\ toolPc = "reaped" /\ toolPc' = "disarm" /\ pidKnown' = FALSE
  /\ UNCHANGED <<Invoked, runChild, runEnd, runTrace, runTimer, runTimedOut, runCrashed, stopSoon,
                 segment, tempFile, Output>>

DisarmTimer ==
  /\ toolPc = "disarm" /\ toolPc' = "judge" /\ runTimer' = FALSE
  /\ UNCHANGED <<Invoked, pidKnown, runChild, runEnd, runTrace, runTimedOut, runCrashed, stopSoon,
                 segment, tempFile, Output>>

(* exit runs remove_shm, which removes the segment and the file. *)
LeaveWith(code) ==
  /\ toolPc' = "exited" /\ exitCode' = code /\ segment' = FALSE /\ tempFile' = FALSE

\* Mutant: an exit code other than 0 counts as a crash.
Died_NonZero == runEnd \in {"signal", "killed", "nonzero"}

Died == runEnd \in {"signal", "killed"}

(* afl-showmap: the flags, the results and the exit code.  In afl-cmin     *)
(* mode the list stops at once unless the run is of the kind wanted.       *)
JudgeShowmap ==
  /\ toolPc = "judge" /\ tool = "showmap"
  /\ IF runTrace = "sig" THEN LeaveWith(1) /\ UNCHANGED <<runCrashed, written, result>>
     ELSE /\ runCrashed' = (runCrashed \/ (~runTimedOut /\ ~stopSoon /\ Died))
          /\ result' = CASE runTimedOut -> "hang" [] ~runTimedOut /\ runCrashed' -> "fault" [] OTHER -> "ok"
          /\ written' = IF runTrace = "clear" \/ runTimedOut \/ runCrashed' # cminCrashes
                        THEN "empty" ELSE "tuples"
          /\ LeaveWith((IF runCrashed' THEN 2 ELSE 0) + (IF runTimedOut THEN 1 ELSE 0))
  /\ runsDone' = runsDone + 1
  /\ UNCHANGED <<Invoked, pidKnown, runChild, runEnd, runTrace, runTimer, runTimedOut, stopSoon>>

(* afl-tmin and afl-analyze: Ctrl-C first, then late runs, then the trace. *)
(* A late dry run ends the tool.                                           *)
JudgeRun ==
  /\ toolPc = "judge" /\ tool # "showmap"
  /\ runsDone' = runsDone + 1
  /\ IF runTrace = "sig" \/ stopSoon THEN LeaveWith(1) /\ result' = "none"
     ELSE /\ result' = CASE runTimedOut -> "hang"
                         [] ~runTimedOut /\ Died -> "fault"
                         [] OTHER -> "ok"
          /\ IF runsDone = 0 /\ runTimedOut THEN LeaveWith(1)
             ELSE IF runsDone' = ToolRuns THEN LeaveWith(0)
             ELSE toolPc' = "input" /\ UNCHANGED <<exitCode, segment, tempFile>>
  /\ runChild' = "none"
  /\ UNCHANGED <<Invoked, pidKnown, runEnd, runTrace, runTimer, runTimedOut, runCrashed, stopSoon, written>>

ToolStep ==
  \/ SetUpSegment \/ WriteInput \/ ForkRun \/ StorePid \/ ArmTimer \/ WaitRun \/ ClearPid
  \/ DisarmTimer \/ JudgeShowmap \/ JudgeRun

-----------------------------------------------------------------------------
ToolSame == <<Invoked, toolPc, pidKnown, Output, runTimer, runCrashed, segment>>

(* The program: leaves a part of its trace, and ends - or hangs.  When     *)
(* execv fails the forked copy of the tool exits, and removes the segment  *)
(* and the file on its way out.                                            *)
ProgramRuns ==
  /\ runChild = "running" /\ runTrace = "clear" /\ runTrace' = "partial"
  /\ UNCHANGED <<ToolSame, runChild, runEnd, runTimedOut, stopSoon, tempFile>>

ProgramEnds(how) ==
  /\ runChild = "running" /\ runTrace = "partial"
  /\ runChild' = "ended" /\ runEnd' = how /\ runTrace' = "full"
  /\ UNCHANGED <<ToolSame, runTimedOut, stopSoon, tempFile>>

ExecFails ==
  /\ runChild = "running" /\ runTrace = "clear" /\ runsDone = 0
  /\ runChild' = "ended" /\ runEnd' = "noexec" /\ runTrace' = "sig"
  /\ segment' = FALSE /\ tempFile' = FALSE
  /\ UNCHANGED <<Invoked, toolPc, pidKnown, Output, runTimer, runCrashed, runTimedOut, stopSoon>>

KillRun ==
  IF pidKnown /\ runChild = "running" THEN runChild' = "ended" /\ runEnd' = "killed"
                                      ELSE UNCHANGED <<runChild, runEnd>>

\* Mutant: the late run is marked but not killed.
handle_timeout_NoKill ==
  /\ runTimer /\ toolPc # "exited"
  /\ runTimedOut' = TRUE /\ runTimer' = FALSE /\ UNCHANGED <<runChild, runEnd>>
  /\ UNCHANGED <<Invoked, toolPc, pidKnown, Output, runCrashed, segment, runTrace, stopSoon, tempFile>>

(* SIGALRM, from when the timer is set to when it is turned off. *)
handle_timeout ==
  /\ runTimer /\ toolPc # "exited"
  /\ runTimedOut' = TRUE /\ runTimer' = FALSE /\ KillRun
  /\ UNCHANGED <<Invoked, toolPc, pidKnown, Output, runCrashed, segment, runTrace, stopSoon, tempFile>>

(* SIGINT and SIGTERM, from when the handlers are installed. *)
handle_stop_sig ==
  /\ toolPc \notin {"setup", "exited"} /\ ~stopSoon
  /\ stopSoon' = TRUE /\ KillRun
  /\ UNCHANGED <<ToolSame, runTrace, runTimedOut, tempFile>>

ProgramStep ==
  ProgramRuns \/ (\E how \in {"exit", "nonzero", "signal"} : ProgramEnds(how)) \/ ExecFails

ToolNext == ToolStep \/ ProgramStep \/ handle_timeout \/ handle_stop_sig

(* The tool goes on, and a timer that is set goes off; the program may     *)
(* hang, and nobody need press Ctrl-C.                                     *)
ToolSpec ==
  /\ ToolInit /\ [][ToolNext]_toolVars
  /\ WF_toolVars(ToolStep) /\ WF_toolVars(handle_timeout)

-----------------------------------------------------------------------------
(* Whatever the order of the signals and the steps: a result that is used  *)
(* comes from a run that ended by itself, so its trace is complete; what   *)
(* afl-showmap calls a crash was one, and not its own SIGKILL; a list for  *)
(* afl-cmin has tuples only when the run is of the kind asked for.         *)
ResultsAreReal ==
  /\ toolPc \in {"input", "exited"} /\ result \in {"ok", "fault"} /\ ~stopSoon => runTrace = "full" /\ runEnd # "killed"
  /\ toolPc \in {"input", "exited"} /\ result = "fault" => runEnd = "signal"
  /\ written = "tuples" => ~runTimedOut /\ runCrashed = cminCrashes
  /\ tool = "showmap" /\ toolPc = "exited" /\ exitCode = 0 /\ ~stopSoon => runTrace = "full" /\ runEnd # "killed"

(* The tool leaves through exit, and then neither the segment nor the file *)
(* of the program stays behind - nor does a process.                       *)
NothingLeft ==
  toolPc = "exited" => ~segment /\ ~tempFile /\ runChild # "running"

(* With a timeout set the tool comes to an end even if the program hangs.  *)
ToolEnds == timeoutSet => <>(toolPc = "exited")

(* The runs of the tools are right: only results of complete runs count, and
   nothing is left behind (src/afl-tmin.c:261-365, src/afl-showmap.c:250-345). *)
RunsRight == ResultsAreReal /\ NothingLeft

-----------------------------------------------------------------------------
(***************************************************************************)
(* afl-gotcpu (src/afl-gotcpu.c:59-255): a process per core measures how   *)
(* often it is preempted, and the parent counts what the exit codes say.   *)
(***************************************************************************)
CONSTANT MeasuredCores

ASSUME GotCpuAssumption == MeasuredCores \in Nat \ {0}

VARIABLES
  measuring,                    \* [core -> "off", "busy", or how its process came out]
  idle_cpus, maybe_cpus, waited, verdict

gotcpuVars == <<measuring, idle_cpus, maybe_cpus, waited, verdict>>
CpuIndex == 0 .. MeasuredCores - 1
Outcomes == {"available", "caution", "overbooked", "killed", "failed"}

GotCpuInit ==
  /\ measuring = [c \in CpuIndex |-> "off"]
  /\ idle_cpus = 0 /\ maybe_cpus = 0 /\ waited = {} /\ verdict = "none"

ForkMeasurer(c) ==
  /\ measuring[c] = "off" /\ \A d \in CpuIndex : d < c => measuring[d] # "off"
  /\ measuring' = [measuring EXCEPT ![c] = "busy"]
  /\ UNCHANGED <<idle_cpus, maybe_cpus, waited, verdict>>

(* The percentage is real time over CPU time.  Without a millisecond of    *)
(* CPU time the division kills the process; sched_setaffinity may fail.    *)
measure_preemption(c, v) ==
  /\ measuring[c] = "busy" /\ measuring' = [measuring EXCEPT ![c] = v]
  /\ UNCHANGED <<idle_cpus, maybe_cpus, waited, verdict>>

\* Mutant: a failed measurement counts as one that passed.
WEXITSTATUS_Lenient(v) == CASE v = "caution" -> 1 [] v = "overbooked" -> 2 [] OTHER -> 0

(* A process that a signal killed has exit status 0, PFATAL has 1. *)
WEXITSTATUS(v) ==
  CASE v \in {"caution", "failed"} -> 1 [] v = "overbooked" -> 2 [] OTHER -> 0

(* waitpid(-1) reaps them in any order. *)
WaitMeasurer(c) ==
  /\ \A d \in CpuIndex : measuring[d] # "off"
  /\ measuring[c] \in Outcomes /\ c \notin waited
  /\ waited' = waited \cup {c}
  /\ idle_cpus' = idle_cpus + (IF WEXITSTATUS(measuring[c]) = 0 THEN 1 ELSE 0)
  /\ maybe_cpus' = maybe_cpus + (IF WEXITSTATUS(measuring[c]) <= 1 THEN 1 ELSE 0)
  /\ UNCHANGED <<measuring, verdict>>

SayVerdict ==
  /\ waited = CpuIndex /\ verdict = "none"
  /\ verdict' = IF idle_cpus > 0 THEN "PASS" ELSE IF maybe_cpus > 0 THEN "CAUTION" ELSE "FAIL"
  /\ UNCHANGED <<measuring, idle_cpus, maybe_cpus, waited>>

GotCpuNext ==
  \/ \E c \in CpuIndex : ForkMeasurer(c) \/ WaitMeasurer(c) \/ \E v \in Outcomes : measure_preemption(c, v)
  \/ SayVerdict
GotCpuSpec == GotCpuInit /\ [][GotCpuNext]_gotcpuVars

-----------------------------------------------------------------------------
(* FAIL is said only when every core was measured to be overbooked, and    *)
(* PASS only when some core was measured to be available or its process    *)
(* was killed: reaping order and failed measurements never turn an         *)
(* overbooked machine into a free one by themselves.                       *)
VerdictSound ==
  /\ verdict = "FAIL" => \A c \in CpuIndex : measuring[c] = "overbooked"
  /\ verdict = "PASS" => \E c \in CpuIndex : measuring[c] \in {"available", "killed"}
  /\ verdict = "CAUTION" => \E c \in CpuIndex : measuring[c] \in {"caution", "failed"}

(* A core counts as idle only when it was measured to be. *)
IdleMeasured ==
  idle_cpus <= Cardinality({c \in waited : measuring[c] = "available"})
===============================================================================
