----------------------------- MODULE ForkServer -----------------------------
(***************************************************************************)
(* One execution of the target: run_target(), init_forkserver() and the    *)
(* signal handlers of afl-fuzz.c, the fork server and the persistent loop  *)
(* of llvm_mode/afl-llvm-rt.o.c, and the processes they create.            *)
(*                                                                         *)
(* Three kinds of process interleave: the fuzzer (whose signal handlers    *)
(* run between any two of its steps), the fork server, and the children.   *)
(* They share two pipes, the signal SIGKILL and the shared-memory trace.   *)
(***************************************************************************)
EXTENDS Integers, Sequences

CONSTANTS
  MaxRuns,        \* bound on the calls of run_target
  LoopCount,      \* max_cnt of __AFL_LOOP(max_cnt)
  Modes           \* the ways to run a target that are considered

ASSUME ForkServerAssumption ==
  /\ MaxRuns \in Nat \ {0}
  /\ LoopCount \in Nat \ {0}
  /\ Modes \subseteq {"persistent", "plain", "direct"}

VARIABLES
  mode,             \* how the target is run, fixed at the start
  \* afl-fuzz
  fz,               \* where the fuzzer is
  child_pid,        \* -1: never had one, 0: none, > 0: the program under test
  child_timed_out,
  prev_timed_out,
  stop_soon,        \* 0, 1 (by a signal) or 2 (by the fuzzer itself)
  timer,            \* is ITIMER_REAL armed?
  handler,          \* is handle_stop_sig between its two kills?
  status,           \* the wait status of this run
  run,              \* calls of run_target so far
  verdict,          \* what the last call returned
  \* the fork server
  fs,               \* where the fork server is
  fs_child,         \* its child_pid
  child_stopped,
  was_killed,
  \* the children
  proc,             \* state of every process
  cycle_cnt,        \* iterations of __AFL_LOOP left
  forks,            \* processes created so far
  \* between the processes
  ctl,              \* pipe fuzzer -> fork server
  st,               \* pipe fork server -> fuzzer
  \* history: what waitpid said of the program in this run
  fate

fuzzVars  == <<fz, child_pid, child_timed_out, prev_timed_out, stop_soon,
               timer, handler, status, run, verdict>>
fsVars    == <<fs, fs_child, child_stopped, was_killed>>
childVars == <<proc, cycle_cnt, forks>>
pipes     == <<ctl, st>>
vars      == <<mode, fuzzVars, fsVars, childVars, pipes, fate>>

Persistent    == mode = "persistent"  \* is_persistent: __AFL_LOOP is used
UseForkserver == mode # "direct"      \* not: dumb_mode == 1 || no_forkserver

Pids == 1 .. MaxRuns

\* Process states. A zombie is named by what waitpid() will say of it; "stop"
\* is the SIGSTOP of the persistent loop.
Live    == {"run", "stop"}
Zombie  == {"exit", "signal", "kill"}

\* The messages of the status pipe; all are four bytes, told apart only by
\* the order in which they are sent.
Msg(k, p, s) == [kind |-> k, pid |-> p, status |-> s]

\* The fork server process is alive and holds its ends of the pipes.
ServerUp == fs \notin {"none", "killed", "nofork", "lost"}

Init ==
  /\ mode \in Modes
  /\ fz = IF UseForkserver THEN "spawn" ELSE "idle"
  /\ child_pid = -1
  /\ child_timed_out = FALSE
  /\ prev_timed_out = FALSE
  /\ stop_soon = 0
  /\ timer = FALSE
  /\ handler = FALSE
  /\ status = "-"
  /\ run = 0
  /\ verdict = "FAULT_NONE"
  /\ fs = "none"
  /\ fs_child = 0
  /\ child_stopped = FALSE
  /\ was_killed = FALSE
  /\ proc = [p \in Pids |-> "none"]
  /\ cycle_cnt = [p \in Pids |-> 0]
  /\ forks = 0
  /\ ctl = <<>>
  /\ st = <<>>
  /\ fate = "running"

-----------------------------------------------------------------------------
(* Processes.                                                              *)

\* kill(p, SIGKILL) has no effect on a process that is already dead.
AfterKill(p) ==
  IF p > 0 /\ proc[p] \in Live THEN [proc EXCEPT ![p] = "kill"] ELSE proc

\* fork(): the new process runs the target, whose first call of __AFL_LOOP
\* sets cycle_cnt = max_cnt.
Fork ==
  /\ forks' = forks + 1
  /\ proc' = [proc EXCEPT ![forks + 1] = "run"]
  /\ cycle_cnt' = [cycle_cnt EXCEPT ![forks + 1] = LoopCount]

\* The end of an iteration: __afl_persistent_loop raises SIGSTOP while it has
\* iterations left; a plain target, or the last iteration, exits.
ChildEnd(p) ==
  /\ proc[p] = "run"
  /\ IF Persistent /\ cycle_cnt[p] > 1
       THEN /\ proc' = [proc EXCEPT ![p] = "stop"]
            /\ cycle_cnt' = [cycle_cnt EXCEPT ![p] = @ - 1]
       ELSE /\ proc' = [proc EXCEPT ![p] = "exit"]
            /\ UNCHANGED cycle_cnt
  /\ UNCHANGED <<fuzzVars, fsVars, forks, pipes, fate>>

\* The target dies of a signal of its own.
ChildCrash(p) ==
  /\ proc[p] = "run"
  /\ proc' = [proc EXCEPT ![p] = "signal"]
  /\ UNCHANGED <<fuzzVars, fsVars, cycle_cnt, forks, pipes, fate>>

\* What waitpid() tells of a process, and the fate that is.
FateOf(s) == CASE s = "signal" -> "crashed"
               [] s = "kill"   -> "killed"
               [] OTHER        -> "ended"

\* waitpid(p, &status, options) fails at once for a process reaped before;
\* otherwise it blocks until p stops (with WUNTRACED) or dies, and reaps the
\* dead.
WaitFails(p) == proc[p] = "reaped"

Waitable(p, untraced) ==
  proc[p] \in Zombie \/ (untraced /\ proc[p] = "stop") \/ WaitFails(p)

AfterWait(p) ==
  IF proc[p] \in Zombie THEN [proc EXCEPT ![p] = "reaped"] ELSE proc

-----------------------------------------------------------------------------
(* The fork server, __afl_start_forkserver().                              *)

\* The four-byte hello.
FsHello ==
  /\ fs = "hello"
  /\ fs' = "read"
  /\ st' = Append(st, Msg("hello", 0, "-"))
  /\ UNCHANGED <<fuzzVars, fs_child, child_stopped, was_killed, childVars,
                 ctl, fate>>

FsRead ==
  /\ fs = "read"
  /\ ctl # <<>>
  /\ was_killed' = Head(ctl)
  /\ ctl' = Tail(ctl)
  /\ fs' = "writeoff"
  /\ UNCHANGED <<fuzzVars, fs_child, child_stopped, childVars, st, fate>>

\* Mutants of MustWriteOff: the block is missing, or tests the second flag only.
MustWriteOff_Never   == FALSE
MustWriteOff_Stopped == child_stopped

\* Does the parent's SIGKILL have to be collected from a child that had
\* already stopped itself?
MustWriteOff == child_stopped /\ was_killed

\* "If we stopped the child in persistent mode, but there was a race condition
\* and afl-fuzz already issued SIGKILL, write off the old process." 
FsWriteOff ==
  /\ fs = "writeoff"
  /\ IF MustWriteOff
       THEN /\ Waitable(fs_child, FALSE)
            /\ proc' = AfterWait(fs_child)
            /\ child_stopped' = FALSE
       ELSE UNCHANGED <<proc, child_stopped>>
  /\ fs' = IF MustWriteOff /\ WaitFails(fs_child) THEN "lost" ELSE "start"
  /\ UNCHANGED <<fuzzVars, fs_child, was_killed, cycle_cnt, forks, pipes,
                 fate>>

\* Mutant: the PID of a resumed child, which the parent knows, is not sent.
FsStart_SilentResume ==
  /\ fs = "start"
  /\ IF child_stopped
       THEN /\ proc' = [proc EXCEPT ![fs_child] =
                           IF @ = "stop" THEN "run" ELSE @]
            /\ fs' = "wait"
            /\ UNCHANGED <<fs_child, cycle_cnt, forks>>
       ELSE Fork /\ fs_child' = forks + 1 /\ fs' = "sendpid"
  /\ child_stopped' = FALSE
  /\ UNCHANGED <<fuzzVars, was_killed, pipes, fate>>

\* A new child, or SIGCONT to the stopped one.
FsStart ==
  /\ fs = "start"
  /\ IF child_stopped
       THEN /\ proc' = [proc EXCEPT ![fs_child] =
                           IF @ = "stop" THEN "run" ELSE @]
            /\ UNCHANGED <<fs_child, cycle_cnt, forks>>
       ELSE Fork /\ fs_child' = forks + 1
  /\ child_stopped' = FALSE
  /\ fs' = "sendpid"
  /\ UNCHANGED <<fuzzVars, was_killed, pipes, fate>>

\* fork() fails: the server exits.
FsForkFails ==
  /\ fs = "start"
  /\ ~child_stopped
  /\ fs' = "nofork"
  /\ UNCHANGED <<fuzzVars, fs_child, child_stopped, was_killed, childVars,
                 pipes, fate>>

FsSendPid ==
  /\ fs = "sendpid"
  /\ st' = Append(st, Msg("pid", fs_child, "-"))
  /\ fs' = "wait"
  /\ UNCHANGED <<fuzzVars, fs_child, child_stopped, was_killed, childVars,
                 ctl, fate>>

\* waitpid() and the relay of its status. A signal can kill the server only
\* between the two, which the fuzzer cannot tell from before or after both.
FsWait ==
  /\ fs = "wait"
  /\ Waitable(fs_child, Persistent)
  /\ proc' = AfterWait(fs_child)
  /\ child_stopped' = (proc[fs_child] = "stop")
  /\ IF WaitFails(fs_child)
       THEN /\ fs' = "lost"
            /\ UNCHANGED <<st, fate>>
       ELSE /\ fs' = "read"
            /\ st' = Append(st, Msg("status", 0, proc[fs_child]))
            /\ fate' = FateOf(proc[fs_child])
  /\ UNCHANGED <<fuzzVars, fs_child, was_killed, cycle_cnt, forks, ctl>>

\* The fuzzer is gone and with it the write end of the pipe: read() fails.
FsEof ==
  /\ fs = "read"
  /\ ctl = <<>>
  /\ fz \in {"done", "fatal"}
  /\ fs' = "killed"
  /\ UNCHANGED <<fuzzVars, fs_child, child_stopped, was_killed, childVars,
                 pipes, fate>>

Server == FsHello \/ FsRead \/ FsWriteOff \/ FsStart \/ FsForkFails
            \/ FsSendPid \/ FsWait \/ FsEof

-----------------------------------------------------------------------------
(* The fuzzer. Its main flow is paused while a signal handler runs.        *)

Flow(from, to) ==
  /\ ~handler
  /\ fz = from
  /\ fz' = to

\* init_forkserver(): fork, arm the timer, wait for the hello.
Spawn ==
  /\ Flow("spawn", "hello")
  /\ fs' = "hello"
  /\ timer' = TRUE
  /\ UNCHANGED <<child_pid, child_timed_out, prev_timed_out, stop_soon,
                 handler, status, run, verdict, fs_child, child_stopped,
                 was_killed, childVars, pipes, fate>>

HelloArrives ==
  /\ Flow("hello", "helloed")
  /\ st # <<>>
  /\ st' = Tail(st)
  /\ UNCHANGED <<child_pid, child_timed_out, prev_timed_out, stop_soon, timer,
                 handler, status, run, verdict, fsVars, childVars, ctl, fate>>

\* The server died without a word: FATAL.
HelloFails ==
  /\ Flow("hello", "fatal")
  /\ st = <<>> /\ ~ServerUp
  /\ timer' = FALSE
  /\ UNCHANGED <<child_pid, child_timed_out, prev_timed_out, stop_soon,
                 handler, status, run, verdict, fsVars, childVars, pipes,
                 fate>>

\* setitimer(0) and "fork server is up".
HelloDisarm ==
  /\ Flow("helloed", "idle")
  /\ timer' = FALSE
  /\ UNCHANGED <<child_pid, child_timed_out, prev_timed_out, stop_soon,
                 handler, status, run, verdict, fsVars, childVars, pipes,
                 fate>>

\* run_target() is called: clear the flag and the trace.
Begin ==
  /\ Flow("idle", IF UseForkserver THEN "request" ELSE "fork")
  /\ run < MaxRuns
  /\ child_timed_out' = FALSE
  /\ run' = run + 1
  /\ status' = "-"
  /\ fate' = "running"
  /\ UNCHANGED <<child_pid, prev_timed_out, stop_soon, timer, handler,
                 verdict, fsVars, childVars, pipes>>

\* A pipe is broken: "if (stop_soon) return 0; RPFATAL(...)". The timer stays
\* as it is.
BrokenPipe(from) ==
  /\ Flow(from, IF stop_soon # 0 THEN "idle" ELSE "fatal")
  /\ ~ServerUp
  /\ verdict' = IF stop_soon # 0 THEN "FAULT_NONE" ELSE verdict
  /\ UNCHANGED <<child_pid, child_timed_out, prev_timed_out, stop_soon, timer,
                 handler, status, run, fsVars, childVars, pipes, fate>>

Request ==
  /\ Flow("request", "getpid")
  /\ ServerUp
  /\ ctl' = Append(ctl, prev_timed_out)
  /\ UNCHANGED <<child_pid, child_timed_out, prev_timed_out, stop_soon, timer,
                 handler, status, run, verdict, fsVars, childVars, st, fate>>

RequestFails == BrokenPipe("request")

GetPid ==
  /\ st # <<>>
  /\ Flow("getpid", IF Head(st).pid > 0 THEN "arm" ELSE "fatal")
  /\ child_pid' = Head(st).pid
  /\ st' = Tail(st)
  /\ UNCHANGED <<child_timed_out, prev_timed_out, stop_soon, timer, handler,
                 status, run, verdict, fsVars, childVars, ctl, fate>>

GetPidFails == st = <<>> /\ BrokenPipe("getpid")

\* dumb_mode == 1 || no_forkserver: fork() the target directly. The signal
\* handlers may run before its result reaches child_pid.
DirectFork ==
  /\ Flow("fork", "forked")
  /\ Fork
  /\ UNCHANGED <<child_pid, child_timed_out, prev_timed_out, stop_soon, timer,
                 handler, status, run, verdict, fsVars, pipes, fate>>

DirectForkFails ==
  /\ Flow("fork", "fatal")
  /\ UNCHANGED <<child_pid, child_timed_out, prev_timed_out, stop_soon, timer,
                 handler, status, run, verdict, fsVars, childVars, pipes,
                 fate>>

DirectPid ==
  /\ Flow("forked", "arm")
  /\ child_pid' = forks
  /\ UNCHANGED <<child_timed_out, prev_timed_out, stop_soon, timer, handler,
                 status, run, verdict, fsVars, childVars, pipes, fate>>

Arm ==
  /\ Flow("arm", "wait")
  /\ timer' = TRUE
  /\ UNCHANGED <<child_pid, child_timed_out, prev_timed_out, stop_soon,
                 handler, status, run, verdict, fsVars, childVars, pipes,
                 fate>>

GetStatus ==
  /\ Flow("wait", "gotstatus")
  /\ UseForkserver
  /\ st # <<>>
  /\ status' = Head(st).status
  /\ st' = Tail(st)
  /\ UNCHANGED <<child_pid, child_timed_out, prev_timed_out, stop_soon, timer,
                 handler, run, verdict, fsVars, childVars, ctl, fate>>

GetStatusFails == UseForkserver /\ st = <<>> /\ BrokenPipe("wait")

\* Without the fork server: waitpid(child_pid).
DirectWait ==
  /\ Flow("wait", "gotstatus")
  /\ ~UseForkserver
  /\ Waitable(child_pid, FALSE)
  /\ status' = proc[child_pid]
  /\ fate' = FateOf(proc[child_pid])
  /\ proc' = AfterWait(child_pid)
  /\ UNCHANGED <<child_pid, child_timed_out, prev_timed_out, stop_soon, timer,
                 handler, run, verdict, fsVars, cycle_cnt, forks, pipes>>

\* "if (!WIFSTOPPED(status)) child_pid = 0"
DropPid ==
  /\ Flow("gotstatus", "disarm")
  /\ child_pid' = IF status = "stop" THEN child_pid ELSE 0
  /\ UNCHANGED <<child_timed_out, prev_timed_out, stop_soon, timer, handler,
                 status, run, verdict, fsVars, childVars, pipes, fate>>

Disarm ==
  /\ Flow("disarm", "report")
  /\ timer' = FALSE
  /\ UNCHANGED <<child_pid, child_timed_out, prev_timed_out, stop_soon,
                 handler, status, run, verdict, fsVars, childVars, pipes,
                 fate>>

\* The fault code of run_target().
Outcome ==
  IF status \in {"signal", "kill"} /\ stop_soon = 0
    THEN IF child_timed_out /\ status = "kill" THEN "FAULT_TMOUT"
                                               ELSE "FAULT_CRASH"
    ELSE "FAULT_NONE"

Report ==
  /\ Flow("report", "idle")
  /\ prev_timed_out' = child_timed_out
  /\ verdict' = Outcome
  /\ UNCHANGED <<child_pid, child_timed_out, stop_soon, timer, handler,
                 status, run, fsVars, childVars, pipes, fate>>

\* exit_1, AFL_EXIT_WHEN_DONE or AFL_BENCH_UNTIL_CRASH: stop_soon = 2.
SelfStop ==
  /\ Flow("idle", "idle")
  /\ stop_soon = 0
  /\ stop_soon' = 2
  /\ UNCHANGED <<child_pid, child_timed_out, prev_timed_out, timer, handler,
                 status, run, verdict, fsVars, childVars, pipes, fate>>

\* main() leaves its loop and exits, with the kills that are its own to do.
Leave ==
  /\ Flow("idle", "done")
  /\ stop_soon # 0
  /\ IF stop_soon = 2
       THEN /\ proc' = AfterKill(child_pid)
            /\ fs' = IF ServerUp THEN "killed" ELSE fs
       ELSE UNCHANGED <<proc, fs>>
  /\ UNCHANGED <<child_pid, child_timed_out, prev_timed_out, stop_soon, timer,
                 handler, status, run, verdict, fs_child, child_stopped,
                 was_killed, cycle_cnt, forks, pipes, fate>>

\* handle_stop_sig(), first half: the flag and the program under test.
StopSig ==
  /\ fz \notin {"done", "fatal"}
  /\ ~handler
  /\ handler' = TRUE
  /\ stop_soon' = 1
  /\ proc' = AfterKill(child_pid)
  /\ UNCHANGED <<fz, child_pid, child_timed_out, prev_timed_out, timer,
                 status, run, verdict, fsVars, cycle_cnt, forks, pipes, fate>>

\* handle_stop_sig(), second half: the fork server.
StopSigServer ==
  /\ handler
  /\ handler' = FALSE
  /\ fs' = IF ServerUp THEN "killed" ELSE fs
  /\ UNCHANGED <<fz, child_pid, child_timed_out, prev_timed_out, stop_soon,
                 timer, status, run, verdict, fs_child, child_stopped,
                 was_killed, childVars, pipes, fate>>

\* handle_timeout(): kill the program under test, or the fork server if it
\* has not even said hello.
Alarm ==
  /\ timer
  /\ fz \notin {"done", "fatal"}
  /\ timer' = FALSE
  /\ IF child_pid > 0
       THEN /\ child_timed_out' = TRUE
            /\ proc' = AfterKill(child_pid)
            /\ UNCHANGED fs
       ELSE IF child_pid = -1 /\ fs # "none"
              THEN /\ child_timed_out' = TRUE
                   /\ fs' = IF ServerUp THEN "killed" ELSE fs
                   /\ UNCHANGED proc
              ELSE UNCHANGED <<child_timed_out, proc, fs>>
  /\ UNCHANGED <<fz, child_pid, prev_timed_out, stop_soon, handler, status,
                 run, verdict, fs_child, child_stopped, was_killed, cycle_cnt,
                 forks, pipes, fate>>

RunTarget == Begin \/ Request \/ RequestFails \/ GetPid \/ GetPidFails
               \/ DirectFork \/ DirectForkFails \/ DirectPid \/ Arm
               \/ GetStatus \/ GetStatusFails \/ DirectWait \/ DropPid
               \/ Disarm \/ Report

Startup == Spawn \/ HelloArrives \/ HelloFails \/ HelloDisarm

\* Once the fuzzer has exited there is nothing left to do.
Over == fz \in {"done", "fatal"} /\ ~ServerUp /\ UNCHANGED vars

Step ==
  \/ Startup
  \/ RunTarget
  \/ SelfStop
  \/ Leave
  \/ StopSig
  \/ StopSigServer
  \/ Alarm
  \/ Server
  \/ \E p \in Pids : ChildEnd(p) \/ ChildCrash(p)
  \/ Over

\* A session never changes its mode.
Next == Step /\ UNCHANGED mode

\* The fuzzer and the fork server are scheduled, an armed timer goes off, a
\* handler returns and, however often Ctrl-C is pressed, the flow it interrupts
\* gets its turn (the strong fairness). Nothing is assumed of the target: it
\* may hang. Nobody has to press Ctrl-C.
Fairness ==
  /\ SF_vars((Startup \/ RunTarget) /\ UNCHANGED mode)
  /\ SF_vars(Leave /\ UNCHANGED mode)
  /\ WF_vars(StopSigServer /\ UNCHANGED mode)
  /\ WF_vars(Alarm /\ UNCHANGED mode)
  /\ WF_vars(Server /\ UNCHANGED mode)

Spec == Init /\ [][Next]_vars

FairSpec == Spec /\ Fairness

-----------------------------------------------------------------------------
(* Properties.                                                             *)

InCall == fz \in {"request", "getpid", "fork", "forked", "arm", "wait",
                  "gotstatus", "disarm", "report"}

\* Type correctness of the three kinds of process and the pipes between them:
\* no PID and no iteration counter leaves its range.
TypeOK ==
  /\ mode \in Modes
  /\ fz \in {"spawn", "hello", "helloed", "idle", "request", "getpid", "fork",
             "forked", "arm", "wait", "gotstatus", "disarm", "report", "done",
             "fatal"}
  /\ child_pid \in -1 .. MaxRuns
  /\ child_timed_out \in BOOLEAN
  /\ prev_timed_out \in BOOLEAN
  /\ stop_soon \in 0 .. 2
  /\ timer \in BOOLEAN
  /\ handler \in BOOLEAN
  /\ status \in {"-", "stop"} \cup Zombie
  /\ run \in 0 .. MaxRuns
  /\ verdict \in {"FAULT_NONE", "FAULT_TMOUT", "FAULT_CRASH"}
  /\ fs \in {"none", "hello", "read", "writeoff", "start", "sendpid", "wait",
             "killed", "nofork", "lost"}
  /\ fs_child \in 0 .. MaxRuns
  /\ child_stopped \in BOOLEAN
  /\ was_killed \in BOOLEAN
  /\ proc \in [Pids -> Live \cup Zombie \cup {"none", "reaped"}]
  /\ cycle_cnt \in [Pids -> 0 .. LoopCount]
  /\ forks \in 0 .. MaxRuns
  /\ ctl \in Seq(BOOLEAN)
  /\ st \in Seq([kind : {"hello", "pid", "status"}, pid : 0 .. MaxRuns,
                 status : {"-", "stop"} \cup Zombie])
  /\ fate \in {"running", "ended", "crashed", "killed"}

\* The four-byte messages of the status pipe carry no tag. Whatever the
\* handlers did, the one the fuzzer is about to take for a PID is the PID of
\* the fork server's current child, and the one it is about to take for a
\* wait status is a status, the last message in the pipe.
PipeInStep ==
  /\ fz = "getpid" /\ st # <<>> => Head(st) = Msg("pid", fs_child, "-")
  /\ fz = "wait" /\ st # <<>> =>
       /\ child_pid = fs_child
       /\ Head(st).kind = "status"
       /\ Len(st) = 1

\* trace_bits is cleared, classified and read between the status of one run
\* and the request of the next. Until a stop is asked for, no process is
\* running there that could write to it.
TraceQuiet ==
  stop_soon = 0 /\ fz \in {"idle", "request", "gotstatus", "disarm", "report"}
    => \A p \in Pids : proc[p] # "run"

\* At most one process under test exists at a time, so nothing is left behind
\* by a run: not a stopped child that was written off, not a killed one.
OneProgram ==
  \A p, q \in Pids : proc[p] \in Live /\ proc[q] \in Live => p = q

\* Once a program has been run, only a failing fork() can break the protocol
\* with the server ("Unable to request new process from fork server").
FatalOnlyWithCause ==
  fz = "fatal" => child_pid = -1 \/ fs = "nofork" \/ ~UseForkserver

\* run_target() keeps its promise to the rest of the fuzzer.
Oracle == INSTANCE ExecOracle WITH
  phase    <- CASE fz \in {"spawn", "hello", "helloed"} -> "boot"
                [] fz = "idle"                          -> "idle"
                [] fz \in {"done", "fatal"}             -> "over"
                [] OTHER                                -> "busy",
  expired  <- child_timed_out,
  stopping <- stop_soon # 0

\* Every call returns the fault code of what happened in this call.
Refinement == Oracle!Spec

\* Whatever the target does, hang included, every call of run_target returns.
EveryCallReturns == InCall ~> ~InCall

\* The fork server does not outlive the fuzzer.
ServerEnds == fz \in {"done", "fatal"} ~> ~ServerUp

\* "we kill the forkserver and the current runner. If we stopped manually,
\* this is done by the signal handler": when main() is done, neither lives.
StopKillsRunner == fz = "done" => \A p \in Pids : proc[p] \notin Live

\* The protocol between run_target, the fork server and the program under
\* test holds (src/afl-fuzz.c:2490-2830, src/llvm_mode/afl-llvm-rt.o.c:141-263):
\* the pipes stay in step, nobody writes to the trace while the fuzzer reads
\* it, one program exists at a time, and the fuzzer gives up for a cause only.
CallsSound == TypeOK /\ PipeInStep /\ TraceQuiet /\ OneProgram /\ FatalOnlyWithCause

\* Neither a call nor the fork server goes on for ever
\* (src/afl-fuzz.c:2650-2830, 7250-7290).
CallsEnd == EveryCallReturns /\ ServerEnds
=============================================================================
