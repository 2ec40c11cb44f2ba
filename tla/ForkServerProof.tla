---------------------------- MODULE ForkServerProof ----------------------------
(***************************************************************************)
(* Proofs about the execution of the target, for every number of runs and  *)
(* of iterations of the persistent loop: the protocol between fuzzer, fork *)
(* server and program holds (CallsSound), and ForkServer implements        *)
(* ExecOracle, that is, each call returns the fault code of its own run.   *)
(***************************************************************************)
EXTENDS ForkServer, TLAPS, SequenceTheorems

(* What waitpid can tell of a program that ended or stopped. *)
Told == {"stop"} \cup Zombie

(* The state of the last process that was created; every other is gone.    *)
Cur == IF forks = 0 THEN "reaped" ELSE proc[forks]

(* Only the last process can be alive, and child_pid never names a later   *)
(* one.  The fork server's child is that process.                          *)
ProcInv ==
  /\ \A p \in Pids : p < forks => proc[p] = "reaped"
  /\ \A p \in Pids : p > forks => proc[p] = "none"
  /\ forks > 0 => proc[forks] # "none"
  /\ child_pid <= forks /\ forks <= run
  /\ fs_child = IF UseForkserver THEN forks ELSE 0

(* Whose turn it is to fork: a request that is not served yet. *)
MayFork ==
  \/ fz \in {"request", "fork"}
  \/ fz = "getpid" /\ (fs \in {"writeoff", "start"} \/ (fs = "read" /\ ctl # <<>>))

BudgetInv == MayFork => forks < run

(* What the fork server knows about its child. *)
ServerInv ==
  UseForkserver =>
    /\ fs \in {"none", "hello"} => forks = 0 /\ ~child_stopped
    /\ fs \in {"read", "writeoff", "start"} =>
         IF child_stopped THEN Cur \in {"stop", "kill"} ELSE Cur = "reaped"
    /\ fs \in {"sendpid", "wait"} => ~child_stopped /\ Cur \in Live \cup Zombie
    /\ fs = "nofork" => Cur = "reaped"
    /\ fs # "lost"

(* What the fuzzer knows about it. *)
PidInv ==
  /\ fz \in {"spawn", "hello", "helloed"} => UseForkserver /\ forks = 0 /\ child_pid = -1
  /\ fz \in {"arm", "wait", "gotstatus"} => forks > 0 /\ child_pid = forks
  /\ fz \in {"disarm", "report"} => child_pid \in {0, forks}
  /\ stop_soon = 0 /\ fz \in {"idle", "request"} => child_pid \in {-1, 0, forks}

HelloMsg == Msg("hello", 0, "-")
PidMsg   == Msg("pid", forks, "-")

(* What is in the pipes at each place of the fuzzer.  A status message is  *)
(* in the pipe from the moment the program's fate is known.                *)
Unsettled == fate = "running"
Carries(s) == s \in Told /\ fate = FateOf(s)
StatusMsg(s) == Msg("status", 0, s)

QuietPipe == st = <<>> /\ (fs \in {"killed", "nofork"} \/ (fs = "read" /\ ctl = <<>>))

HelloPipe ==
  /\ ctl = <<>>
  /\ \/ fs \in {"hello", "killed"} /\ st = <<>>
     \/ fs \in {"read", "killed"} /\ st = <<HelloMsg>>

RequestedPipe ==
  \/ Unsettled /\ fs = "read" /\ st = <<>> /\ Len(ctl) = 1
  \/ Unsettled /\ fs \in {"writeoff", "start", "sendpid"} /\ ctl = <<>> /\ st = <<>>
  \/ Unsettled /\ fs \in {"killed", "nofork"} /\ st = <<>>
  \/ Unsettled /\ fs = "wait" /\ ctl = <<>> /\ st = <<PidMsg>>
  \/ Unsettled /\ fs = "killed" /\ forks > 0 /\ st = <<PidMsg>>
  \/ /\ fs = "killed" \/ (fs = "read" /\ ctl = <<>>)
     /\ forks > 0 /\ \E s \in Told : Carries(s) /\ st = <<PidMsg, StatusMsg(s)>>

WaitPipe ==
  \/ Unsettled /\ fs = "wait" /\ ctl = <<>> /\ st = <<>>
  \/ Unsettled /\ fs = "killed" /\ st = <<>>
  \/ /\ fs = "killed" \/ (fs = "read" /\ ctl = <<>>)
     /\ \E s \in Told : Carries(s) /\ st = <<StatusMsg(s)>>

PipeInv ==
  UseForkserver =>
    /\ fz \notin {"fork", "forked"}
    /\ fz = "spawn" => fs = "none" /\ ctl = <<>> /\ st = <<>>
    /\ fz = "hello" => HelloPipe
    /\ fz = "helloed" => st = <<>> /\ ctl = <<>> /\ fs \in {"read", "killed"}
    /\ fz \in {"idle", "request", "gotstatus", "disarm", "report", "done"} => QuietPipe
    /\ fz = "request" => Unsettled
    /\ fz = "getpid" => RequestedPipe
    /\ fz \in {"arm", "wait"} => WaitPipe
    /\ fz = "fatal" => ~ServerUp

(* Without the fork server. *)
DirectInv ==
  ~UseForkserver =>
    /\ fs = "none" /\ ctl = <<>> /\ st = <<>>
    /\ fz \notin {"request", "getpid"}
    /\ fz \in {"fork", "forked", "arm", "wait"} => Unsettled
    /\ IF fz \in {"forked", "arm", "wait"}
         THEN forks > 0 /\ Cur \in Live \cup Zombie
         ELSE Cur = "reaped"

StatusInv == fz \in {"gotstatus", "disarm", "report"} => Carries(status)

(* Until a stop is asked for, the timer is armed in its three places, and  *)
(* the server is gone only if it was killed before its first request or    *)
(* could not fork.  While a handler is between its kills, a stop has been *)
(* asked for.                                                              *)
TimerInv ==
  /\ timer /\ stop_soon = 0 => fz \in {"hello", "helloed", "wait", "gotstatus", "disarm"}
  /\ handler => stop_soon = 1

GoneInv ==
  UseForkserver /\ stop_soon = 0 =>
    /\ fs = "killed" /\ fz \notin {"done", "fatal"} =>
         fz \in {"hello", "helloed", "idle", "request"} /\ forks = 0 /\ child_pid = -1
    /\ fs = "nofork" => fz \in {"getpid", "fatal"}

(* Until a stop is asked for, a child that was killed was killed by the    *)
(* timer of this call, or of the last one, which the fork server is told   *)
(* before it looks at the child again.                                     *)
KillKnown ==
  \/ fz \in {"wait", "gotstatus", "disarm", "report"} /\ child_timed_out
  \/ fz \in {"idle", "request"} /\ prev_timed_out
  \/ fz = "getpid" /\ fs = "read" /\ ctl = <<TRUE>>
  \/ fz = "getpid" /\ fs = "writeoff" /\ was_killed

KillInv == stop_soon = 0 /\ Cur = "kill" => KillKnown

(* A program that was killed in this call was killed by its timer. *)
FateInv == stop_soon = 0 /\ InCall /\ fate = "killed" => child_timed_out

IInv ==
  /\ TypeOK /\ ProcInv /\ BudgetInv /\ ServerInv /\ PidInv /\ PipeInv /\ DirectInv
  /\ StatusInv /\ TimerInv /\ GoneInv /\ KillInv /\ FateInv /\ FatalOnlyWithCause

-----------------------------------------------------------------------------
(* The pipes hold at most two messages. *)

(* Two-element sequences are equal to what they are built from. *)
LEMMA AppendTwo ==
  ASSUME NEW a, NEW b
  PROVE  Append(<<a>>, b) = <<a, b>>
<1> DEFINE s == Append(<<a>>, b)
           t == <<a, b>>
<1>1. s \in Seq({a,b}) /\ t \in Seq({a,b})
    OBVIOUS
<1>2. Len(s) = 2 /\ Len(t) = 2
    OBVIOUS
<1>3. s[1] = a /\ s[2] = b /\ t[1] = a /\ t[2] = b
    OBVIOUS
<1>4. \A i \in 1..Len(s) : s[i] = t[i]
  <2> HIDE DEF s, t
  <2> QED BY <1>2, <1>3
<1>5. s = t
  <2> HIDE DEF s, t
  <2> QED BY <1>1, <1>2, <1>4, SeqEqual
<1> QED BY <1>5

(* What the operations on sequences do to no, one and two messages. *)
LEMMA ShortSeq ==
  ASSUME NEW a, NEW b
  PROVE  /\ <<>> # <<a>> /\ <<>> # <<a, b>> /\ <<a>> # <<a, b>>
         /\ Head(<<a>>) = a /\ Tail(<<a>>) = <<>>
         /\ Head(<<a, b>>) = a /\ Tail(<<a, b>>) = <<b>>
         /\ Append(<<>>, a) = <<a>> /\ Append(<<a>>, b) = <<a, b>>
         /\ Len(<<>>) = 0 /\ Len(<<a>>) = 1
<1>1. <<>> # <<a>> /\ <<>> # <<a, b>> /\ <<a>> # <<a, b>>
  OBVIOUS
<1>2. Head(<<a>>) = a /\ Tail(<<a>>) = <<>>
  OBVIOUS
<1>3. Head(<<a, b>>) = a /\ Tail(<<a, b>>) = <<b>>
  OBVIOUS
<1>4. Append(<<>>, a) = <<a>>
  OBVIOUS
<1>5. Len(<<>>) = 0 /\ Len(<<a>>) = 1
  OBVIOUS
<1> QED BY <1>1, <1>2, <1>3, <1>4, <1>5, AppendTwo

(* What is read from a pipe, and what is left in it, has the pipe's type. *)
LEMMA HeadType ==
  ASSUME NEW S, NEW s \in Seq(S), s # <<>>
  PROVE  Head(s) \in S /\ Tail(s) \in Seq(S)
  OBVIOUS

ProcType == [Pids -> {"run", "stop", "exit", "signal", "kill", "none", "reaped"}]
MsgType == [kind : {"hello", "pid", "status"}, pid : 0 .. MaxRuns,
            status : {"-", "stop", "exit", "signal", "kill"}]

(* The truth-valued variables, which the provers like to see apart. *)
FlagsOK ==
  /\ child_timed_out \in BOOLEAN
  /\ prev_timed_out \in BOOLEAN
  /\ timer \in BOOLEAN
  /\ handler \in BOOLEAN
  /\ child_stopped \in BOOLEAN
  /\ was_killed \in BOOLEAN

(* Writing a message keeps the type of the pipe. *)
LEMMA SendType ==
  ASSUME TypeOK, NEW m \in MsgType
  PROVE  Append(st, m) \in Seq(MsgType)
  BY DEF TypeOK, MsgType, Zombie

USE ForkServerAssumption
    DEF Pids, Live, Zombie, Persistent, UseForkserver, ServerUp, Told, Cur,
        MayFork, Flow, fuzzVars, fsVars, childVars, pipes

-----------------------------------------------------------------------------
(* Processes. *)

(* A process that is neither gone nor still to come is the last one. *)
LEMMA LastProcess ==
  ASSUME TypeOK, ProcInv, NEW p \in Pids, proc[p] \notin {"none", "reaped"}
  PROVE  p = forks
  BY DEF TypeOK, ProcInv

(* A SIGKILL for the program under test can change the last process only. *)
LEMMA KillLast ==
  ASSUME TypeOK, ProcInv, UNCHANGED <<mode, forks, child_pid, run, fs_child>>,
         proc' = AfterKill(child_pid)
  PROVE  /\ ProcInv'
         /\ proc' \in ProcType
         /\ Cur' \in {Cur, "kill"}
         /\ Cur' # Cur => Cur \in Live
<1>1. proc' \in ProcType
  BY DEF TypeOK, AfterKill, ProcType
<1>2. ASSUME child_pid > 0, proc[child_pid] \in Live
      PROVE  forks \in Pids /\ Cur \in Live /\ proc' = [proc EXCEPT ![forks] = "kill"]
  <2>1. child_pid \in Pids
    BY <1>2 DEF TypeOK
  <2>2. child_pid = forks
    BY <1>2, <2>1, LastProcess
  <2> QED
    BY <1>2, <2>1, <2>2 DEF AfterKill
<1>3. CASE child_pid > 0 /\ proc[child_pid] \in Live
  BY <1>1, <1>2, <1>3 DEF TypeOK, ProcInv
<1>4. CASE ~(child_pid > 0 /\ proc[child_pid] \in Live)
  BY <1>1, <1>4 DEF TypeOK, ProcInv, AfterKill
<1> QED
  BY <1>3, <1>4

(* waitpid leaves every process in a known state. *)
LEMMA WaitType ==
  ASSUME TypeOK, NEW p
  PROVE  AfterWait(p) \in ProcType
  BY DEF TypeOK, AfterWait, ProcType

(* A new process, while the bound on runs is not reached, keeps the types. *)
LEMMA ForkType ==
  ASSUME TypeOK, forks < MaxRuns, Fork
  PROVE  /\ forks' \in 0 .. MaxRuns
         /\ proc' \in ProcType
         /\ cycle_cnt' \in [Pids -> 0 .. LoopCount]
  BY DEF TypeOK, Fork, ProcType

(* The pipes of a fork server that is killed are in one of the states of   *)
(* the same place of the fuzzer.                                           *)
LEMMA KilledServer ==
  ASSUME TypeOK, ServerInv, UseForkserver, UNCHANGED <<forks, st, ctl, fate>>,
         fs' \in {fs, "killed"}
  PROVE  /\ QuietPipe => QuietPipe'
         /\ HelloPipe => HelloPipe'
         /\ RequestedPipe => RequestedPipe'
         /\ WaitPipe => WaitPipe'
<1>1. PidMsg' = PidMsg /\ HelloMsg' = HelloMsg /\ Unsettled' = Unsettled
  BY DEF PidMsg, HelloMsg, Msg, Unsettled
<1>2. \A s : Carries(s)' = Carries(s) /\ StatusMsg(s)' = StatusMsg(s)
  BY Zenon DEF Carries, StatusMsg, FateOf, Msg
<1>3. QuietPipe => QuietPipe'
  BY DEF QuietPipe
<1>4. HelloPipe => HelloPipe'
  BY <1>1 DEF HelloPipe
<1>5. fs = "wait" => forks > 0
  BY DEF TypeOK, ServerInv
<1>6. RequestedPipe => RequestedPipe'
  BY <1>1, <1>2, <1>5 DEF RequestedPipe
<1>7. WaitPipe => WaitPipe'
  BY <1>1, <1>2 DEF WaitPipe
<1> QED
  BY <1>3, <1>4, <1>6, <1>7

-----------------------------------------------------------------------------
(* Every step preserves the invariant: one lemma per action.  *)

(* Before the fork server exists there is no program and nothing in the
   pipes. *)
LEMMA SpawnStep ==
  ASSUME IInv, Spawn, UNCHANGED mode
  PROVE  IInv'
<1>1. FlagsOK'
  BY DEF IInv, TypeOK, FlagsOK, Spawn
<1>2. TypeOK'
  BY <1>1 DEF IInv, TypeOK, FlagsOK, Spawn
<1>3. (ProcInv /\ BudgetInv /\ ServerInv /\ PidInv)'
  BY ShortSeq DEF IInv, TypeOK, ProcInv, BudgetInv, ServerInv, PidInv,
      DirectInv, PipeInv, QuietPipe, HelloPipe, RequestedPipe, WaitPipe,
      Unsettled, Spawn
<1>4. (PipeInv /\ DirectInv)'
  BY ShortSeq DEF IInv, TypeOK, PipeInv, DirectInv, ServerInv, ProcInv,
      PidInv, GoneInv, TimerInv, StatusInv, HelloMsg, PidMsg, Unsettled,
      Carries, StatusMsg, QuietPipe, HelloPipe, RequestedPipe, WaitPipe,
      FateOf, Msg, Spawn
<1>5. (StatusInv /\ TimerInv /\ GoneInv /\ FatalOnlyWithCause)'
  BY DEF IInv, StatusInv, TimerInv, GoneInv, FatalOnlyWithCause, Spawn
<1>6. (KillInv /\ FateInv)'
  BY DEF IInv, KillInv, KillKnown, FateInv, InCall, Spawn
<1> QED
  BY <1>2, <1>3, <1>4, <1>5, <1>6 DEF IInv

(* The hello was the only message: both pipes are empty after it. *)
LEMMA HelloArrivesStep ==
  ASSUME IInv, HelloArrives, UNCHANGED mode
  PROVE  IInv'
<1>1. FlagsOK'
  BY DEF IInv, TypeOK, FlagsOK, HelloArrives
<1>2. TypeOK'
  BY <1>1 DEF IInv, TypeOK, FlagsOK, HelloArrives
<1>3. (ProcInv /\ BudgetInv /\ ServerInv /\ PidInv)'
  BY DEF IInv, ProcInv, BudgetInv, ServerInv, PidInv, HelloArrives
<1>4. (PipeInv /\ DirectInv)'
  BY ShortSeq DEF IInv, PipeInv, DirectInv, QuietPipe, HelloPipe,
      RequestedPipe, WaitPipe, Unsettled, HelloArrives
<1>5. (StatusInv /\ TimerInv /\ GoneInv /\ FatalOnlyWithCause)'
  BY DEF IInv, StatusInv, TimerInv, GoneInv, FatalOnlyWithCause, HelloArrives
<1>6. (KillInv /\ FateInv)'
  BY DEF IInv, KillInv, KillKnown, FateInv, InCall, HelloArrives
<1> QED
  BY <1>2, <1>3, <1>4, <1>5, <1>6 DEF IInv

(* The fuzzer gives up before the first program was run. *)
LEMMA HelloFailsStep ==
  ASSUME IInv, HelloFails, UNCHANGED mode
  PROVE  IInv'
<1>1. FlagsOK'
  BY DEF IInv, TypeOK, FlagsOK, HelloFails
<1>2. TypeOK'
  BY <1>1 DEF IInv, TypeOK, FlagsOK, HelloFails
<1>3. (ProcInv /\ BudgetInv /\ ServerInv /\ PidInv)'
  BY DEF IInv, ProcInv, BudgetInv, ServerInv, PidInv, HelloFails
<1>4. (PipeInv /\ DirectInv)'
  BY DEF IInv, PipeInv, DirectInv, HelloFails
<1>5. (StatusInv /\ TimerInv /\ GoneInv /\ FatalOnlyWithCause)'
  BY DEF IInv, TypeOK, StatusInv, TimerInv, GoneInv, FatalOnlyWithCause,
      PidInv, DirectInv, Carries, HelloFails
<1>6. (KillInv /\ FateInv)'
  BY DEF IInv, KillInv, KillKnown, FateInv, InCall, HelloFails
<1> QED
  BY <1>2, <1>3, <1>4, <1>5, <1>6 DEF IInv

(* Only now does child_pid = -1 stand for 'the server is up, nothing run
   yet'. *)
LEMMA HelloDisarmStep ==
  ASSUME IInv, HelloDisarm, UNCHANGED mode
  PROVE  IInv'
<1>1. FlagsOK'
  BY DEF IInv, TypeOK, FlagsOK, HelloDisarm
<1>2. TypeOK'
  BY <1>1 DEF IInv, TypeOK, FlagsOK, HelloDisarm
<1>3. (ProcInv /\ BudgetInv /\ ServerInv /\ PidInv)'
  BY DEF IInv, ProcInv, BudgetInv, ServerInv, PidInv, HelloDisarm
<1>4. (PipeInv /\ DirectInv)'
  BY ShortSeq DEF IInv, PipeInv, DirectInv, QuietPipe, HelloPipe,
      RequestedPipe, WaitPipe, Unsettled, HelloDisarm
<1>5. (StatusInv /\ TimerInv /\ GoneInv /\ FatalOnlyWithCause)'
  BY DEF IInv, StatusInv, TimerInv, GoneInv, FatalOnlyWithCause, HelloDisarm
<1>6. (KillInv /\ FateInv)'
  BY DEF IInv, KillInv, KillKnown, FateInv, InCall, HelloDisarm
<1> QED
  BY <1>2, <1>3, <1>4, <1>5, <1>6 DEF IInv

(* A new call: its fate is open, and one more process may be created. *)
LEMMA BeginStep ==
  ASSUME IInv, Begin, UNCHANGED mode
  PROVE  IInv'
<1>1. FlagsOK'
  BY DEF IInv, TypeOK, FlagsOK, Begin
<1>2. TypeOK'
  BY <1>1 DEF IInv, TypeOK, FlagsOK, Begin
<1>3. (ProcInv /\ BudgetInv /\ ServerInv /\ PidInv)'
  BY DEF IInv, TypeOK, ProcInv, BudgetInv, ServerInv, PidInv, Begin
<1>4. (PipeInv /\ DirectInv)'
  BY ShortSeq DEF IInv, PipeInv, DirectInv, QuietPipe, HelloPipe,
      RequestedPipe, WaitPipe, Unsettled, Begin
<1>5. (StatusInv /\ TimerInv /\ GoneInv /\ FatalOnlyWithCause)'
  BY DEF IInv, StatusInv, TimerInv, GoneInv, FatalOnlyWithCause, Begin
<1>6. (KillInv /\ FateInv)'
  BY DEF IInv, TypeOK, KillInv, KillKnown, FateInv, InCall, PidInv, TimerInv,
      DirectInv, ProcInv, Begin
<1> QED
  BY <1>2, <1>3, <1>4, <1>5, <1>6 DEF IInv

(* The request tells the server whether the last call timed out, which covers
   a child that this time-out killed after it had stopped. *)
LEMMA RequestStep ==
  ASSUME IInv, Request, UNCHANGED mode
  PROVE  IInv'
<1>1. FlagsOK'
  BY DEF IInv, TypeOK, FlagsOK, Request
<1>2. TypeOK'
  BY <1>1 DEF IInv, TypeOK, FlagsOK, Request
<1>3. (ProcInv /\ BudgetInv /\ ServerInv /\ PidInv)'
  BY DEF IInv, ProcInv, BudgetInv, ServerInv, PidInv, Request
<1>4. (PipeInv /\ DirectInv)'
  BY ShortSeq DEF IInv, PipeInv, DirectInv, QuietPipe, HelloPipe,
      RequestedPipe, WaitPipe, Unsettled, Request
<1>5. (StatusInv /\ TimerInv /\ GoneInv /\ FatalOnlyWithCause)'
  BY DEF IInv, StatusInv, TimerInv, GoneInv, FatalOnlyWithCause, Request
<1>6. (KillInv /\ FateInv)'
  BY ShortSeq DEF IInv, TypeOK, KillInv, KillKnown, FateInv, InCall, PidInv,
      TimerInv, DirectInv, ProcInv, ServerInv, PipeInv, HelloMsg, PidMsg,
      Unsettled, Carries, StatusMsg, QuietPipe, HelloPipe, RequestedPipe,
      WaitPipe, FateOf, Msg, Request
<1> QED
  BY <1>2, <1>3, <1>4, <1>5, <1>6 DEF IInv

(* Without a stop, a server that is gone before a request was killed before
   the first one. *)
LEMMA RequestFailsStep ==
  ASSUME IInv, RequestFails, UNCHANGED mode
  PROVE  IInv'
<1>1. TypeOK'
  BY DEF IInv, TypeOK, RequestFails, BrokenPipe
<1>2. (ProcInv /\ BudgetInv /\ ServerInv /\ PidInv)'
  BY DEF IInv, ProcInv, BudgetInv, ServerInv, PidInv, RequestFails, BrokenPipe
<1>3. (PipeInv /\ DirectInv)'
  BY DEF IInv, PipeInv, DirectInv, QuietPipe, RequestFails, BrokenPipe
<1>4. ASSUME stop_soon = 0
      PROVE  Cur = "reaped" /\ fs = "killed" /\ child_pid = -1
  BY <1>4 DEF IInv, DirectInv, PipeInv, ServerInv, GoneInv, QuietPipe,
      RequestFails, BrokenPipe
<1>5. (StatusInv /\ TimerInv /\ GoneInv /\ FatalOnlyWithCause)'
  BY <1>4 DEF IInv, StatusInv, TimerInv, GoneInv, FatalOnlyWithCause,
      RequestFails, BrokenPipe
<1>6. (KillInv /\ FateInv)'
  BY <1>4 DEF IInv, KillInv, FateInv, InCall, RequestFails, BrokenPipe
<1> QED
  BY <1>1, <1>2, <1>3, <1>5, <1>6 DEF IInv

(* What is read here is the PID message: the server sends one for every
   request. *)
LEMMA GetPidStep ==
  ASSUME IInv, GetPid, UNCHANGED mode
  PROVE  IInv'
<1>1. Head(st) \in MsgType /\ st' \in Seq(MsgType)
  BY HeadType DEF IInv, TypeOK, MsgType, GetPid
<1>2. UseForkserver /\ RequestedPipe
  BY DEF IInv, PipeInv, DirectInv, GetPid
<1>3. fz' = "arm" /\ child_pid' = forks /\ forks > 0
  <2>1. Head(st) = PidMsg
    BY <1>2, ShortSeq DEF RequestedPipe, GetPid
  <2>2. forks > 0
    BY <1>2, ShortSeq DEF IInv, TypeOK, ServerInv, RequestedPipe, GetPid
  <2> QED
    BY <2>1, <2>2 DEF PidMsg, Msg, GetPid
<1>4. UNCHANGED <<fs, ctl, fate, forks, mode>>
  BY DEF GetPid
<1>5. WaitPipe'
  <2>1. CASE st = <<PidMsg>>
    BY <1>2, <1>4, <2>1, ShortSeq DEF RequestedPipe, WaitPipe, Unsettled, GetPid
  <2>2. CASE st # <<PidMsg>>
    <3>1. st # <<>> /\ st' = Tail(st)
      BY DEF GetPid
    <3>2. /\ fs = "killed" \/ (fs = "read" /\ ctl = <<>>)
          /\ \E s \in Told : Carries(s) /\ st = <<PidMsg, StatusMsg(s)>>
      BY <1>2, <2>2, <3>1 DEF RequestedPipe
    <3>3. \E s \in Told : Carries(s) /\ st' = <<StatusMsg(s)>>
      BY <3>1, <3>2, ShortSeq
    <3> QED
      BY <1>4, <3>2, <3>3 DEF WaitPipe, Carries, StatusMsg, FateOf, Msg
  <2> QED
    BY <2>1, <2>2
<1>6. FlagsOK'
  BY DEF IInv, TypeOK, FlagsOK, GetPid
<1>7. TypeOK'
  BY <1>1, <1>3, <1>6 DEF IInv, TypeOK, FlagsOK, MsgType, GetPid
<1>8. (ProcInv /\ BudgetInv /\ ServerInv /\ PidInv)'
  BY <1>2, <1>3 DEF IInv, TypeOK, ProcInv, BudgetInv, ServerInv, PidInv, GetPid
<1>9. (PipeInv /\ DirectInv)'
  BY <1>2, <1>3, <1>4, <1>5 DEF PipeInv, DirectInv
<1>10. (StatusInv /\ TimerInv /\ GoneInv /\ FatalOnlyWithCause)'
  <2>1. fz = "getpid" /\ UNCHANGED <<stop_soon, timer, handler>>
    BY DEF GetPid
  <2>2. fs # "nofork"
    BY <1>2, ShortSeq DEF RequestedPipe, GetPid
  <2>3. (TimerInv /\ GoneInv)'
    BY <1>2, <1>3, <1>4, <2>1, <2>2 DEF IInv, TimerInv, GoneInv
  <2>4. (StatusInv /\ FatalOnlyWithCause)'
    BY <1>3 DEF StatusInv, FatalOnlyWithCause
  <2> QED
    BY <2>3, <2>4
<1>11. fs # "writeoff" /\ (fs = "read" => ctl = <<>>)
  BY <1>2, ShortSeq DEF RequestedPipe, GetPid
<1>12. (KillInv /\ FateInv)'
  BY <1>3, <1>11, ShortSeq DEF IInv, TypeOK, KillInv, KillKnown, FateInv,
      InCall, GetPid
<1> QED
  BY <1>7, <1>8, <1>9, <1>10, <1>12 DEF IInv

(* Without a stop, the server can be gone at this place only because fork()
   failed. *)
LEMMA GetPidFailsStep ==
  ASSUME IInv, GetPidFails, UNCHANGED mode
  PROVE  IInv'
<1>1. FlagsOK'
  BY DEF IInv, TypeOK, FlagsOK, GetPidFails, BrokenPipe
<1>2. TypeOK'
  BY <1>1 DEF IInv, TypeOK, FlagsOK, GetPidFails, BrokenPipe
<1>3. (ProcInv /\ BudgetInv /\ ServerInv /\ PidInv)'
  BY DEF IInv, ProcInv, BudgetInv, ServerInv, PidInv, GetPidFails, BrokenPipe
<1>4. (PipeInv /\ DirectInv)'
  BY ShortSeq DEF IInv, PipeInv, DirectInv, QuietPipe, HelloPipe,
      RequestedPipe, WaitPipe, Unsettled, GetPidFails, BrokenPipe
<1>5. (StatusInv /\ TimerInv /\ GoneInv /\ FatalOnlyWithCause)'
  BY ShortSeq DEF IInv, TypeOK, StatusInv, TimerInv, GoneInv,
      FatalOnlyWithCause, PidInv, DirectInv, PipeInv, ServerInv, ProcInv,
      HelloMsg, PidMsg, Unsettled, Carries, StatusMsg, QuietPipe, HelloPipe,
      RequestedPipe, WaitPipe, FateOf, Msg, GetPidFails, BrokenPipe
<1>6. (KillInv /\ FateInv)'
  BY DEF IInv, KillInv, KillKnown, FateInv, InCall, GetPidFails, BrokenPipe
<1> QED
  BY <1>2, <1>3, <1>4, <1>5, <1>6 DEF IInv

(* Without the fork server: the last process is gone when the next one is
   created. *)
LEMMA DirectForkStep ==
  ASSUME IInv, DirectFork, UNCHANGED mode
  PROVE  IInv'
<1>1. /\ ~UseForkserver /\ Fork /\ forks < MaxRuns
      /\ forks' = forks + 1 /\ forks' \in Pids /\ forks' <= run
      /\ proc' = [proc EXCEPT ![forks + 1] = "run"]
  BY DEF IInv, TypeOK, BudgetInv, PipeInv, DirectFork, Fork
<1>2. Cur = "reaped" /\ Cur' = "run"
  BY <1>1 DEF IInv, TypeOK, DirectInv, DirectFork
<1>3. FlagsOK'
  BY DEF IInv, TypeOK, FlagsOK, DirectFork
<1>4. TypeOK'
  BY <1>1, <1>3, ForkType DEF IInv, TypeOK, FlagsOK, ProcType, DirectFork
<1>5. ProcInv'
  BY <1>1, <1>2 DEF IInv, TypeOK, ProcInv, DirectFork
<1>6. (BudgetInv /\ ServerInv /\ PidInv)'
  BY <1>1 DEF BudgetInv, ServerInv, PidInv, DirectFork
<1>7. (PipeInv /\ DirectInv)'
  BY <1>1, <1>2 DEF IInv, PipeInv, DirectInv, DirectFork, Unsettled
<1>8. (StatusInv /\ TimerInv /\ GoneInv /\ FatalOnlyWithCause)'
  BY <1>1 DEF IInv, StatusInv, TimerInv, GoneInv, FatalOnlyWithCause, DirectFork
<1>9. (KillInv /\ FateInv)'
  BY <1>1, <1>2 DEF IInv, KillInv, FateInv, DirectInv, Unsettled, InCall,
      DirectFork
<1> QED
  BY <1>4, <1>5, <1>6, <1>7, <1>8, <1>9 DEF IInv

(* fork() failed: the fuzzer gives up without the fork server. *)
LEMMA DirectForkFailsStep ==
  ASSUME IInv, DirectForkFails, UNCHANGED mode
  PROVE  IInv'
<1>1. FlagsOK'
  BY DEF IInv, TypeOK, FlagsOK, DirectForkFails
<1>2. TypeOK'
  BY <1>1 DEF IInv, TypeOK, FlagsOK, DirectForkFails
<1>3. (ProcInv /\ BudgetInv /\ ServerInv /\ PidInv)'
  BY DEF IInv, ProcInv, BudgetInv, ServerInv, PidInv, DirectForkFails
<1>4. (PipeInv /\ DirectInv)'
  BY DEF IInv, PipeInv, DirectInv, DirectForkFails
<1>5. (StatusInv /\ TimerInv /\ GoneInv /\ FatalOnlyWithCause)'
  BY ShortSeq DEF IInv, TypeOK, StatusInv, TimerInv, GoneInv,
      FatalOnlyWithCause, PidInv, DirectInv, PipeInv, ServerInv, ProcInv,
      HelloMsg, PidMsg, Unsettled, Carries, StatusMsg, QuietPipe, HelloPipe,
      RequestedPipe, WaitPipe, FateOf, Msg, DirectForkFails
<1>6. (KillInv /\ FateInv)'
  BY DEF IInv, KillInv, KillKnown, FateInv, InCall, DirectForkFails
<1> QED
  BY <1>2, <1>3, <1>4, <1>5, <1>6 DEF IInv

(* From here on child_pid names the program under test. *)
LEMMA DirectPidStep ==
  ASSUME IInv, DirectPid, UNCHANGED mode
  PROVE  IInv'
<1>1. FlagsOK'
  BY DEF IInv, TypeOK, FlagsOK, DirectPid
<1>2. TypeOK'
  BY <1>1 DEF IInv, TypeOK, FlagsOK, DirectPid
<1>3. (ProcInv /\ BudgetInv /\ ServerInv /\ PidInv)'
  BY ShortSeq DEF IInv, TypeOK, ProcInv, BudgetInv, ServerInv, PidInv,
      DirectInv, PipeInv, QuietPipe, HelloPipe, RequestedPipe, WaitPipe,
      Unsettled, DirectPid
<1>4. (PipeInv /\ DirectInv)'
  BY ShortSeq DEF IInv, PipeInv, DirectInv, QuietPipe, HelloPipe,
      RequestedPipe, WaitPipe, Unsettled, DirectPid
<1>5. (StatusInv /\ TimerInv /\ GoneInv /\ FatalOnlyWithCause)'
  BY DEF IInv, StatusInv, TimerInv, GoneInv, FatalOnlyWithCause, DirectPid
<1>6. (KillInv /\ FateInv)'
  BY DEF IInv, KillInv, KillKnown, FateInv, InCall, DirectPid
<1> QED
  BY <1>2, <1>3, <1>4, <1>5, <1>6 DEF IInv

(* The timer is armed for this call. *)
LEMMA ArmStep ==
  ASSUME IInv, Arm, UNCHANGED mode
  PROVE  IInv'
<1>1. FlagsOK'
  BY DEF IInv, TypeOK, FlagsOK, Arm
<1>2. TypeOK'
  BY <1>1 DEF IInv, TypeOK, FlagsOK, Arm
<1>3. (ProcInv /\ BudgetInv /\ ServerInv /\ PidInv)'
  BY DEF IInv, ProcInv, BudgetInv, ServerInv, PidInv, Arm
<1>4. (PipeInv /\ DirectInv)'
  BY ShortSeq DEF IInv, TypeOK, PipeInv, DirectInv, HelloMsg, PidMsg,
      Unsettled, Carries, StatusMsg, QuietPipe, HelloPipe, RequestedPipe,
      WaitPipe, FateOf, Msg, Arm
<1>5. (StatusInv /\ TimerInv /\ GoneInv /\ FatalOnlyWithCause)'
  BY DEF IInv, StatusInv, TimerInv, GoneInv, FatalOnlyWithCause, Arm
<1>6. (KillInv /\ FateInv)'
  BY DEF IInv, KillInv, KillKnown, FateInv, InCall, Arm
<1> QED
  BY <1>2, <1>3, <1>4, <1>5, <1>6 DEF IInv

(* The last message in the pipe is the status of this call's program. *)
LEMMA GetStatusStep ==
  ASSUME IInv, GetStatus, UNCHANGED mode
  PROVE  IInv'
<1>1. Head(st) \in MsgType /\ st' \in Seq(MsgType)
  BY HeadType DEF IInv, TypeOK, MsgType, GetStatus
<1>2. /\ fs = "killed" \/ (fs = "read" /\ ctl = <<>>)
      /\ \E s \in Told : Carries(s) /\ st = <<StatusMsg(s)>>
  BY DEF IInv, PipeInv, WaitPipe, GetStatus
<1>3. st' = <<>> /\ Carries(status')
  BY <1>2, ShortSeq DEF StatusMsg, Msg, GetStatus
<1>4. FlagsOK'
  BY DEF IInv, TypeOK, FlagsOK, GetStatus
<1>5. TypeOK'
  BY <1>1, <1>4 DEF IInv, TypeOK, FlagsOK, MsgType, GetStatus
<1>6. (ProcInv /\ BudgetInv /\ ServerInv /\ PidInv)'
  BY DEF IInv, ProcInv, BudgetInv, ServerInv, PidInv, GetStatus
<1>7. (PipeInv /\ DirectInv)'
  BY <1>2, <1>3 DEF IInv, PipeInv, DirectInv, QuietPipe, GetStatus
<1>8. (StatusInv /\ TimerInv /\ GoneInv /\ FatalOnlyWithCause)'
  BY <1>3 DEF IInv, StatusInv, TimerInv, GoneInv, FatalOnlyWithCause, Carries,
      GetStatus
<1>9. (KillInv /\ FateInv)'
  BY DEF IInv, KillInv, KillKnown, FateInv, InCall, GetStatus
<1> QED
  BY <1>5, <1>6, <1>7, <1>8, <1>9 DEF IInv

(* Without a stop nothing can kill the server while the fuzzer waits for a
   status. *)
LEMMA GetStatusFailsStep ==
  ASSUME IInv, GetStatusFails, UNCHANGED mode
  PROVE  IInv'
<1>1. TypeOK'
  BY DEF IInv, TypeOK, GetStatusFails, BrokenPipe
<1>2. (ProcInv /\ BudgetInv /\ ServerInv /\ PidInv)'
  BY DEF IInv, ProcInv, BudgetInv, ServerInv, PidInv, GetStatusFails, BrokenPipe
<1>3. stop_soon # 0
  BY DEF IInv, TypeOK, PipeInv, GoneInv, WaitPipe, GetStatusFails, BrokenPipe
<1>4. (PipeInv /\ DirectInv)'
  BY ShortSeq, <1>3 DEF IInv, PipeInv, DirectInv, QuietPipe, WaitPipe,
      GetStatusFails, BrokenPipe
<1>5. (StatusInv /\ TimerInv /\ GoneInv /\ FatalOnlyWithCause)'
  BY <1>3 DEF IInv, StatusInv, TimerInv, GoneInv, FatalOnlyWithCause,
      GetStatusFails, BrokenPipe
<1>6. (KillInv /\ FateInv)'
  BY <1>3 DEF IInv, KillInv, FateInv, GetStatusFails, BrokenPipe
<1> QED
  BY <1>1, <1>2, <1>4, <1>5, <1>6 DEF IInv

(* Without the fork server: the program is collected by the fuzzer itself. *)
LEMMA DirectWaitStep ==
  ASSUME IInv, DirectWait, UNCHANGED mode
  PROVE  IInv'
<1>1. /\ ~UseForkserver
      /\ child_pid = forks /\ forks \in Pids /\ Cur \in Zombie
  BY DEF IInv, TypeOK, PidInv, DirectInv, DirectWait, Waitable, WaitFails
<1>2. /\ proc' = [proc EXCEPT ![forks] = "reaped"]
      /\ status' = Cur /\ fate' = FateOf(Cur)
  BY <1>1 DEF DirectWait, AfterWait
<1>3. Cur' = "reaped"
  BY <1>1, <1>2 DEF IInv, TypeOK, DirectWait
<1>4. FlagsOK'
  BY DEF IInv, TypeOK, FlagsOK, DirectWait
<1>5. TypeOK'
  <2>1. proc' \in ProcType
    BY WaitType DEF IInv, DirectWait
  <2>2. status' \in Zombie /\ fate' \in {"ended", "crashed", "killed"}
    BY <1>1, <1>2 DEF FateOf
  <2> QED
    BY <1>4, <2>1, <2>2 DEF IInv, TypeOK, FlagsOK, ProcType, DirectWait
<1>6. (ProcInv /\ BudgetInv /\ ServerInv /\ PidInv)'
  BY <1>1, <1>2 DEF IInv, TypeOK, ProcInv, BudgetInv, ServerInv, PidInv,
      DirectWait
<1>7. (PipeInv /\ DirectInv)'
  BY <1>1, <1>3 DEF IInv, PipeInv, DirectInv, DirectWait
<1>8. (StatusInv /\ TimerInv /\ GoneInv /\ FatalOnlyWithCause)'
  BY <1>1, <1>2 DEF IInv, StatusInv, Carries, TimerInv, GoneInv,
      FatalOnlyWithCause, DirectWait
<1>9. Cur = "kill" /\ stop_soon = 0 => child_timed_out
  BY DEF IInv, KillInv, KillKnown, DirectWait
<1>10. (KillInv /\ FateInv)'
  BY <1>1, <1>2, <1>3, <1>9 DEF KillInv, FateInv, FateOf, DirectWait
<1> QED
  BY <1>5, <1>6, <1>7, <1>8, <1>10 DEF IInv

(* A program that stopped keeps its PID, any other is forgotten. *)
LEMMA DropPidStep ==
  ASSUME IInv, DropPid, UNCHANGED mode
  PROVE  IInv'
<1>1. FlagsOK'
  BY DEF IInv, TypeOK, FlagsOK, DropPid
<1>2. TypeOK'
  BY <1>1 DEF IInv, TypeOK, FlagsOK, DropPid
<1>3. (ProcInv /\ BudgetInv /\ ServerInv /\ PidInv)'
  BY DEF IInv, TypeOK, ProcInv, BudgetInv, ServerInv, PidInv, DropPid
<1>4. (PipeInv /\ DirectInv)'
  BY ShortSeq DEF IInv, PipeInv, DirectInv, QuietPipe, HelloPipe,
      RequestedPipe, WaitPipe, Unsettled, DropPid
<1>5. (StatusInv /\ TimerInv /\ GoneInv /\ FatalOnlyWithCause)'
  BY DEF IInv, TypeOK, StatusInv, TimerInv, GoneInv, FatalOnlyWithCause,
      Carries, DropPid
<1>6. (KillInv /\ FateInv)'
  BY DEF IInv, KillInv, KillKnown, FateInv, InCall, DropPid
<1> QED
  BY <1>2, <1>3, <1>4, <1>5, <1>6 DEF IInv

(* No alarm of this call goes off after this point. *)
LEMMA DisarmStep ==
  ASSUME IInv, Disarm, UNCHANGED mode
  PROVE  IInv'
<1>1. FlagsOK'
  BY DEF IInv, TypeOK, FlagsOK, Disarm
<1>2. TypeOK'
  BY <1>1 DEF IInv, TypeOK, FlagsOK, Disarm
<1>3. (ProcInv /\ BudgetInv /\ ServerInv /\ PidInv)'
  BY DEF IInv, ProcInv, BudgetInv, ServerInv, PidInv, Disarm
<1>4. (PipeInv /\ DirectInv)'
  BY ShortSeq DEF IInv, PipeInv, DirectInv, QuietPipe, HelloPipe,
      RequestedPipe, WaitPipe, Unsettled, Disarm
<1>5. (StatusInv /\ TimerInv /\ GoneInv /\ FatalOnlyWithCause)'
  BY DEF IInv, TypeOK, StatusInv, TimerInv, GoneInv, FatalOnlyWithCause,
      Carries, Disarm
<1>6. (KillInv /\ FateInv)'
  BY DEF IInv, KillInv, KillKnown, FateInv, InCall, Disarm
<1> QED
  BY <1>2, <1>3, <1>4, <1>5, <1>6 DEF IInv

(* The time-out flag of this call becomes that of the last one. *)
LEMMA ReportStep ==
  ASSUME IInv, Report, UNCHANGED mode
  PROVE  IInv'
<1>1. FlagsOK'
  BY DEF IInv, TypeOK, FlagsOK, Report, Outcome
<1>2. TypeOK'
  BY <1>1 DEF IInv, TypeOK, FlagsOK, Report, Outcome
<1>3. (ProcInv /\ BudgetInv /\ ServerInv /\ PidInv)'
  BY DEF IInv, ProcInv, BudgetInv, ServerInv, PidInv, Report, Outcome
<1>4. (PipeInv /\ DirectInv)'
  BY ShortSeq DEF IInv, PipeInv, DirectInv, QuietPipe, HelloPipe,
      RequestedPipe, WaitPipe, Unsettled, Report, Outcome
<1>5. (StatusInv /\ TimerInv /\ GoneInv /\ FatalOnlyWithCause)'
  BY DEF IInv, StatusInv, TimerInv, GoneInv, FatalOnlyWithCause, Report,
      Outcome
<1>6. (KillInv /\ FateInv)'
  BY DEF IInv, KillInv, KillKnown, FateInv, InCall, Report, Outcome
<1> QED
  BY <1>2, <1>3, <1>4, <1>5, <1>6 DEF IInv

(* A stop of the fuzzer's own. *)
LEMMA SelfStopStep ==
  ASSUME IInv, SelfStop, UNCHANGED mode
  PROVE  IInv'
<1>1. FlagsOK'
  BY DEF IInv, TypeOK, FlagsOK, SelfStop
<1>2. TypeOK'
  BY <1>1 DEF IInv, TypeOK, FlagsOK, SelfStop
<1>3. (ProcInv /\ BudgetInv /\ ServerInv /\ PidInv)'
  BY DEF IInv, ProcInv, BudgetInv, ServerInv, PidInv, SelfStop
<1>4. (PipeInv /\ DirectInv)'
  BY ShortSeq DEF IInv, PipeInv, DirectInv, QuietPipe, HelloPipe,
      RequestedPipe, WaitPipe, Unsettled, SelfStop
<1>5. (StatusInv /\ TimerInv /\ GoneInv /\ FatalOnlyWithCause)'
  BY DEF IInv, StatusInv, TimerInv, GoneInv, FatalOnlyWithCause, SelfStop
<1>6. (KillInv /\ FateInv)'
  BY DEF IInv, KillInv, KillKnown, FateInv, InCall, SelfStop
<1> QED
  BY <1>2, <1>3, <1>4, <1>5, <1>6 DEF IInv

(* The kills on the way out hit the last process and the server. *)
LEMMA LeaveStep ==
  ASSUME IInv, Leave, UNCHANGED mode
  PROVE  IInv'
<1>1. FlagsOK'
  BY DEF IInv, TypeOK, FlagsOK, Leave, AfterKill
<1>2. TypeOK'
  BY <1>1 DEF IInv, TypeOK, FlagsOK, Leave, AfterKill
<1>3. (ProcInv /\ BudgetInv /\ ServerInv /\ PidInv)'
  BY DEF IInv, TypeOK, ProcInv, BudgetInv, ServerInv, PidInv, Leave, AfterKill
<1>4. (PipeInv /\ DirectInv)'
  BY ShortSeq DEF IInv, TypeOK, PipeInv, DirectInv, HelloMsg, PidMsg,
      Unsettled, Carries, StatusMsg, QuietPipe, HelloPipe, RequestedPipe,
      WaitPipe, FateOf, Msg, Leave, AfterKill
<1>5. (StatusInv /\ TimerInv /\ GoneInv /\ FatalOnlyWithCause)'
  BY DEF IInv, StatusInv, TimerInv, GoneInv, FatalOnlyWithCause, Leave,
      AfterKill
<1>6. (KillInv /\ FateInv)'
  BY DEF IInv, KillInv, KillKnown, FateInv, InCall, Leave, AfterKill
<1> QED
  BY <1>2, <1>3, <1>4, <1>5, <1>6 DEF IInv

(* The first kill of Ctrl-C hits the last process, if any. *)
LEMMA StopSigStep ==
  ASSUME IInv, StopSig, UNCHANGED mode
  PROVE  IInv'
<1>1. FlagsOK'
  BY DEF IInv, TypeOK, FlagsOK, StopSig, AfterKill
<1>2. TypeOK'
  BY <1>1 DEF IInv, TypeOK, FlagsOK, StopSig, AfterKill
<1>3. (ProcInv /\ BudgetInv /\ ServerInv /\ PidInv)'
  BY DEF IInv, ProcInv, BudgetInv, ServerInv, PidInv, StopSig, AfterKill
<1>4. (PipeInv /\ DirectInv)'
  BY ShortSeq DEF IInv, TypeOK, PipeInv, DirectInv, HelloMsg, PidMsg,
      Unsettled, Carries, StatusMsg, QuietPipe, HelloPipe, RequestedPipe,
      WaitPipe, FateOf, Msg, StopSig, AfterKill
<1>5. (StatusInv /\ TimerInv /\ GoneInv /\ FatalOnlyWithCause)'
  BY DEF IInv, TypeOK, StatusInv, TimerInv, GoneInv, FatalOnlyWithCause,
      Carries, StopSig, AfterKill
<1>6. (KillInv /\ FateInv)'
  BY DEF IInv, KillInv, KillKnown, FateInv, InCall, StopSig, AfterKill
<1> QED
  BY <1>2, <1>3, <1>4, <1>5, <1>6 DEF IInv

(* The second kill of Ctrl-C hits the server: a stop has been asked for. *)
LEMMA StopSigServerStep ==
  ASSUME IInv, StopSigServer, UNCHANGED mode
  PROVE  IInv'
<1>1. FlagsOK'
  BY DEF IInv, TypeOK, FlagsOK, StopSigServer
<1>2. TypeOK'
  BY <1>1 DEF IInv, TypeOK, FlagsOK, StopSigServer
<1>3. (ProcInv /\ BudgetInv /\ ServerInv /\ PidInv)'
  BY DEF IInv, ProcInv, BudgetInv, ServerInv, PidInv, StopSigServer
<1>4. (PipeInv /\ DirectInv)'
  BY ShortSeq DEF IInv, TypeOK, PipeInv, DirectInv, ServerInv, ProcInv,
      PidInv, GoneInv, TimerInv, StatusInv, HelloMsg, PidMsg, Unsettled,
      Carries, StatusMsg, QuietPipe, HelloPipe, RequestedPipe, WaitPipe,
      FateOf, Msg, StopSigServer
<1>5. (StatusInv /\ TimerInv /\ GoneInv /\ FatalOnlyWithCause)'
  BY DEF IInv, TypeOK, StatusInv, TimerInv, GoneInv, FatalOnlyWithCause,
      Carries, StopSigServer
<1>6. (KillInv /\ FateInv)'
  BY DEF IInv, TypeOK, KillInv, KillKnown, FateInv, InCall, PidInv, TimerInv,
      DirectInv, ProcInv, StopSigServer
<1> QED
  BY <1>2, <1>3, <1>4, <1>5, <1>6 DEF IInv

(* The alarm kills the last process, or a server that has not said hello. *)
LEMMA AlarmStep ==
  ASSUME IInv, Alarm, UNCHANGED mode
  PROVE  IInv'
<1>1. ProcInv' /\ proc' \in ProcType /\ Cur' \in {Cur, "kill"} /\ (Cur' # Cur => Cur \in Live)
  BY KillLast DEF IInv, TypeOK, ProcInv, ProcType, Alarm
<1>2. timer /\ UNCHANGED <<fz, mode, forks, st, ctl, fate,
                           stop_soon>> /\ fs' \in {fs, "killed"}
  BY DEF Alarm
<1>3. FlagsOK'
  BY DEF IInv, TypeOK, FlagsOK, Alarm
<1>4. TypeOK'
  BY <1>1, <1>2, <1>3 DEF IInv, TypeOK, FlagsOK, ProcType, Alarm
<1>5. (BudgetInv /\ PidInv)'
  BY DEF IInv, BudgetInv, PidInv, Alarm
<1>6. ServerInv'
  BY <1>1, <1>2 DEF IInv, ServerInv, DirectInv, Alarm
<1>7. fz = "spawn" \/ ~UseForkserver => fs' = fs
  BY DEF IInv, PipeInv, DirectInv, Alarm
<1>8. PipeInv'
  BY <1>2, <1>7, KilledServer DEF IInv, PipeInv, Unsettled
<1>9. DirectInv'
  BY <1>1, <1>2, <1>7 DEF IInv, DirectInv, Unsettled
<1>10. (StatusInv /\ TimerInv /\ GoneInv /\ FatalOnlyWithCause)'
  BY DEF IInv, TypeOK, StatusInv, Carries, TimerInv, GoneInv,
      FatalOnlyWithCause, PidInv, DirectInv, Alarm
<1>11. KillInv'
  <2>1. CASE child_pid > 0
    <3>1. stop_soon = 0 => fz \in {"wait", "gotstatus", "disarm"}
      BY <1>2, <2>1 DEF IInv, PidInv, TimerInv
    <3> QED
      BY <1>2, <2>1, <3>1 DEF KillInv, KillKnown, Alarm
  <2>2. CASE ~(child_pid > 0)
    <3>1. /\ UNCHANGED <<fz, proc, forks, stop_soon, ctl,
                         was_killed, prev_timed_out>>
          /\ child_timed_out => child_timed_out'
      BY <2>2 DEF Alarm
    <3>2. fz # "getpid" \/ stop_soon # 0
      BY <1>2 DEF IInv, TimerInv
    <3> QED
      BY <3>1, <3>2 DEF IInv, KillInv, KillKnown
  <2> QED
    BY <2>1, <2>2
<1>12. FateInv'
  BY DEF IInv, TypeOK, FateInv, InCall, Alarm
<1> QED
  BY <1>1, <1>4, <1>5, <1>6, <1>8, <1>9, <1>10, <1>11, <1>12 DEF IInv

(* The hello is the first message of all. *)
LEMMA FsHelloStep ==
  ASSUME IInv, FsHello, UNCHANGED mode
  PROVE  IInv'
<1>1. fs = "hello" /\ UseForkserver
  BY DEF IInv, DirectInv, FsHello
<1>2. fz = "hello" /\ ctl = <<>> /\ st = <<>> /\ forks = 0
  BY <1>1, ShortSeq DEF IInv, TypeOK, PipeInv, ServerInv, HelloPipe,
      QuietPipe, RequestedPipe, WaitPipe
<1>3. st' = <<HelloMsg>>
  BY <1>2, ShortSeq DEF HelloMsg, FsHello
<1>4. st' \in Seq(MsgType)
  BY SendType DEF IInv, TypeOK, MsgType, Msg, FsHello
<1>5. FlagsOK'
  BY DEF IInv, TypeOK, FlagsOK, FsHello
<1>6. TypeOK'
  BY <1>4, <1>5 DEF IInv, TypeOK, FlagsOK, MsgType, FsHello
<1>7. (ProcInv /\ BudgetInv /\ ServerInv /\ PidInv)'
  BY <1>1, <1>2 DEF IInv, ProcInv, BudgetInv, ServerInv, PidInv, FsHello
<1>8. (PipeInv /\ DirectInv)'
  BY <1>1, <1>2, <1>3 DEF IInv, PipeInv, DirectInv, HelloPipe, HelloMsg, FsHello
<1>9. (StatusInv /\ TimerInv /\ GoneInv /\ FatalOnlyWithCause)'
  BY <1>2 DEF IInv, StatusInv, TimerInv, GoneInv, FatalOnlyWithCause, FsHello
<1>10. (KillInv /\ FateInv)'
  BY <1>2 DEF KillInv, FateInv, InCall, FsHello
<1> QED
  BY <1>6, <1>7, <1>8, <1>9, <1>10 DEF IInv

(* The server learns of the time-out of the last call. *)
LEMMA FsReadStep ==
  ASSUME IInv, FsRead, UNCHANGED mode
  PROVE  IInv'
<1>1. FlagsOK'
  BY DEF IInv, TypeOK, FlagsOK, FsRead
<1>2. TypeOK'
  BY <1>1 DEF IInv, TypeOK, FlagsOK, FsRead
<1>3. (ProcInv /\ BudgetInv /\ ServerInv /\ PidInv)'
  BY DEF IInv, ProcInv, BudgetInv, ServerInv, PidInv, FsRead
<1>4. (PipeInv /\ DirectInv)'
  BY ShortSeq DEF IInv, PipeInv, DirectInv, QuietPipe, HelloPipe,
      RequestedPipe, WaitPipe, Unsettled, FsRead
<1>5. (StatusInv /\ TimerInv /\ GoneInv /\ FatalOnlyWithCause)'
  BY DEF IInv, TypeOK, StatusInv, TimerInv, GoneInv, FatalOnlyWithCause,
      Carries, FsRead
<1>6. (KillInv /\ FateInv)'
  BY ShortSeq DEF IInv, KillInv, KillKnown, FateInv, InCall, FsRead
<1> QED
  BY <1>2, <1>3, <1>4, <1>5, <1>6 DEF IInv

(* A stopped child that was killed meanwhile is collected. *)
LEMMA FsWriteOffStep ==
  ASSUME IInv, FsWriteOff, UNCHANGED mode
  PROVE  IInv'
<1>1. FlagsOK'
  BY DEF IInv, TypeOK, FlagsOK, FsWriteOff, MustWriteOff, Waitable, WaitFails,
      AfterWait
<1>2. TypeOK'
  BY <1>1 DEF IInv, TypeOK, FlagsOK, FsWriteOff, MustWriteOff, Waitable,
      WaitFails, AfterWait
<1>3. (ProcInv /\ BudgetInv /\ ServerInv /\ PidInv)'
  BY DEF IInv, TypeOK, ProcInv, BudgetInv, ServerInv, PidInv, FsWriteOff,
      MustWriteOff, Waitable, WaitFails, AfterWait
<1>4. (PipeInv /\ DirectInv)'
  BY ShortSeq DEF IInv, TypeOK, PipeInv, DirectInv, ServerInv, ProcInv,
      PidInv, GoneInv, TimerInv, StatusInv, HelloMsg, PidMsg, Unsettled,
      Carries, StatusMsg, QuietPipe, HelloPipe, RequestedPipe, WaitPipe,
      FateOf, Msg, FsWriteOff, MustWriteOff, Waitable, WaitFails, AfterWait
<1>5. (StatusInv /\ TimerInv /\ GoneInv /\ FatalOnlyWithCause)'
  BY DEF IInv, TypeOK, StatusInv, TimerInv, GoneInv, FatalOnlyWithCause,
      Carries, FsWriteOff, MustWriteOff, Waitable, WaitFails, AfterWait
<1>6. (KillInv /\ FateInv)'
  BY ShortSeq DEF IInv, TypeOK, KillInv, KillKnown, FateInv, InCall, PidInv,
      TimerInv, DirectInv, ProcInv, ServerInv, PipeInv, HelloMsg, PidMsg,
      Unsettled, Carries, StatusMsg, QuietPipe, HelloPipe, RequestedPipe,
      WaitPipe, FateOf, Msg, FsWriteOff, MustWriteOff, Waitable, WaitFails,
      AfterWait
<1> QED
  BY <1>2, <1>3, <1>4, <1>5, <1>6 DEF IInv

(* A stopped child is resumed, or a new one created when the last is gone. *)
LEMMA FsStartStep ==
  ASSUME IInv, FsStart, UNCHANGED mode
  PROVE  IInv'
<1>1. fs = "start" /\ UseForkserver /\ fs_child = forks
  BY DEF IInv, DirectInv, ProcInv, FsStart
<1>2. fz = "getpid" /\ Unsettled /\ ctl = <<>> /\ st = <<>>
  BY <1>1 DEF IInv, TypeOK, PipeInv, HelloPipe, QuietPipe, RequestedPipe,
      WaitPipe
<1>3. fs' = "sendpid" /\ fs_child' = forks' /\ child_stopped' = FALSE
      /\ UNCHANGED <<mode, fz, ctl, st, fate, stop_soon, handler,
                     timer, run, child_pid, child_timed_out>>
  BY <1>1 DEF FsStart, Fork
<1>4. FlagsOK'
  BY DEF IInv, TypeOK, FlagsOK, FsStart
<1>5. /\ proc' \in ProcType /\ cycle_cnt' \in [Pids -> 0 .. LoopCount]
      /\ forks' \in 0 .. MaxRuns /\ ProcInv' /\ Cur' \in {"run", "kill"}
      /\ Cur' = "kill" => Cur = "kill"
  <2>1. CASE child_stopped
    <3>1. Cur \in {"stop", "kill"} /\ forks \in Pids
      BY <1>1, <2>1 DEF IInv, TypeOK, ServerInv
    <3>2. UNCHANGED <<forks, fs_child, cycle_cnt>>
          /\ proc' = [proc EXCEPT ![forks] = IF @ = "stop" THEN "run" ELSE @]
      BY <1>1, <2>1 DEF FsStart
    <3> QED
      BY <1>1, <1>3, <3>1, <3>2 DEF IInv, TypeOK, ProcInv, ProcType
  <2>2. CASE ~child_stopped
    <3>1. Cur = "reaped" /\ forks < MaxRuns /\ forks + 1 <= run
      BY <1>1, <1>2, <2>2 DEF IInv, TypeOK, ServerInv, BudgetInv
    <3>2. Fork /\ forks' = forks + 1 /\ proc' = [proc EXCEPT ![forks + 1] = "run"]
      BY <2>2 DEF FsStart, Fork
    <3>3. proc' \in ProcType /\ cycle_cnt' \in [Pids -> 0 .. LoopCount] /\ forks' \in Pids
      BY <3>1, <3>2, ForkType DEF IInv, TypeOK
    <3>4. ProcInv'
      BY <1>1, <1>3, <3>1, <3>2, <3>3 DEF IInv, TypeOK, ProcInv, ProcType
    <3> QED
      BY <3>1, <3>2, <3>3, <3>4 DEF IInv, TypeOK
  <2> QED
    BY <2>1, <2>2
<1>6. TypeOK'
  BY <1>3, <1>4, <1>5 DEF IInv, TypeOK, FlagsOK, ProcType, FsStart
<1>7. (BudgetInv /\ ServerInv /\ PidInv)'
  BY <1>1, <1>2, <1>3, <1>5 DEF BudgetInv, ServerInv, PidInv
<1>8. (PipeInv /\ DirectInv)'
  BY <1>1, <1>2, <1>3 DEF PipeInv, DirectInv, RequestedPipe, Unsettled
<1>9. (StatusInv /\ TimerInv /\ GoneInv /\ FatalOnlyWithCause)'
  BY <1>2, <1>3 DEF IInv, StatusInv, TimerInv, GoneInv, FatalOnlyWithCause
<1>10. Cur = "kill" => stop_soon # 0
  BY <1>1, <1>2 DEF IInv, TypeOK, KillInv, KillKnown
<1>11. (KillInv /\ FateInv)'
  BY <1>2, <1>3, <1>5, <1>10 DEF KillInv, FateInv, Unsettled
<1> QED
  BY <1>5, <1>6, <1>7, <1>8, <1>9, <1>11 DEF IInv

(* fork() failed: the server exits in the middle of a request. *)
LEMMA FsForkFailsStep ==
  ASSUME IInv, FsForkFails, UNCHANGED mode
  PROVE  IInv'
<1>1. FlagsOK'
  BY DEF IInv, TypeOK, FlagsOK, FsForkFails
<1>2. TypeOK'
  BY <1>1 DEF IInv, TypeOK, FlagsOK, FsForkFails
<1>3. (ProcInv /\ BudgetInv /\ ServerInv /\ PidInv)'
  BY DEF IInv, ProcInv, BudgetInv, ServerInv, PidInv, FsForkFails
<1>4. (PipeInv /\ DirectInv)'
  BY ShortSeq DEF IInv, PipeInv, DirectInv, QuietPipe, HelloPipe,
      RequestedPipe, WaitPipe, Unsettled, FsForkFails
<1>5. (StatusInv /\ TimerInv /\ GoneInv /\ FatalOnlyWithCause)'
  BY ShortSeq DEF IInv, TypeOK, StatusInv, TimerInv, GoneInv,
      FatalOnlyWithCause, PidInv, DirectInv, PipeInv, ServerInv, ProcInv,
      HelloMsg, PidMsg, Unsettled, Carries, StatusMsg, QuietPipe, HelloPipe,
      RequestedPipe, WaitPipe, FateOf, Msg, FsForkFails
<1>6. (KillInv /\ FateInv)'
  BY DEF IInv, KillInv, KillKnown, FateInv, InCall, FsForkFails
<1> QED
  BY <1>2, <1>3, <1>4, <1>5, <1>6 DEF IInv

(* The PID message follows the request it answers. *)
LEMMA FsSendPidStep ==
  ASSUME IInv, FsSendPid, UNCHANGED mode
  PROVE  IInv'
<1>1. fs = "sendpid" /\ UseForkserver /\ fs_child = forks
  BY DEF IInv, DirectInv, ProcInv, FsSendPid
<1>2. fz = "getpid" /\ Unsettled /\ ctl = <<>> /\ st = <<>>
  BY <1>1, ShortSeq DEF IInv, TypeOK, PipeInv, HelloPipe, QuietPipe,
      RequestedPipe, WaitPipe
<1>3. st' = <<PidMsg>> /\ PidMsg' = PidMsg
  BY <1>1, <1>2, ShortSeq DEF PidMsg, Msg, FsSendPid
<1>4. st' \in Seq(MsgType)
  BY SendType DEF IInv, TypeOK, MsgType, Msg, FsSendPid
<1>5. FlagsOK'
  BY DEF IInv, TypeOK, FlagsOK, FsSendPid
<1>6. TypeOK'
  BY <1>4, <1>5 DEF IInv, TypeOK, FlagsOK, MsgType, FsSendPid
<1>7. (ProcInv /\ BudgetInv /\ ServerInv /\ PidInv)'
  BY <1>1 DEF IInv, ProcInv, BudgetInv, ServerInv, PidInv, FsSendPid
<1>8. (PipeInv /\ DirectInv)'
  BY <1>1, <1>2, <1>3 DEF PipeInv, DirectInv, RequestedPipe, Unsettled,
      FsSendPid
<1>9. (StatusInv /\ TimerInv /\ GoneInv /\ FatalOnlyWithCause)'
  BY <1>2 DEF IInv, StatusInv, TimerInv, GoneInv, FatalOnlyWithCause, FsSendPid
<1>10. (KillInv /\ FateInv)'
  BY <1>1, <1>2 DEF IInv, KillInv, KillKnown, FateInv, Unsettled, FsSendPid
<1> QED
  BY <1>6, <1>7, <1>8, <1>9, <1>10 DEF IInv

(* The fate of the program is known, and its status follows the PID message.
   *)
LEMMA FsWaitStep ==
  ASSUME IInv, FsWait, UNCHANGED mode
  PROVE  IInv'
<1>1. fs = "wait" /\ UseForkserver /\ fs_child = forks /\ forks \in Pids
  BY DEF IInv, TypeOK, DirectInv, ProcInv, ServerInv, FsWait
<1>2. Cur \in Told
  BY <1>1 DEF IInv, ServerInv, FsWait, Waitable, WaitFails
<1>3. /\ fs' = "read" /\ child_stopped' = (Cur = "stop")
      /\ st' = Append(st, StatusMsg(Cur)) /\ fate' = FateOf(Cur)
      /\ UNCHANGED <<mode, fz, ctl, stop_soon, handler, timer, run,
                     child_pid, child_timed_out, prev_timed_out, forks,
                     fs_child, was_killed>>
  BY <1>1, <1>2 DEF FsWait, WaitFails, StatusMsg
<1>4. proc' = (IF Cur = "stop" THEN proc ELSE [proc EXCEPT ![forks] = "reaped"])
  BY <1>1, <1>2 DEF FsWait, AfterWait
<1>5. Cur' = (IF Cur = "stop" THEN "stop" ELSE "reaped")
  BY <1>1, <1>3, <1>4 DEF IInv, TypeOK
<1>6. fz \in {"getpid", "arm", "wait"} /\ ctl = <<>>
      /\ st = (IF fz = "getpid" THEN <<PidMsg>> ELSE <<>>)
  <2>1. fz \in {"getpid", "arm", "wait"}
    BY <1>1 DEF IInv, TypeOK, PipeInv, HelloPipe, QuietPipe
  <2>2. CASE fz = "getpid"
    BY <1>1, <2>2 DEF IInv, PipeInv, RequestedPipe
  <2>3. CASE fz # "getpid"
    BY <1>1, <2>1, <2>3 DEF IInv, PipeInv, WaitPipe
  <2> QED
    BY <2>1, <2>2, <2>3
<1>7. FlagsOK'
  BY DEF IInv, TypeOK, FlagsOK, FsWait
<1>8. TypeOK'
  <2>1. proc' \in ProcType
    BY WaitType DEF IInv, FsWait
  <2>2. StatusMsg(Cur) \in MsgType /\ fate' \in {"ended", "crashed", "killed"}
    BY <1>2, <1>3 DEF IInv, TypeOK, StatusMsg, Msg, MsgType, FateOf
  <2>3. st' \in Seq(MsgType)
    BY <1>3, <2>2, SendType DEF IInv
  <2> QED
    BY <1>3, <1>7, <2>1, <2>2, <2>3 DEF IInv, TypeOK, FlagsOK, ProcType,
        MsgType, FsWait
<1>9. ProcInv'
  BY <1>1, <1>2, <1>3, <1>4 DEF IInv, TypeOK, ProcInv
<1>10. (BudgetInv /\ ServerInv /\ PidInv)'
  BY <1>1, <1>3, <1>5, <1>6 DEF IInv, BudgetInv, ServerInv, PidInv
<1>11. (PipeInv /\ DirectInv)'
  <2>0. PICK s \in Told : s = Cur
    BY <1>2
  <2>1. fate' = FateOf(s) /\ FateOf(s)' = FateOf(s)
        /\ StatusMsg(s)' = StatusMsg(s) /\ PidMsg' = PidMsg
    BY <1>3, <2>0 DEF FateOf, StatusMsg, PidMsg, Msg
  <2>2. st' = IF fz = "getpid" THEN <<PidMsg, StatusMsg(s)>> ELSE <<StatusMsg(s)>>
    BY <1>3, <1>6, <2>0, ShortSeq
  <2>3. fz = "getpid" => RequestedPipe'
    <3>1. ASSUME fz = "getpid"
          PROVE  \E t \in Told : Carries(t)' /\ st' = <<PidMsg', StatusMsg(t)'>>
      BY <2>0, <2>1, <2>2, <3>1 DEF Carries
    <3> QED
      BY <1>1, <1>3, <1>6, <3>1 DEF RequestedPipe
  <2>4. fz # "getpid" => WaitPipe'
    BY <1>3, <1>6, <2>1, <2>2 DEF WaitPipe, Carries
  <2> QED
    BY <1>1, <1>3, <1>6, <2>3, <2>4 DEF PipeInv, DirectInv
<1>12. (StatusInv /\ TimerInv /\ GoneInv /\ FatalOnlyWithCause)'
  BY <1>3, <1>6 DEF IInv, StatusInv, TimerInv, GoneInv, FatalOnlyWithCause
<1>13. Cur = "kill" /\ stop_soon = 0 => child_timed_out
  BY <1>1, <1>6, ShortSeq DEF IInv, KillInv, KillKnown
<1>14. (KillInv /\ FateInv)'
  BY <1>2, <1>3, <1>5, <1>13 DEF KillInv, FateInv, FateOf
<1> QED
  BY <1>8, <1>9, <1>10, <1>11, <1>12, <1>14 DEF IInv

(* The server ends after the fuzzer. *)
LEMMA FsEofStep ==
  ASSUME IInv, FsEof, UNCHANGED mode
  PROVE  IInv'
<1>1. FlagsOK'
  BY DEF IInv, TypeOK, FlagsOK, FsEof
<1>2. TypeOK'
  BY <1>1 DEF IInv, TypeOK, FlagsOK, FsEof
<1>3. (ProcInv /\ BudgetInv /\ ServerInv /\ PidInv)'
  BY DEF IInv, ProcInv, BudgetInv, ServerInv, PidInv, FsEof
<1>4. (PipeInv /\ DirectInv)'
  BY ShortSeq DEF IInv, PipeInv, DirectInv, QuietPipe, HelloPipe,
      RequestedPipe, WaitPipe, Unsettled, FsEof
<1>5. (StatusInv /\ TimerInv /\ GoneInv /\ FatalOnlyWithCause)'
  BY DEF IInv, StatusInv, TimerInv, GoneInv, FatalOnlyWithCause, FsEof
<1>6. (KillInv /\ FateInv)'
  BY DEF IInv, KillInv, KillKnown, FateInv, InCall, FsEof
<1> QED
  BY <1>2, <1>3, <1>4, <1>5, <1>6 DEF IInv

(* The program that ends or stops is the last one. *)
LEMMA ChildEndStep ==
  ASSUME IInv, NEW p \in Pids, ChildEnd(p), UNCHANGED mode
  PROVE  IInv'
<1>1. p = forks /\ Cur = "run"
  <2>1. proc[p] = "run"
    BY DEF ChildEnd
  <2>2. p = forks
    BY <2>1, LastProcess DEF IInv
  <2> QED
    BY <2>1, <2>2
<1>2. /\ Cur' \in {"stop", "exit", "signal"}
      /\ UNCHANGED <<mode, fuzzVars, fsVars, forks, pipes, fate>>
  BY <1>1 DEF IInv, TypeOK, ChildEnd
<1>3. TypeOK'
  <2>1. proc' \in ProcType
    BY DEF IInv, TypeOK, ProcType, ChildEnd
  <2>2. cycle_cnt[p] > 1 => cycle_cnt[p] - 1 \in 0 .. LoopCount
    BY DEF IInv, TypeOK
  <2>3. cycle_cnt' \in [Pids -> 0 .. LoopCount]
    BY <2>2 DEF IInv, TypeOK, ChildEnd
  <2>4. FlagsOK'
    BY <1>2 DEF IInv, TypeOK, FlagsOK
  <2> QED
    BY <1>2, <2>1, <2>3, <2>4 DEF IInv, TypeOK, FlagsOK, ProcType
<1>4. ProcInv'
  BY <1>1, <1>2 DEF IInv, TypeOK, ProcInv, ChildEnd
<1>5. (BudgetInv /\ ServerInv /\ PidInv)'
  BY <1>1, <1>2 DEF IInv, BudgetInv, ServerInv, PidInv
<1>6. (PipeInv /\ DirectInv)'
  BY <1>1, <1>2 DEF IInv, PipeInv, DirectInv, QuietPipe, HelloPipe,
      RequestedPipe, WaitPipe,
                  Unsettled, Carries, FateOf, StatusMsg, PidMsg, HelloMsg, Msg
<1>7. (StatusInv /\ TimerInv /\ GoneInv /\ FatalOnlyWithCause)'
  BY <1>2 DEF IInv, StatusInv, Carries, FateOf, TimerInv, GoneInv,
      FatalOnlyWithCause
<1>8. (KillInv /\ FateInv)'
  BY <1>2 DEF IInv, KillInv, FateInv, InCall
<1> QED
  BY <1>3, <1>4, <1>5, <1>6, <1>7, <1>8 DEF IInv

(* The program that crashes is the last one. *)
LEMMA ChildCrashStep ==
  ASSUME IInv, NEW p \in Pids, ChildCrash(p), UNCHANGED mode
  PROVE  IInv'
<1>1. p = forks /\ Cur = "run"
  <2>1. proc[p] = "run"
    BY DEF ChildCrash
  <2>2. p = forks
    BY <2>1, LastProcess DEF IInv
  <2> QED
    BY <2>1, <2>2
<1>2. /\ Cur' \in {"stop", "exit", "signal"}
      /\ UNCHANGED <<mode, fuzzVars, fsVars, forks, pipes, fate>>
  BY <1>1 DEF IInv, TypeOK, ChildCrash
<1>3. TypeOK'
  <2>1. proc' \in ProcType
    BY DEF IInv, TypeOK, ProcType, ChildCrash
  <2>2. cycle_cnt[p] > 1 => cycle_cnt[p] - 1 \in 0 .. LoopCount
    BY DEF IInv, TypeOK
  <2>3. cycle_cnt' \in [Pids -> 0 .. LoopCount]
    BY <2>2 DEF IInv, TypeOK, ChildCrash
  <2>4. FlagsOK'
    BY <1>2 DEF IInv, TypeOK, FlagsOK
  <2> QED
    BY <1>2, <2>1, <2>3, <2>4 DEF IInv, TypeOK, FlagsOK, ProcType
<1>4. ProcInv'
  BY <1>1, <1>2 DEF IInv, TypeOK, ProcInv, ChildCrash
<1>5. (BudgetInv /\ ServerInv /\ PidInv)'
  BY <1>1, <1>2 DEF IInv, BudgetInv, ServerInv, PidInv
<1>6. (PipeInv /\ DirectInv)'
  BY <1>1, <1>2 DEF IInv, PipeInv, DirectInv, QuietPipe, HelloPipe,
      RequestedPipe, WaitPipe,
                  Unsettled, Carries, FateOf, StatusMsg, PidMsg, HelloMsg, Msg
<1>7. (StatusInv /\ TimerInv /\ GoneInv /\ FatalOnlyWithCause)'
  BY <1>2 DEF IInv, StatusInv, Carries, FateOf, TimerInv, GoneInv,
      FatalOnlyWithCause
<1>8. (KillInv /\ FateInv)'
  BY <1>2 DEF IInv, KillInv, FateInv, InCall
<1> QED
  BY <1>3, <1>4, <1>5, <1>6, <1>7, <1>8 DEF IInv

-----------------------------------------------------------------------------
(* The invariant. *)

(* A session begins in a state of the invariant. *)
LEMMA InitIInv == Init => IInv
<1> SUFFICES ASSUME Init PROVE IInv
  OBVIOUS
<1>1. proc = [p \in Pids |-> "none"] /\ cycle_cnt = [p \in Pids |-> 0] /\ forks = 0
  BY DEF Init
<1>2. TypeOK
  <2>1. FlagsOK
    BY DEF Init, FlagsOK
  <2>2. proc \in ProcType /\ cycle_cnt \in [Pids -> 0 .. LoopCount]
    BY <1>1 DEF ProcType
  <2>3. ctl \in Seq(BOOLEAN) /\ st \in Seq(MsgType)
    BY DEF Init
  <2> QED
    BY <2>1, <2>2, <2>3 DEF Init, TypeOK, FlagsOK, ProcType, MsgType
<1>3. ProcInv /\ BudgetInv /\ ServerInv /\ PidInv
  BY <1>1 DEF Init, ProcInv, BudgetInv, ServerInv, PidInv
<1>4. PipeInv /\ DirectInv
  BY <1>1 DEF Init, PipeInv, DirectInv, QuietPipe
<1>5. StatusInv /\ TimerInv /\ GoneInv /\ KillInv /\ FateInv /\ FatalOnlyWithCause
  BY <1>1 DEF Init, StatusInv, TimerInv, GoneInv, KillInv, FateInv,
      FatalOnlyWithCause, InCall
<1> QED
  BY <1>2, <1>3, <1>4, <1>5 DEF IInv

(* A step that changes nothing changes no part of the invariant. *)
LEMMA StutterStep ==
  ASSUME IInv, UNCHANGED vars
  PROVE  IInv'
<1>1. UNCHANGED <<mode, fuzzVars, fsVars, childVars, pipes, fate>>
  BY DEF vars
<1>2. (TypeOK /\ ProcInv /\ BudgetInv /\ ServerInv /\ PidInv)'
  BY <1>1 DEF IInv, TypeOK, ProcInv, BudgetInv, ServerInv, PidInv
<1>3. (PipeInv /\ DirectInv)'
  BY <1>1 DEF IInv, PipeInv, DirectInv, QuietPipe, HelloPipe, RequestedPipe,
      WaitPipe,
              Unsettled, Carries, FateOf, StatusMsg, PidMsg, HelloMsg, Msg
<1>4. (StatusInv /\ TimerInv /\ GoneInv /\ KillInv /\ FateInv /\ FatalOnlyWithCause)'
  BY <1>1 DEF IInv, StatusInv, Carries, FateOf, TimerInv, GoneInv, KillInv,
      KillKnown,
              FateInv, FatalOnlyWithCause, InCall
<1> QED
  BY <1>2, <1>3, <1>4 DEF IInv

(* IInv is inductive. *)
LEMMA NextIInv == IInv /\ [Next]_vars => IInv'
<1> SUFFICES ASSUME IInv, [Next]_vars PROVE IInv'
  OBVIOUS
<1>1. CASE Startup /\ UNCHANGED mode
  BY <1>1, SpawnStep, HelloArrivesStep, HelloFailsStep, HelloDisarmStep DEF
      Startup
<1>2. CASE RunTarget /\ UNCHANGED mode
  BY <1>2, BeginStep, RequestStep, RequestFailsStep, GetPidStep,
      GetPidFailsStep,
     DirectForkStep, DirectForkFailsStep, DirectPidStep, ArmStep, GetStatusStep,
     GetStatusFailsStep, DirectWaitStep, DropPidStep, DisarmStep, ReportStep
  DEF RunTarget
<1>3. CASE (SelfStop \/ Leave \/ StopSig \/ StopSigServer \/ Alarm) /\ UNCHANGED mode
  BY <1>3, SelfStopStep, LeaveStep, StopSigStep, StopSigServerStep, AlarmStep
<1>4. CASE Server /\ UNCHANGED mode
  BY <1>4, FsHelloStep, FsReadStep, FsWriteOffStep, FsStartStep,
      FsForkFailsStep,
     FsSendPidStep, FsWaitStep, FsEofStep DEF Server
<1>5. ASSUME NEW p \in Pids, ChildEnd(p) \/ ChildCrash(p), UNCHANGED mode
      PROVE  IInv'
  BY <1>5, ChildEndStep, ChildCrashStep
<1>6. CASE UNCHANGED vars
  BY <1>6, StutterStep
<1> QED
  BY <1>1, <1>2, <1>3, <1>4, <1>5, <1>6 DEF Next, Step, Over

(* Between status and request no process runs, at most one lives, and what *)
(* is read from the status pipe is what the reader takes it for.           *)
LEMMA IInvSound == IInv => CallsSound
<1> SUFFICES ASSUME IInv PROVE CallsSound
  OBVIOUS
<1>1. OneProgram
  BY LastProcess DEF IInv, OneProgram
<1>2. TraceQuiet
  <2> SUFFICES ASSUME stop_soon = 0, fz \in {"idle", "request", "gotstatus", "disarm", "report"}
               PROVE  Cur # "run"
    BY LastProcess DEF IInv, TraceQuiet
  <2>1. CASE UseForkserver
    BY <2>1 DEF IInv, PipeInv, QuietPipe, ServerInv, GoneInv
  <2>2. CASE ~UseForkserver
    BY <2>2 DEF IInv, DirectInv
  <2> QED
    BY <2>1, <2>2
<1>3. PipeInStep
  <2>1. ASSUME fz = "getpid", st # <<>>
        PROVE  Head(st) = Msg("pid", fs_child, "-")
    BY <2>1, ShortSeq DEF IInv, PipeInv, DirectInv, ProcInv, RequestedPipe,
        PidMsg
  <2>2. ASSUME fz = "wait", st # <<>>
        PROVE  child_pid = fs_child /\ Head(st).kind = "status" /\ Len(st) = 1
    <3>1. UseForkserver /\ \E s \in Told : st = <<StatusMsg(s)>>
      BY <2>2 DEF IInv, PipeInv, DirectInv, WaitPipe
    <3> QED
      BY <2>2, <3>1, ShortSeq DEF IInv, PidInv, ProcInv, StatusMsg, Msg
  <2> QED
    BY <2>1, <2>2 DEF PipeInStep
<1> QED
  BY <1>1, <1>2, <1>3 DEF IInv, CallsSound

(* Whatever is run and however the signals fall, the pipes of run_target   *)
(* and the fork server stay in step, the trace is quiet while the fuzzer   *)
(* reads it, one program exists at a time and the fuzzer gives up for a    *)
(* cause only (src/afl-fuzz.c:2490-2830).                                  *)
THEOREM CallsAreSound == Spec => []CallsSound
<1>1. Spec => []IInv
  BY InitIInv, NextIInv, PTL DEF Spec
<1> QED
  BY <1>1, IInvSound, PTL

-----------------------------------------------------------------------------
(* ForkServer implements ExecOracle. *)

(* Both begin before or at the first call. *)
LEMMA OracleInit == Init => Oracle!Init
  BY DEF Init, Oracle!Init

(* The handshake with the server is one step of the oracle, its end. *)
LEMMA OracleStartup ==
  ASSUME Startup, UNCHANGED mode
  PROVE  [Oracle!Next]_Oracle!vars
<1>1. CASE Spawn \/ HelloArrives
  BY <1>1 DEF Spawn, HelloArrives, Oracle!vars
<1>2. CASE HelloFails
  BY <1>2 DEF HelloFails, Oracle!vars, Oracle!Next, Oracle!Leave
<1>3. CASE HelloDisarm
  BY <1>3 DEF HelloDisarm, Oracle!vars, Oracle!Next, Oracle!Boot
<1> QED
  BY <1>1, <1>2, <1>3 DEF Startup

(* A call of run_target is a Call, the Settle of waitpid when there is no  *)
(* fork server, and a Return with the code of the fate that was settled.    *)
LEMMA OracleCall ==
  ASSUME IInv, RunTarget, UNCHANGED mode
  PROVE  [Oracle!Next]_Oracle!vars
<1>1. CASE Begin
  BY <1>1 DEF Begin, Oracle!vars, Oracle!Next, Oracle!Call
<1>2. CASE Request \/ DirectFork \/ DirectPid \/ Arm \/ GetStatus \/ DropPid \/ Disarm
  BY <1>2 DEF Request, DirectFork, DirectPid, Arm, GetStatus, DropPid, Disarm,
      Oracle!vars
<1>3. CASE RequestFails \/ GetPidFails \/ GetStatusFails
  <2>1. PICK from \in {"request", "getpid", "wait"} : BrokenPipe(from)
    BY <1>3 DEF RequestFails, GetPidFails, GetStatusFails
  <2>2. CASE stop_soon # 0
    BY <2>1, <2>2 DEF BrokenPipe, Oracle!vars, Oracle!Next, Oracle!Return
  <2>3. CASE stop_soon = 0
    BY <2>1, <2>3 DEF BrokenPipe, Oracle!vars, Oracle!Next, Oracle!Leave
  <2> QED
    BY <2>2, <2>3 
<1>4. CASE GetPid
  BY <1>4 DEF GetPid, Oracle!vars, Oracle!Next, Oracle!Leave
<1>5. CASE DirectForkFails
  BY <1>5 DEF DirectForkFails, Oracle!vars, Oracle!Next, Oracle!Leave
<1>6. CASE DirectWait
  <2>1. /\ ~UseForkserver
        /\ child_pid = forks /\ forks \in Pids /\ Cur \in Zombie /\ fate' = FateOf(Cur)
        /\ Unsettled
    BY <1>6 DEF IInv, TypeOK, PidInv, DirectInv, DirectWait, Waitable, WaitFails
  <2>2. Cur = "kill" /\ stop_soon = 0 => child_timed_out
    BY <1>6 DEF IInv, KillInv, KillKnown, DirectWait
  <2>3. fz = "wait" /\ fz' = "gotstatus" /\ UNCHANGED
                                                        <<run,
                                                        child_timed_out,
                                                        stop_soon,
                                                        verdict>>
    BY <1>6 DEF DirectWait
  <2>4. fate' \in {"ended", "crashed", "killed"} /\ (fate' = "killed" => Cur = "kill")
    BY <2>1 DEF FateOf
  <2> QED
    BY <2>2, <2>1, <2>3, <2>4 DEF Oracle!Next, Oracle!Settle, Unsettled
<1>7. CASE Report
  <2>1. fz = "report" /\ fz' = "idle" /\ verdict' = Outcome /\ UNCHANGED
                                                                           <<run,
                                                                           fate,
                                                                           child_timed_out,
                                                                           stop_soon>>
    BY <1>7 DEF Report
  <2>2. status \in Told /\ fate = FateOf(status)
    BY <2>1 DEF IInv, StatusInv, Carries
  <2>3. stop_soon = 0 /\ fate = "killed" => child_timed_out
    BY <2>1 DEF IInv, FateInv, InCall
  <2>4. fate # "running"
    BY <2>2 DEF FateOf
  <2>5. Outcome = IF stop_soon # 0 THEN "FAULT_NONE" ELSE Oracle!FaultOf(fate)
    BY <2>2, <2>3 DEF FateOf, Outcome, Oracle!FaultOf
  <2> QED
    BY <2>1, <2>4, <2>5 DEF Oracle!Next, Oracle!Return
<1> QED
  BY <1>1, <1>2, <1>3, <1>4, <1>5, <1>6, <1>7 DEF RunTarget

(* A signal is a Stop or an Expire of the oracle; a kill changes no fate. *)
LEMMA OracleSignals ==
  ASSUME IInv, SelfStop \/ Leave \/ StopSig \/ StopSigServer \/ Alarm, UNCHANGED mode
  PROVE  [Oracle!Next]_Oracle!vars
<1>1. CASE SelfStop
  BY <1>1 DEF SelfStop, Oracle!vars, Oracle!Next, Oracle!Stop
<1>2. CASE Leave
  BY <1>2 DEF Leave, Oracle!vars, Oracle!Next, Oracle!Leave
<1>3. CASE StopSig
  BY <1>3 DEF StopSig, Oracle!vars, Oracle!Next, Oracle!Stop
<1>4. CASE StopSigServer
  BY <1>4 DEF StopSigServer, Oracle!vars
<1>5. CASE Alarm
  <2>1. UNCHANGED <<fz, run, fate, stop_soon, verdict>> /\ fz \notin
                    {"done", "fatal"}
    BY <1>5 DEF Alarm
  <2>2. child_timed_out' = TRUE \/ UNCHANGED child_timed_out
    BY <1>5 DEF Alarm
  <2>3. CASE child_timed_out' = TRUE
    BY <2>1, <2>3 DEF IInv, TypeOK, Oracle!Next, Oracle!Expire
  <2>4. CASE UNCHANGED child_timed_out
    BY <2>1, <2>4 DEF Oracle!vars
  <2> QED
    BY <2>2, <2>3, <2>4
<1> QED
  BY <1>1, <1>2, <1>3, <1>4, <1>5

(* The fork server's waitpid is the Settle of the call in progress. *)
LEMMA OracleServer ==
  ASSUME IInv, Server, UNCHANGED mode
  PROVE  [Oracle!Next]_Oracle!vars
<1>1. CASE FsHello \/ FsRead \/ FsWriteOff \/ FsStart \/ FsForkFails \/ FsSendPid \/ FsEof
  BY <1>1 DEF FsHello, FsRead, FsWriteOff, FsStart, FsForkFails, FsSendPid,
      FsEof, Oracle!vars
<1>2. CASE FsWait
  <2>1. UseForkserver /\ fs = "wait" /\ fs_child = forks /\ Cur \in Told /\ fate' = FateOf(Cur)
    BY <1>2 DEF IInv, TypeOK, DirectInv, ProcInv, ServerInv, FsWait, Waitable,
        WaitFails
  <2>2. fz \in {"getpid", "arm", "wait"} /\ Unsettled
    BY <2>1 DEF IInv, TypeOK, PipeInv, HelloPipe, QuietPipe, RequestedPipe,
        WaitPipe
  <2>3. Cur = "kill" /\ stop_soon = 0 => child_timed_out
    BY <2>1, <2>2 DEF IInv, KillInv, KillKnown
  <2>4. UNCHANGED <<fz, run, child_timed_out, stop_soon, verdict>>
    BY <1>2 DEF FsWait
  <2>5. fate' \in {"ended", "crashed", "killed"} /\ (fate' = "killed" => Cur = "kill")
    BY <2>1 DEF FateOf
  <2> QED
    BY <2>2, <2>3, <2>4, <2>5 DEF Oracle!Next, Oracle!Settle, Unsettled
<1> QED
  BY <1>1, <1>2 DEF Server

(* Every step is a step of the oracle, or none that it sees. *)
LEMMA OracleStep == IInv /\ [Next]_vars => [Oracle!Next]_Oracle!vars
<1> SUFFICES ASSUME IInv, [Next]_vars PROVE [Oracle!Next]_Oracle!vars
  OBVIOUS
<1>1. ASSUME NEW p \in Pids, ChildEnd(p) \/ ChildCrash(p)
      PROVE  [Oracle!Next]_Oracle!vars
  BY <1>1 DEF ChildEnd, ChildCrash, Oracle!vars
<1>2. CASE UNCHANGED vars
  BY <1>2 DEF vars, Oracle!vars
<1> QED
  BY <1>1, <1>2, OracleStartup, OracleCall, OracleSignals, OracleServer DEF
      Next, Step, Over

(* Each call of run_target returns the fault code of what became of the    *)
(* program in this very call: no status, kill or time-out of an earlier    *)
(* call is ever taken for its own (src/afl-fuzz.c:2650-2830).              *)
THEOREM CallsMatchTheOracle == Spec => Refinement
<1>1. Spec => []IInv
  BY InitIInv, NextIInv, PTL DEF Spec
<1> QED
  BY <1>1, OracleInit, OracleStep, PTL DEF Spec, Refinement, Oracle!Spec
===============================================================================
