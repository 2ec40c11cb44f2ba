------------------------------ MODULE QemuServer ------------------------------
(***************************************************************************)
(* The fork server in the patched emulator.  A child asks its parent, over *)
(* a pipe made for it, to translate every block it translates itself, so   *)
(* that later children are forked with the translation; the parent reads   *)
(* that pipe until no process holds its other end, and only then takes the *)
(* child's status to the fuzzer.  A process that the program forks has the *)
(* pipe as well, asks over it, and can outlive the child.                  *)
(***************************************************************************)
EXTENDS Integers, Sequences, FiniteSets

CONSTANTS QemuBlocks,       \* blocks of the program
          MaxChildren,      \* bound on the runs
          PipeRoom,         \* requests that fit into the pipe
          MaxExecuted       \* bound on the blocks of a run

ASSUME QemuAssumption == MaxChildren \in Nat /\ PipeRoom \in Nat \ {0} /\ MaxExecuted \in Nat

VARIABLES
  qServer,      \* "read", "collect", "waitpid", or the code of its exit
  qProc,        \* of the child and of the process it forks: "none", "runs", "writes", "ended"
  tbServer, tbProc,    \* translations of the parent and of the two
  tslPipe,      \* requests on the way
  asks,         \* the block of a request that is being written
  requested,    \* blocks that were ever asked for
  qRuns, blocksRun, answers

qemuVars == <<qServer, qProc, tbServer, tbProc, tslPipe, asks, requested, qRuns, blocksRun, answers>>
Runtime == <<tbProc, asks, blocksRun>>

Procs == {"child", "grandchild"}

QemuInit ==
  /\ qServer = "read" /\ qProc = [p \in Procs |-> "none"]
  /\ tbServer = {} /\ tbProc = [p \in Procs |-> {}]
  /\ tslPipe = <<>> /\ asks = [p \in Procs |-> "none"] /\ requested = {}
  /\ qRuns = 0 /\ blocksRun = 0 /\ answers = 0

(* afl_forkserver: go, a new pipe, a child with the parent's translations. *)
QemuFork ==
  /\ qServer = "read" /\ qRuns < MaxChildren
  /\ \/ /\ qServer' = "collect" /\ qRuns' = qRuns + 1 /\ blocksRun' = 0
        /\ qProc' = [qProc EXCEPT !["child"] = "runs"]
        /\ tbProc' = [tbProc EXCEPT !["child"] = tbServer]
     \/ qServer' \in {"exit 2", "exit 3", "exit 4"} /\ UNCHANGED <<qProc, tbProc, qRuns, blocksRun>>
  /\ UNCHANGED <<tbServer, tslPipe, asks, requested, answers>>

(* A block without a translation is asked for before it is translated. *)
ExecuteBlock(p, b) ==
  /\ qProc[p] = "runs" /\ blocksRun < MaxExecuted
  /\ blocksRun' = blocksRun + 1
  /\ IF b \in tbProc[p] THEN UNCHANGED <<qProc, asks, tbProc>>
     ELSE /\ qProc' = [qProc EXCEPT ![p] = "writes"] /\ asks' = [asks EXCEPT ![p] = b]
          /\ tbProc' = [tbProc EXCEPT ![p] = tbProc[p] \cup {b}]
  /\ UNCHANGED <<qServer, tbServer, tslPipe, requested, qRuns, answers>>

(* The write waits while the pipe is full. *)
afl_request_tsl(p) ==
  /\ qProc[p] = "writes" /\ Len(tslPipe) < PipeRoom
  /\ tslPipe' = Append(tslPipe, asks[p]) /\ requested' = requested \cup {asks[p]}
  /\ qProc' = [qProc EXCEPT ![p] = "runs"] /\ asks' = [asks EXCEPT ![p] = "none"]
  /\ UNCHANGED <<qServer, tbServer, tbProc, qRuns, blocksRun, answers>>

ProgramForks ==
  /\ qProc["child"] = "runs" /\ qProc["grandchild"] = "none"
  /\ qProc' = [qProc EXCEPT !["grandchild"] = "runs"]
  /\ tbProc' = [tbProc EXCEPT !["grandchild"] = tbProc["child"]]
  /\ UNCHANGED <<qServer, tbServer, tslPipe, asks, requested, qRuns, blocksRun, answers>>

(* A process ends, or the fuzzer's timer kills the child, also in a write. *)
ProcessEnds(p) ==
  /\ qProc[p] \in {"runs", "writes"}
  /\ qProc' = [qProc EXCEPT ![p] = "ended"] /\ asks' = [asks EXCEPT ![p] = "none"]
  /\ UNCHANGED <<qServer, tbServer, tbProc, tslPipe, requested, qRuns, blocksRun, answers>>

(* afl_wait_tsl: a request that was read is translated unless it is known. *)
MirrorBlock ==
  /\ qServer = "collect" /\ tslPipe # <<>>
  /\ tbServer' = tbServer \cup {Head(tslPipe)} /\ tslPipe' = Tail(tslPipe)
  /\ UNCHANGED <<qServer, qProc, Runtime, requested, qRuns, answers>>

(* The end of the pipe: it is empty and nobody can write any more. *)
PipeBroken == tslPipe = <<>> /\ \A p \in Procs : qProc[p] \in {"none", "ended"}

EndCollection ==
  /\ qServer = "collect" /\ PipeBroken /\ qServer' = "waitpid"
  /\ UNCHANGED <<qProc, tbServer, Runtime, tslPipe, requested, qRuns, answers>>

(* The status goes to the fuzzer; the process of the program is init's. *)
RelayStatus ==
  /\ qServer = "waitpid" /\ qProc["child"] = "ended"
  /\ \/ qServer' = "read" /\ answers' = answers + 1 /\ qProc' = [p \in Procs |-> "none"]
     \/ qServer' \in {"exit 6", "exit 7"} /\ UNCHANGED <<qProc, answers>>
  /\ UNCHANGED <<tbServer, Runtime, tslPipe, requested, qRuns>>

QemuNext ==
  \/ QemuFork
  \/ \E p \in Procs : (\E b \in QemuBlocks : ExecuteBlock(p, b)) \/ afl_request_tsl(p) \/ ProcessEnds(p)
  \/ ProgramForks \/ MirrorBlock \/ EndCollection \/ RelayStatus

QemuSpec == QemuInit /\ [][QemuNext]_qemuVars

-----------------------------------------------------------------------------
(* Between two runs the parent has every translation that any process has  *)
(* asked for, in whatever order they ended and were killed, so that no     *)
(* later child asks again; none of them is left, and every child was       *)
(* answered for (src/qemu_mode/patches/afl-qemu-cpu-inl.h:162-311).        *)
TranslatedOnce ==
  /\ qServer \in {"read", "waitpid"} => requested \subseteq tbServer /\ tslPipe = <<>>
  /\ qServer = "read" => answers = qRuns /\ \A p \in Procs : qProc[p] \in {"none", "ended"}
================================================================================
