-------------------------------- MODULE Jobs ---------------------------------
(***************************************************************************)
(* The instance that checks the work on one file or one program: what      *)
(* fuzz_one does to a seed, the command-line tools, the start and the      *)
(* instrumentation of a program, each one on its own: part says which.     *)
(***************************************************************************)
EXTENDS Stages, Havoc, ByteOps, Trim, Tmin, Analyze, ToolRun,
        Build, AsScan, Trampoline, Launch, ProgramSide

(* Stages: two user tokens and an auto token, two interesting values of a width. *)
MCIntValues == [w \in {1, 2, 4} |-> 2]
MCExtraLens == <<1, 2>>
MCAutoLens  == <<2>>

(* Havoc, its buffer: block sizes. *)
MCBlocks == <<1, 2, 3, 4>>

(* Tmin: all files of up to four bytes of three kinds, and programs that   *)
(* look for a pattern, for a parity, crash or hang.                        *)
MCOriginals == UNION {[1 .. n -> {"0", "a", "b"}] : n \in 1 .. 4}
MCPrograms ==
  {[kind |-> "sub", pattern |-> <<"a", "b">>], [kind |-> "even", pattern |-> <<"a">>],
   [kind |-> "crash", pattern |-> <<"b", "a">>], [kind |-> "hang", pattern |-> <<>>]}

(* Analyze: files, and programs with magic fields, tags and bytes on which they hang. *)
MCFiles == {<<1, 0, 200, 7>>, <<65, 66, 1, 0, 250>>, <<17, 220, 3, 4>>, <<9, 8, 7, 6, 5, 4>>}
Reads(m, t, h) == [magic |-> m, tags |-> t, hang |-> h]
MCParsers ==
  {Reads(<<1 .. 6>>, {}, {}), Reads(<<{1, 2}, {3, 4}>>, {}, {}), Reads(<<{2}>>, {1}, {4}),
   Reads(<<{1, 2}, {4}>>, {}, {3}), Reads(<<{1}, {2}>>, {3, 4}, {}), Reads(<<>>, {2, 3}, {1}),
   Reads(<<{1, 2, 3}>>, {1}, {}), Reads(<<{3, 4}, {1, 2}>>, {}, {})}

(* Build: flags given to the compiler, and variables of the environment. *)
MCFlags ==
  {{}, {"-fsanitize=address", "-B"}, {"-fsanitize=memory", "-x"}, {"-D_FORTIFY_SOURCE", "-pipe", "-m32"}}
MCEnvs ==
  {{}, {"AFL_USE_ASAN"}, {"AFL_USE_MSAN", "AFL_PATH"}, {"AFL_USE_ASAN", "AFL_USE_MSAN"},
   {"AFL_HARDEN", "AFL_PATH"}, {"AFL_HARDEN", "AFL_USE_ASAN"}, {"AFL_KEEP_ASSEMBLY"}}

(* AsScan: short files of labels, alignments and instructions, and of the  *)
(* directives that switch the instrumentation off.                         *)
MCScans ==
  {[kinds |-> {"text", "data", "p2align", "func", "branch", "insn"}, max |-> 4],
   [kinds |-> {"text", "code32", "code64", "intel_syntax", "att_syntax", "#APP", "#NO_APP", "jcc",
               "comment", "local"}, max |-> 3]}

(* Launch: arguments with no, one and two marks; PATH with and without the program. *)
MCArgLists  == {<<0>>, <<1>>, <<0, 2>>, <<>>}
MCPathLists == {<<>>, <<TRUE>>, <<FALSE, TRUE, TRUE>>}

(* LlvmPass: two targets that share a function and a line; their files in  *)
(* the same and in another order, one missing, a graph that is too long,   *)
(* and no target at all.  m has no debug information.                      *)
Target(n, funcs, nodes) == [name |-> n, funcs |-> funcs, nodes |-> nodes]
Node(file, line, score) == [line |-> <<file, line>>, score |-> score]
TargetOne == Target("t1", {<<"a", "f">>, <<"b", "h">>}, <<Node("a", 1, 9), Node("a", 2, 5), Node("b", 2, 1)>>)
TargetTwo == Target("t2", {<<"a", "f">>, <<"a", "g">>, <<"b", "m">>},
             <<Node("a", 2, 4), Node("a", 3, 8), Node("a", 2, 6)>>)
TooLong == Target("t2", {<<"a", "g">>}, [k \in 1 .. 4 |-> Node("a", k, k)])
PassFunctions ==
  <<[file |-> "a", name |-> "f", blocks |-> <<{1, 2}, {}, {2, 3}>>],
    [file |-> "a", name |-> "g", blocks |-> <<{2}, {3, 4}>>],
    [file |-> "b", name |-> "h", blocks |-> <<{2}>>],
    [file |-> "none", name |-> "m", blocks |-> <<{0}>>],
    [file |-> "b", name |-> "g", blocks |-> <<{3}>>]>>
MCPassInputs ==
  [select : {<<>>, <<TargetOne>>, <<TargetOne, TargetTwo>>, <<TargetTwo, TargetOne>>}, dfg : {<<>>, <<TargetOne>>, <<TargetOne, TargetTwo>>, <<TargetTwo, TargetOne>>, <<TargetOne, TooLong>>},
   source : {"a"}, funcs : {PassFunctions}]

VARIABLE part    \* the component that runs in this behaviour

allVars == <<part, stageVars, havocVars, opsVars, word, trimVars, tminVars, analyzeVars,
             toolVars, gotcpuVars, buildVars, scanVars, tVars, launchVars, passVars,
             heapVars, qemuVars>>

(* One component runs; those of the others' initial values that are free   *)
(* are fixed, so that a behaviour is one of that component.                *)
Other(p, value, values) == part # p => value = CHOOSE x \in values : TRUE

JobsInit ==
  /\ part \in {"stages", "havoc", "tweaks", "bytes", "trim", "tmin", "analyze", "runs",
              "gotcpu", "build", "scan", "trampoline", "launch", "pass", "heap", "qemu"}
  /\ StagesInit
  /\ HavocInit
  /\ Other("havoc", handicap, Handicaps)
  /\ OpsInit
  /\ ByteOpsInit
  /\ TrimInit
  /\ TminInit
  /\ Other("tmin", program, MCPrograms)
  /\ Other("tmin", original, {<<"a">>})
  /\ Other("tmin", exact_mode, BOOLEAN)
  /\ AnalyzeInit
  /\ Other("analyze", <<parser, anFile>>, {<<Reads(<<{2}>>, {1}, {4}), <<1, 0, 200, 7>>>>})
  /\ ToolInit
  /\ Other("runs", <<tool, cminCrashes, timeoutSet>>, {<<"tmin", FALSE, TRUE>>})
  /\ GotCpuInit
  /\ BuildInit
  /\ Other("build", <<wrapper, flags, userEnv, ratio>>, {<<"afl-gcc", {}, {}, 100>>})
  /\ Other("build", <<asIsAflAs, asWhere, source>>, {<<TRUE, "path", "tmp">>})
  /\ ScanInit
  /\ Other("scan", scan, Scans)
  /\ Other("scan", <<clang_mode, pass_thru_on, use_64bit>>, {<<FALSE, FALSE, TRUE>>})
  /\ TrampolineInit
  /\ Other("trampoline", <<shmId, canAttach, fds>>, {<<TRUE, TRUE, TRUE>>})
  /\ LaunchInit
  /\ Other("launch", launcher, Launchers)
  /\ Other("launch", searchPath, PathLists)
  /\ Other("launch", Len(programArgs), {0})
  /\ PassInit
  /\ Other("pass", passInput, MCPassInputs)
  /\ DislocatorInit
  /\ Other("heap", <<hard_fail, no_calloc_over>>, {<<FALSE, FALSE>>})
  /\ QemuInit

Only(p) ==
  /\ part = p /\ UNCHANGED part
  /\ IF p = "stages" THEN TRUE ELSE UNCHANGED stageVars
  /\ IF p = "havoc" THEN TRUE ELSE UNCHANGED havocVars
  /\ IF p = "tweaks" THEN TRUE ELSE UNCHANGED opsVars
  /\ IF p = "bytes" THEN TRUE ELSE UNCHANGED word
  /\ IF p = "trim" THEN TRUE ELSE UNCHANGED trimVars
  /\ IF p = "tmin" THEN TRUE ELSE UNCHANGED tminVars
  /\ IF p = "analyze" THEN TRUE ELSE UNCHANGED analyzeVars
  /\ IF p = "runs" THEN TRUE ELSE UNCHANGED toolVars
  /\ IF p = "gotcpu" THEN TRUE ELSE UNCHANGED gotcpuVars
  /\ IF p = "build" THEN TRUE ELSE UNCHANGED buildVars
  /\ IF p = "scan" THEN TRUE ELSE UNCHANGED scanVars
  /\ IF p = "trampoline" THEN TRUE ELSE UNCHANGED tVars
  /\ IF p = "launch" THEN TRUE ELSE UNCHANGED launchVars
  /\ IF p = "pass" THEN TRUE ELSE UNCHANGED passVars
  /\ IF p = "heap" THEN TRUE ELSE UNCHANGED heapVars
  /\ IF p = "qemu" THEN TRUE ELSE UNCHANGED qemuVars

StagesPart == Only("stages") /\ StagesNext
HavocPart == Only("havoc") /\ HavocNext
TweaksPart == Only("tweaks") /\ OpsNext
BytesPart == Only("bytes") /\ ByteOpsNext
TrimPart == Only("trim") /\ TrimNext
TminPart == Only("tmin") /\ TminNext
AnalyzePart == Only("analyze") /\ AnalyzeNext
RunsPart == Only("runs") /\ ToolNext
GotcpuPart == Only("gotcpu") /\ GotCpuNext
BuildPart == Only("build") /\ BuildNext
ScanPart == Only("scan") /\ ScanNext
TrampolinePart == Only("trampoline") /\ TrampolineNext
LaunchPart == Only("launch") /\ LaunchNext
PassPart == Only("pass") /\ PassNext
HeapPart == Only("heap") /\ DislocatorNext
QemuPart == Only("qemu") /\ QemuNext

JobsNext ==
  \/ StagesPart \/ HavocPart \/ TweaksPart \/ BytesPart \/ TrimPart \/ TminPart
  \/ AnalyzePart \/ RunsPart \/ GotcpuPart \/ BuildPart \/ ScanPart \/ TrampolinePart
  \/ LaunchPart \/ PassPart \/ HeapPart \/ QemuPart

JobsSpec ==
  /\ JobsInit /\ [][JobsNext]_allVars
  /\ WF_allVars(HavocPart)
  /\ WF_allVars(TrimPart)
  /\ WF_allVars((Only("tmin") /\ Minimize))
  /\ WF_allVars((Only("runs") /\ ToolStep))
  /\ WF_allVars((Only("runs") /\ handle_timeout))

-----------------------------------------------------------------------------
(* The work on a seed ends: trimming, and havoc with all it finds          *)
(* (src/afl-fuzz.c:4884-5040, 6527-7110).  The fuzzer is one thread, so    *)
(* that its next step is always taken.                                     *)
SeedWorkEnds == TrimEnds /\ HavocReturns

(* Every tool ends: afl-tmin's passes reach their fixed point              *)
(* (src/afl-tmin.c:423-645), and a run of a tool that has a timeout ends   *)
(* even if the program hangs (src/afl-tmin.c:261-365).  The tools are      *)
(* single-threaded, and a timer that is armed goes off.                    *)
EveryToolEnds == (part = "tmin" => TminEnds) /\ (part = "runs" => ToolEnds)
==============================================================================
