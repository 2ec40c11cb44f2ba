-------------------------------- MODULE Build --------------------------------
(***************************************************************************)
(* Building an instrumented program: afl-gcc or afl-clang edits the        *)
(* command line and starts the compiler, the compiler starts what it takes *)
(* for the assembler - afl-as - and that starts the real one.  What one    *)
(* program knows the next one learns only from the environment.            *)
(***************************************************************************)
EXTENDS Integers, FiniteSets

CONSTANTS CompilerFlags,   \* sets of flags given to the wrapper
          BuildEnvs,       \* sets of environment variables set by the user
          Ratios           \* values of AFL_INST_RATIO; 100 also stands for "not set"

ASSUME BuildAssumption ==
  /\ \A f \in CompilerFlags :
       f \subseteq {"-fsanitize=address", "-fsanitize=memory", "-D_FORTIFY_SOURCE", "-B", "-pipe", "-m32", "-x"}
  /\ \A e \in BuildEnvs :
       e \subseteq {"AFL_USE_ASAN", "AFL_USE_MSAN", "AFL_HARDEN", "AFL_KEEP_ASSEMBLY", "AFL_PATH"}
  /\ Ratios \subseteq Nat

VARIABLES
  buildPc,       \* "find", "edit", "compile", "as", "ratio", "loop", "insert", "run", "reap", "done", "fatal"
  wrapper,       \* "afl-gcc", "afl-clang", "afl-clang-fast"
  flags, userEnv, ratio,
  asIsAflAs,     \* the assembler that afl-as finds is afl-as itself ('.' in PATH)
  asWhere,       \* where the wrapper's helper is: "path", "own", "install", "nowhere"
  source,        \* the last parameter of afl-as: a file in "tmp" or "elsewhere", "stdin", "-version", "-other"
  env,           \* environment of the processes started from here on
  ccArgs,        \* what the wrapper added, and the flags it let through
  inst_ratio, pass_thru,
  asmFile,       \* modified_file exists
  asRuns,        \* afl-as was started so many times
  inserted,      \* ratio with which trampolines were inserted, or -1
  asStatus,      \* of the real assembler: "ok", "error", "killed"
  buildCode

buildVars == <<buildPc, wrapper, flags, userEnv, ratio, asIsAflAs, asWhere, source, env, ccArgs,
               inst_ratio, pass_thru, asmFile, asRuns, inserted, asStatus, buildCode>>

Sanitizers == {"-fsanitize=address", "-fsanitize=memory"}

BuildInit ==
  /\ buildPc = "find" /\ wrapper \in {"afl-gcc", "afl-clang", "afl-clang-fast"}
  /\ flags \in CompilerFlags /\ userEnv \in BuildEnvs /\ ratio \in Ratios
  /\ asIsAflAs \in BOOLEAN /\ asWhere \in {"path", "own", "install", "nowhere"}
  /\ source \in {"tmp", "elsewhere", "stdin", "-version", "-other"}
  /\ env = userEnv /\ ccArgs = {} /\ inst_ratio = 100 /\ pass_thru = FALSE
  /\ asmFile = FALSE /\ asRuns = 0 /\ inserted = -1 /\ asStatus = "ok" /\ buildCode = 0

World == <<wrapper, flags, userEnv, ratio, asIsAflAs, asWhere, source>>
AsState == <<inst_ratio, pass_thru, asmFile, asRuns, inserted, asStatus>>

Die ==
  /\ buildPc' = "fatal" /\ buildCode' = 1

(* find_as and find_obj: AFL_PATH, then the wrapper's own directory, then  *)
(* the place of installation.                                              *)
find_as ==
  /\ buildPc = "find"
  /\ IF asWhere \in {"own", "install"} \/ (asWhere = "path" /\ "AFL_PATH" \in env)
     THEN buildPc' = "edit" /\ UNCHANGED buildCode ELSE Die
  /\ UNCHANGED <<World, env, ccArgs, AsState>>

\* Mutant: a sanitizer together with AFL_HARDEN is not refused.
Clash_Pair ==
  flags \cap Sanitizers = {} /\ {"AFL_USE_ASAN", "AFL_USE_MSAN"} \subseteq env

Clash ==
  /\ flags \cap Sanitizers = {}
  /\ \/ {"AFL_USE_ASAN", "AFL_USE_MSAN"} \subseteq env
     \/ ("AFL_HARDEN" \in env /\ env \cap {"AFL_USE_ASAN", "AFL_USE_MSAN"} # {})

(* Flags that would keep afl-as away are dropped; sanitizers asked for by  *)
(* the environment are added, and those asked for by a flag are made known *)
(* to afl-as.                                                              *)
Passed == IF wrapper = "afl-clang-fast" THEN flags ELSE flags \ {"-B", "-pipe"}
Hardening ==
  IF "AFL_HARDEN" \notin env THEN {}
  ELSE {"-fstack-protector-all"} \cup
       (IF "-D_FORTIFY_SOURCE" \in flags THEN {} ELSE {"-D_FORTIFY_SOURCE=2"})
Sanitizing ==
  CASE flags \cap Sanitizers # {} -> {}
    [] flags \cap Sanitizers = {} /\ "AFL_USE_ASAN" \in env -> {"-U_FORTIFY_SOURCE", "-fsanitize=address"}
    [] flags \cap Sanitizers = {} /\ "AFL_USE_MSAN" \in env -> {"-U_FORTIFY_SOURCE", "-fsanitize=memory"}
    [] OTHER -> {}
Helper ==
  IF wrapper = "afl-clang-fast"
  THEN {"afl-llvm-pass", IF "-m32" \in flags THEN "afl-llvm-rt-32.o" ELSE "afl-llvm-rt.o"}
       \cup (IF "-x" \in flags THEN {"-x none"} ELSE {})
  ELSE {"-B as_path"} \cup (IF wrapper = "afl-clang" THEN {"-no-integrated-as"} ELSE {})

edit_params ==
  /\ buildPc = "edit"
  /\ IF Clash THEN Die /\ UNCHANGED <<env, ccArgs>>
     ELSE /\ buildPc' = IF wrapper = "afl-clang-fast" THEN "done" ELSE "compile"
          /\ ccArgs' = Passed \cup Hardening \cup Sanitizing \cup Helper
          /\ env' = env \cup (IF wrapper = "afl-clang" THEN {"CLANG"} ELSE {})
                        \cup (IF wrapper # "afl-clang-fast" /\ flags \cap Sanitizers # {}
                              THEN {"AFL_USE_ASAN"} ELSE {})
          /\ UNCHANGED buildCode
  /\ UNCHANGED <<World, AsState>>

(* The compiler: with -B it takes afl-as for its assembler. *)
Compile ==
  /\ buildPc = "compile"
  /\ buildPc' = "as" /\ asRuns' = asRuns + 1
  /\ UNCHANGED <<World, env, ccArgs, inst_ratio, pass_thru, asmFile, inserted, asStatus, buildCode>>

(* afl-as.  A file that no compiler wrote is passed through as it is.      *)
edit_as_params ==
  /\ buildPc = "as"
  /\ IF source = "-other" THEN Die ELSE buildPc' = "ratio" /\ UNCHANGED buildCode
  /\ pass_thru' = (source = "elsewhere")
  /\ UNCHANGED <<World, env, ccArgs, inst_ratio, asmFile, asRuns, inserted, asStatus>>

ReadRatio ==
  /\ buildPc = "ratio"
  /\ IF ratio > 100 THEN Die /\ UNCHANGED inst_ratio
     ELSE inst_ratio' = ratio /\ buildPc' = "loop" /\ UNCHANGED buildCode
  /\ UNCHANGED <<World, env, ccArgs, pass_thru, asmFile, asRuns, inserted, asStatus>>

(* An afl-as that was started by afl-as gives up. *)
CheckLoop ==
  /\ buildPc = "loop"
  /\ IF "AS_LOOP" \in env THEN Die /\ UNCHANGED <<env, inst_ratio>>
     ELSE /\ env' = env \cup {"AS_LOOP"} /\ buildPc' = "insert"
          /\ inst_ratio' = IF env \cap {"AFL_USE_ASAN", "AFL_USE_MSAN"} # {}
                           THEN inst_ratio \div 3 ELSE inst_ratio
          /\ UNCHANGED buildCode
  /\ UNCHANGED <<World, ccArgs, pass_thru, asmFile, asRuns, inserted, asStatus>>

AddInstrumentation ==
  /\ buildPc = "insert" /\ buildPc' = "run"
  /\ asmFile' = (source # "-version")
  /\ inserted' = IF source = "-version" \/ pass_thru THEN inserted ELSE inst_ratio
  /\ UNCHANGED <<World, env, ccArgs, inst_ratio, pass_thru, asRuns, asStatus, buildCode>>

(* A child runs "as" with the environment of afl-as, or cannot. *)
RunAs(status) ==
  /\ buildPc = "run" /\ buildPc' = "reap"
  /\ IF asIsAflAs THEN asStatus' = "error" /\ asRuns' = asRuns + 1
                  ELSE asStatus' = status /\ UNCHANGED asRuns
  /\ UNCHANGED <<World, env, ccArgs, inst_ratio, pass_thru, asmFile, inserted, buildCode>>

(* exit(WEXITSTATUS(status)): a signal leaves no exit status, and 0 is     *)
(* what the compiler sees.                                                 *)
ReapAs ==
  /\ buildPc = "reap" /\ buildPc' = "done"
  /\ asmFile' = (asmFile /\ "AFL_KEEP_ASSEMBLY" \in env)
  /\ buildCode' = IF asStatus = "error" THEN 1 ELSE 0
  /\ UNCHANGED <<World, env, ccArgs, inst_ratio, pass_thru, asRuns, inserted, asStatus>>

BuildNext ==
  \/ find_as \/ edit_params \/ Compile \/ edit_as_params \/ ReadRatio \/ CheckLoop
  \/ AddInstrumentation \/ (\E status \in {"ok", "error", "killed"} : RunAs(status)) \/ ReapAs
BuildSpec == BuildInit /\ [][BuildNext]_buildVars

-----------------------------------------------------------------------------
Sanitized == flags \cap Sanitizers # {} \/ userEnv \cap {"AFL_USE_ASAN", "AFL_USE_MSAN"} # {}

(* However the sanitizer was asked for - a flag that only the wrapper sees *)
(* or a variable - afl-as thins its trampolines exactly when there is one, *)
(* and never two sanitizers, nor one with the hardening it excludes, were  *)
(* added by the wrapper; afl-as never starts itself a third time; its file *)
(* stays only when asked for.                                              *)
BuildSound ==
  /\ inserted >= 0 => inserted = IF Sanitized THEN ratio \div 3 ELSE ratio
  /\ buildPc = "done" => Cardinality((ccArgs \ flags) \cap Sanitizers) <= 1
  /\ "-fstack-protector-all" \in ccArgs => (ccArgs \ flags) \cap Sanitizers = {}
  /\ asRuns <= 2 /\ (asRuns = 2 => (buildPc \in {"reap", "done"} /\ asStatus = "error"))
  /\ buildPc \in {"done", "fatal"} => (asmFile => "AFL_KEEP_ASSEMBLY" \in userEnv)
=============================================================================
