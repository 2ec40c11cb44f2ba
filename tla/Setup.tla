-------------------------------- MODULE Setup --------------------------------
(***************************************************************************)
(* afl-fuzz from main to the first run of the program: the options in any  *)
(* order, the checks, the output directory of an earlier session, and the  *)
(* reset of the per-target variables by init_parameter.                    *)
(***************************************************************************)
EXTENDS FiniteSets

CONSTANTS OptionSets,      \* sets of options given on the command line
          EnvironmentSets, \* sets of AFL_* variables
          BinaryFiles      \* kinds of target binary

ASSUME SetupAssumption ==
  /\ \A o \in OptionSets :
       o \subseteq {"M", "S", "d", "C", "n", "Q", "N", "c", "m", "F"}
  /\ \A e \in EnvironmentSets :
       e \subseteq {"DUMB_FORKSRV", "NO_FORKSRV", "SKIP_BIN_CHECK", "BAD_ASAN", "CORE_PIPE", "GOVERNOR"}
  /\ BinaryFiles \subseteq {"missing", "script", "plain", "instrumented", "persistent"}

VARIABLES
  setupPc,
  options, environment, binaryFile,
  unparsed,             \* options not read yet
  dumb_mode, crash_mode, qemu_mode, sync_id, force_deterministic, skip_deterministic,
  use_splicing, mem_limit, mem_limit_given, no_forkserver, persistent_mode,
  targetsGiven,         \* -F: more than one target
  given,                \* [noDfg, tX] as parsed
  active,               \* no_dfg_schedule and t_x
  ofTarget,             \* all_no_dfg_schedule[0] and all_t_x[0]
  earlierSession        \* in the output directory: "none", "single" (of the single-target
                        \* fuzzer), "targets" (of this one), "deleted"

parsed == <<dumb_mode, crash_mode, qemu_mode, sync_id, force_deterministic, skip_deterministic,
            use_splicing, mem_limit, mem_limit_given, targetsGiven, given>>
setupVars == <<setupPc, options, environment, binaryFile, unparsed, parsed, no_forkserver,
               persistent_mode, active, ofTarget, earlierSession>>

SetupInit ==
  /\ setupPc = "parse" /\ options \in OptionSets /\ environment \in EnvironmentSets
  /\ binaryFile \in BinaryFiles /\ unparsed = options
  /\ dumb_mode = 0 /\ crash_mode = FALSE /\ qemu_mode = FALSE /\ sync_id = "none"
  /\ force_deterministic = FALSE /\ skip_deterministic = FALSE /\ use_splicing = FALSE
  /\ mem_limit = "MEM_LIMIT" /\ mem_limit_given = FALSE /\ targetsGiven = FALSE
  /\ no_forkserver = FALSE /\ persistent_mode = FALSE
  /\ given = [noDfg |-> FALSE, tX |-> FALSE] /\ active = given /\ ofTarget = given
  /\ earlierSession \in {"none", "single", "targets"}

Told == <<options, environment, binaryFile>>

ParseOption(o) ==
  /\ setupPc = "parse" /\ o \in unparsed
  /\ unparsed' = unparsed \ {o}
  /\ setupPc' = IF o \in {"M", "S"} /\ sync_id # "none" THEN "fatal" ELSE "parse"
  /\ sync_id' = IF o \in {"M", "S"} THEN o ELSE sync_id
  /\ force_deterministic' = (force_deterministic \/ o = "M")
  /\ skip_deterministic' = (skip_deterministic \/ o = "d")
  /\ use_splicing' = (use_splicing \/ o = "d")
  /\ crash_mode' = (crash_mode \/ o = "C")
  /\ dumb_mode' = IF o # "n" THEN dumb_mode ELSE IF "DUMB_FORKSRV" \in environment THEN 2 ELSE 1
  /\ qemu_mode' = (qemu_mode \/ o = "Q")
  /\ mem_limit_given' = (mem_limit_given \/ o = "m")
  /\ mem_limit' = CASE o = "m" -> "given"
                    [] o = "Q" /\ ~mem_limit_given -> "MEM_LIMIT_QEMU"
                    [] OTHER -> mem_limit
  /\ targetsGiven' = (targetsGiven \/ o = "F")
  /\ given' = [noDfg |-> given.noDfg \/ o = "N", tX |-> given.tX \/ o = "c"]
  \* no_dfg_schedule and t_x are the variables that the fuzzing reads
  /\ active' = given'
  /\ UNCHANGED <<Told, no_forkserver, persistent_mode, ofTarget, earlierSession>>

check_asan_opts ==
  /\ setupPc = "parse" /\ unparsed = {}
  /\ setupPc' = IF "BAD_ASAN" \in environment THEN "fatal" ELSE "sync"
  /\ UNCHANGED <<Told, unparsed, parsed, no_forkserver, persistent_mode, active, ofTarget, earlierSession>>

\* Mutant: -S sets -d before -d is refused.
fix_up_sync_Early ==
  /\ setupPc = "sync"
  /\ skip_deterministic' = (skip_deterministic \/ (sync_id # "none" /\ ~force_deterministic))
  /\ use_splicing' = (use_splicing \/ (sync_id # "none" /\ ~force_deterministic))
  /\ setupPc' = IF sync_id # "none" /\ (dumb_mode # 0 \/ skip_deterministic') THEN "fatal" ELSE "modes"
  /\ UNCHANGED <<Told, unparsed, dumb_mode, crash_mode, qemu_mode, sync_id, force_deterministic,
                 mem_limit, mem_limit_given, targetsGiven, given, no_forkserver, persistent_mode,
                 active, ofTarget, earlierSession>>

(* -S implies -d; -d itself is refused with -M and with -S. *)
fix_up_sync ==
  /\ setupPc = "sync"
  /\ LET wrong == sync_id # "none" /\ (dumb_mode # 0 \/ skip_deterministic)
         secondary == sync_id # "none" /\ ~force_deterministic
     IN /\ setupPc' = IF wrong THEN "fatal" ELSE "modes"
        /\ skip_deterministic' = (skip_deterministic \/ (~wrong /\ secondary))
        /\ use_splicing' = (use_splicing \/ (~wrong /\ secondary))
  /\ UNCHANGED <<Told, unparsed, dumb_mode, crash_mode, qemu_mode, sync_id, force_deterministic,
                 mem_limit, mem_limit_given, targetsGiven, given, no_forkserver, persistent_mode,
                 active, ofTarget, earlierSession>>

CheckModes ==
  /\ setupPc = "modes"
  /\ no_forkserver' = ("NO_FORKSRV" \in environment)
  /\ setupPc' = IF (dumb_mode # 0 /\ (crash_mode \/ qemu_mode)) \/ (dumb_mode = 2 /\ no_forkserver')
                THEN "fatal" ELSE "host"
  /\ UNCHANGED <<Told, unparsed, parsed, persistent_mode, active, ofTarget, earlierSession>>

(* check_crash_handling and check_cpu_governor. *)
CheckHost ==
  /\ setupPc = "host"
  /\ setupPc' = IF environment \cap {"CORE_PIPE", "GOVERNOR"} # {} THEN "fatal" ELSE "reset"
  /\ UNCHANGED <<Told, unparsed, parsed, no_forkserver, persistent_mode, active, ofTarget, earlierSession>>

(* The arrays of the targets are cleared; the globals are not. *)
init_parameter ==
  /\ setupPc = "reset" /\ setupPc' = "dirs"
  /\ ofTarget' = [noDfg |-> FALSE, tX |-> FALSE]
  /\ UNCHANGED <<Told, unparsed, parsed, no_forkserver, persistent_mode, active, earlierSession>>

(* maybe_delete_out_dir deletes what the single-target layout has; the     *)
(* directories of targets stay, and making them again fails.               *)
SetUpDirs ==
  /\ setupPc = "dirs"
  /\ setupPc' = IF earlierSession = "targets" THEN "fatal" ELSE "pivot"
  /\ earlierSession' = IF earlierSession = "single" THEN "deleted" ELSE earlierSession
  /\ UNCHANGED <<Told, unparsed, parsed, no_forkserver, persistent_mode, active, ofTarget>>

(* The seeds are linked under root_out_dir, which -M and -S do not change: *)
(* the directories of the targets were made one level below.               *)
pivot_all_inputs ==
  /\ setupPc = "pivot"
  /\ setupPc' = IF sync_id # "none" THEN "fatal" ELSE "binary"
  /\ UNCHANGED <<Told, unparsed, parsed, no_forkserver, persistent_mode, active, ofTarget, earlierSession>>

BinaryAccepted ==
  /\ binaryFile # "missing"
  /\ "SKIP_BIN_CHECK" \notin environment =>
       /\ binaryFile # "script"
       /\ binaryFile = "plain" => qemu_mode \/ dumb_mode # 0
       /\ binaryFile \in {"instrumented", "persistent"} => ~qemu_mode

check_binary ==
  /\ setupPc = "binary"
  /\ setupPc' = IF BinaryAccepted THEN "switch" ELSE "fatal"
  /\ persistent_mode' = (BinaryAccepted /\ binaryFile = "persistent" /\ "SKIP_BIN_CHECK" \notin environment)
  /\ UNCHANGED <<Told, unparsed, parsed, no_forkserver, active, ofTarget, earlierSession>>

(* switch_target(0), before the first dry run: the variables take the      *)
(* values of the arrays.                                                   *)
FirstSwitch ==
  /\ setupPc = "switch" /\ setupPc' = "fuzzing"
  /\ active' = ofTarget
  /\ UNCHANGED <<Told, unparsed, parsed, no_forkserver, persistent_mode, ofTarget, earlierSession>>

SetupNext ==
  \/ (\E o \in unparsed : ParseOption(o)) \/ check_asan_opts \/ fix_up_sync \/ CheckModes
  \/ CheckHost \/ init_parameter \/ SetUpDirs \/ pivot_all_inputs \/ check_binary \/ FirstSwitch
SetupSpec == SetupInit /\ [][SetupNext]_setupVars

-----------------------------------------------------------------------------
(* What cannot go together, said of the options and the environment.       *)
Contradiction ==
  \/ {"M", "S"} \subseteq options
  \/ options \cap {"M", "S"} # {} /\ options \cap {"n", "d"} # {}
  \/ "n" \in options /\ options \cap {"C", "Q"} # {}
  \/ "n" \in options /\ {"DUMB_FORKSRV", "NO_FORKSRV"} \subseteq environment
  \/ "BAD_ASAN" \in environment

(* The order of the options does not matter, contradictory ones never get  *)
(* as far as the output directory of an earlier session, and consistent    *)
(* ones are not refused for a contradiction.                               *)
OptionsAgree ==
  /\ setupPc = "fuzzing" =>
       /\ ~Contradiction
       /\ mem_limit = CASE "m" \in options -> "given"
                        [] "m" \notin options /\ "Q" \in options -> "MEM_LIMIT_QEMU"
                        [] OTHER -> "MEM_LIMIT"
       /\ skip_deterministic = (options \cap {"d", "S"} # {})
       /\ skip_deterministic => use_splicing /\ ~force_deterministic
  /\ Contradiction => earlierSession # "deleted"
  /\ setupPc = "fatal" /\ earlierSession = "single" =>
       Contradiction \/ environment \cap {"CORE_PIPE", "GOVERNOR"} # {}

(* -N and -c: what the command line asked for is what the fuzzing does     *)
(* (comment at src/afl-fuzz.c:9042, "Do not perform DFG-based seed         *)
(* scheduling").                                                           *)
OptionsKept == setupPc = "fuzzing" => active = given
=============================================================================
