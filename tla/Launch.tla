-------------------------------- MODULE Launch --------------------------------
(***************************************************************************)
(* From a command line to the program that afl-fuzz, afl-tmin, afl-analyze *)
(* and afl-showmap execute: the options of a run, the environment, the     *)
(* search of PATH, the replacement of @@ and the arguments for QEMU.  The  *)
(* four programs have their own copies of these functions, called in       *)
(* another order in afl-fuzz, and differ in who writes the input file.     *)
(***************************************************************************)
EXTENDS Integers, Sequences, FiniteSets

CONSTANTS ArgLists,        \* argument lists: a sequence of the number of @@ in each
          PathLists,       \* PATH: for each directory, whether it has an acceptable program
          MaxToolOptions   \* bound on the options of a command line

ASSUME LaunchAssumption ==
  /\ ArgLists \subseteq Seq(Nat) /\ PathLists \subseteq Seq(BOOLEAN)
  /\ MaxToolOptions \in Nat

VARIABLES
  launcher,      \* the program that is started
  launchPc,      \* its next step
  optionCount, seen,
  memLimit,      \* "default", "qemu", or the argument of -m
  inputName,     \* prog_in, at_file or out_file; "unset"
  viaStdin,      \* the input file becomes the standard input
  programArgs,   \* [marks |-> @@ left, names |-> the file put for one, "none"]
  argIndex,
  searchPath, pathIndex, programAt,   \* programAt: directory of PATH, 0 for the name as it is, -1 unknown
  executed       \* [path |-> target_path, argv |-> use_argv]

launchVars == <<launcher, launchPc, optionCount, seen, memLimit, inputName, viaStdin, programArgs,
                argIndex, searchPath, pathIndex, programAt, executed>>

Line == <<launcher, optionCount, seen, memLimit>>
Input == <<inputName, viaStdin>>
Program == <<searchPath, pathIndex, programAt>>
Arguments == <<programArgs, argIndex>>

Launchers == {"fuzz", "tmin", "analyze", "showmap"}

Accepted(t) ==
  CASE t = "tmin"    -> {"i", "o", "f", "m", "t", "B", "x", "e", "Q"}
    [] t = "analyze" -> {"i", "f", "m", "t", "e", "Q"}
    [] t = "showmap" -> {"o", "m", "t", "A", "e", "q", "Z", "Q", "b", "c"}
    [] t = "fuzz"    -> {"i", "o", "f", "m", "t", "Q"}

Required(t) == {"i", "o"} \cap (IF t = "analyze" THEN {"i"} ELSE IF t = "showmap" THEN {"o"} ELSE {"i", "o"})

Repeatable == {"A", "Z", "b"}

LaunchInit ==
  /\ launcher \in Launchers /\ launchPc = "options" /\ optionCount = 0 /\ seen = {}
  /\ memLimit = "default" /\ inputName = "unset" /\ viaStdin = (launcher # "fuzz")
  /\ \E a \in ArgLists : programArgs = [n \in DOMAIN a |-> [marks |-> a[n], names |-> "none"]]
  /\ argIndex = 1 /\ searchPath \in PathLists /\ pathIndex = 1 /\ programAt = -1
  /\ executed = [path |-> "none", argv |-> <<>>]

usage ==
  /\ launchPc' = "refused"
  /\ UNCHANGED <<Line, Input, Program, Arguments, executed>>

-----------------------------------------------------------------------------
(* -m: "none" and a number with a unit are taken, a number below 5 MB is   *)
(* refused.  It counts as given before its argument is looked at.          *)
LimitMemory ==
  /\ seen' = seen \cup {"m"}
  /\ \/ launchPc' = "refused" /\ UNCHANGED memLimit
     \/ memLimit' \in {"none", "megs"} /\ UNCHANGED launchPc
  /\ UNCHANGED <<inputName, viaStdin>>

\* Mutant: -Q behind -m takes its own limit.
UseQemu_Last ==
  /\ seen' = seen \cup {"Q"} /\ memLimit' = "qemu"
  /\ UNCHANGED <<launchPc, inputName, viaStdin>>

(* -Q takes another default, whether it stands before or after -m. *)
UseQemu ==
  /\ seen' = seen \cup {"Q"}
  /\ memLimit' = IF "m" \in seen THEN memLimit ELSE "qemu"
  /\ UNCHANGED <<launchPc, inputName, viaStdin>>

(* -f names the file the program reads; -A of afl-showmap one that afl-cmin writes. *)
NameInput(o) ==
  /\ seen' = seen \cup {o} /\ inputName' = (IF o = "f" THEN "dash f" ELSE "dash A")
  /\ viaStdin' = (viaStdin /\ o # "f")
  /\ UNCHANGED <<launchPc, memLimit>>

PlainOption(o) ==
  /\ seen' = seen \cup {o} \cup (IF o = "Z" THEN {"q"} ELSE {})
  /\ \/ UNCHANGED launchPc
     \/ o \in {"t", "B"} /\ launchPc' = "refused"      \* a bad argument
  /\ UNCHANGED <<memLimit, inputName, viaStdin>>

(* Most options may be given once; -q is also refused after -Z. *)
ParseToolOption(o) ==
  /\ launchPc = "options" /\ optionCount < MaxToolOptions /\ o \in Accepted(launcher)
  /\ optionCount' = optionCount + 1
  /\ IF o \in seen \ Repeatable
     THEN launchPc' = "refused" /\ UNCHANGED <<seen, memLimit, inputName, viaStdin>>
     ELSE \/ o = "m" /\ LimitMemory
          \/ o = "Q" /\ UseQemu
          \/ o \in {"f", "A"} /\ NameInput(o)
          \/ o \notin {"m", "Q", "f", "A"} /\ PlainOption(o)
  /\ UNCHANGED <<launcher, Program, Arguments, executed>>

EndParse ==
  /\ launchPc = "options"
  /\ IF Required(launcher) \subseteq seen /\ Len(programArgs) > 0
     THEN /\ launchPc' = (IF launcher = "fuzz" THEN "args" ELSE "environment")
          /\ UNCHANGED <<Line, Input, Program, Arguments, executed>>
     ELSE usage

(* afl-tmin and afl-analyze pick a name for the file and refuse sanitizer  *)
(* options that would hide a crash from them.                              *)
set_up_environment ==
  /\ launchPc = "environment"
  /\ IF launcher = "showmap" THEN launchPc' = "binary" /\ UNCHANGED inputName
     ELSE /\ launchPc' \in {"binary", "refused"}
          /\ inputName' = IF inputName = "unset" THEN "temporary" ELSE inputName
  /\ UNCHANGED <<Line, viaStdin, Program, Arguments, executed>>

-----------------------------------------------------------------------------
(* A name with a slash, or no PATH: the name is taken as it is. *)
TakeName ==
  /\ launchPc = "binary" /\ pathIndex = 1
  /\ \/ programAt' = 0 /\ launchPc' = (IF launcher = "fuzz" THEN "qemu" ELSE "args")
     \/ launchPc' = "refused" /\ UNCHANGED programAt
  /\ UNCHANGED <<Line, Input, searchPath, pathIndex, Arguments, executed>>

find_binary ==
  /\ launchPc = "binary"
  /\ IF pathIndex > Len(searchPath)
     THEN launchPc' = "refused" /\ UNCHANGED <<pathIndex, programAt>>
     ELSE IF searchPath[pathIndex]
          THEN /\ programAt' = pathIndex
               /\ launchPc' = (IF launcher = "fuzz" THEN "qemu" ELSE "args")
               /\ UNCHANGED pathIndex
          ELSE pathIndex' = pathIndex + 1 /\ UNCHANGED <<programAt, launchPc>>
  /\ UNCHANGED <<Line, Input, searchPath, Arguments, executed>>

(* One turn of the loop: the first @@ of the argument becomes the name. *)
Substitute(arg, name) ==
  IF arg.marks = 0 THEN arg ELSE [marks |-> arg.marks - 1, names |-> name]

NameFor == IF launcher = "fuzz" /\ inputName = "unset" THEN "cur_input" ELSE inputName

detect_file_args ==
  /\ launchPc = "args" /\ argIndex <= Len(programArgs)
  /\ IF programArgs[argIndex].marks > 0 /\ NameFor = "unset"
     THEN launchPc' = "refused" /\ UNCHANGED <<inputName, Arguments>>    \* afl-showmap without -A
     ELSE /\ programArgs' = [programArgs EXCEPT ![argIndex] = Substitute(programArgs[argIndex], NameFor)]
          /\ inputName' = IF programArgs[argIndex].marks > 0 THEN NameFor ELSE inputName
          /\ argIndex' = argIndex + 1 /\ UNCHANGED launchPc
  /\ UNCHANGED <<Line, viaStdin, Program, executed>>

(* afl-fuzz opens .cur_input as out_fd only if no file was named. *)
setup_all_stdio_file ==
  /\ launchPc = "args" /\ argIndex > Len(programArgs)
  /\ IF launcher = "fuzz"
     THEN /\ launchPc' = "binary" /\ viaStdin' = (inputName = "unset")
          /\ inputName' = IF inputName = "unset" THEN "cur_input" ELSE inputName
     ELSE launchPc' = "qemu" /\ UNCHANGED <<inputName, viaStdin>>
  /\ UNCHANGED <<Line, Program, Arguments, executed>>

(* The tracer must be in AFL_PATH if that is set; otherwise the directory  *)
(* of the tool comes before BIN_PATH.  "nowhere": afl-qemu-trace is missing. *)
Tracer(inAflPath, inOwn, inBin) ==
  CASE inAflPath = "yes" -> "AFL_PATH"
    [] inAflPath = "no" -> "nowhere"
    [] inAflPath = "unset" /\ inOwn -> "own directory"
    [] inAflPath = "unset" /\ ~inOwn /\ inBin -> "BIN_PATH"
    [] OTHER -> "nowhere"

get_qemu_argv(tracer) ==
  IF tracer = "nowhere"
  THEN launchPc' = "refused" /\ UNCHANGED executed
  ELSE /\ launchPc' = "ready"
       /\ executed' = [path |-> tracer, argv |-> <<tracer, "--", "program", "args">>]

UseArgv ==
  /\ launchPc = "qemu"
  /\ IF "Q" \in seen
     THEN \E a \in {"unset", "yes", "no"}, own, bin \in BOOLEAN : get_qemu_argv(Tracer(a, own, bin))
     ELSE launchPc' = "ready" /\ executed' = [path |-> "program", argv |-> <<"name", "args">>]
  /\ UNCHANGED <<Line, Input, Program, Arguments>>

LaunchNext ==
  \/ \E o \in UNION {Accepted(t) : t \in Launchers} : ParseToolOption(o)
  \/ EndParse \/ set_up_environment
  \/ TakeName \/ find_binary \/ detect_file_args \/ setup_all_stdio_file \/ UseArgv

LaunchSpec == LaunchInit /\ [][LaunchNext]_launchVars

-----------------------------------------------------------------------------
Marked == {n \in DOMAIN programArgs : programArgs[n].names # "none"}

(* The program reads what the tool writes: every argument that had a mark  *)
(* names the input file; without one, and without -f, the file is the      *)
(* standard input; afl-fuzz never feeds both.  afl-showmap writes no file. *)
InputReachesProgram ==
  /\ \A n \in Marked : programArgs[n].names = inputName /\ inputName # "unset"
  /\ launcher # "showmap" /\ Marked = {} /\ "f" \notin seen => viaStdin
  /\ launcher = "fuzz" /\ Marked # {} => ~viaStdin

(* What is executed agrees with the command line when the launch is over,  *)
(* in every order of the options: the input file reaches the program, -m   *)
(* wins over the default of -Q, and the program is the first acceptable    *)
(* one of PATH, put behind the tracer under -Q                             *)
(* (src/afl-tmin.c:989-1130, src/afl-fuzz.c:7296-7345, 8018-8170).         *)
LaunchAgrees ==
  launchPc = "ready" =>
    /\ InputReachesProgram
    /\ IF "m" \in seen THEN memLimit \in {"none", "megs"}
       ELSE memLimit = (IF "Q" \in seen THEN "qemu" ELSE "default")
    /\ programAt > 0 => searchPath[programAt] /\ \A n \in 1 .. programAt - 1 : ~searchPath[n]
    /\ programAt >= 0
    /\ "program" \in {executed.path, executed.argv[Len(executed.argv) - 1]}
    /\ ("Q" \in seen) = (executed.argv[1] = executed.path)
==============================================================================
