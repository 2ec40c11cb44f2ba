-------------------------------- MODULE OutDir --------------------------------
(***************************************************************************)
(* Output directories over many sessions: how a session takes over the     *)
(* directory it is given (setup_dirs_fds, maybe_delete_out_dir), makes the *)
(* directories of its targets below it, reads the seeds of an earlier      *)
(* session and pivots them, and what is left when it is killed in between. *)
(*                                                                         *)
(* A path is a sequence of numbers: <<1>> is a directory that the user     *)
(* names, <<1, 0>> its subdirectory target0.  Everything of a target is in *)
(* its own directory; but maybe_delete_out_dir looks for queue, crashes    *)
(* and fuzzer_stats in the directory given with -o, where they are only if *)
(* that one is a target's.  hangs/ is handled like crashes/.  A test case  *)
(* is the same under every name it is pivoted to.                          *)
(***************************************************************************)
EXTENDS Integers, Sequences, FiniteSets

CONSTANTS
  InputSeeds,    \* test cases of the user's input directory
  FoundSeeds,    \* test cases the fuzzer can add
  Crashes,       \* crashing inputs it can keep
  TargetNum,     \* target_num
  Nodes          \* the paths that there can be

TargetIndex == 0 .. TargetNum - 1
Below(d, t) == Append(d, t)
(* What can be given with -o, and with -i: the user's directory, "-", and  *)
(* the output directory of an earlier session.                             *)
Outs    == {d \in Nodes : \A t \in TargetIndex : Below(d, t) \in Nodes}
UserDir == << >>
InPlace == <<-1>>
Sources == Outs \cup {UserDir, InPlace}

ASSUME OutDirAssumption ==
  /\ TargetNum \in Nat \ {0} /\ InputSeeds # {}
  /\ Nodes \subseteq Seq(Nat) /\ UserDir \notin Nodes

(* For the runs: two directories of the user, one or two targets below, and *)
(* a session that was given the first target's directory with -o.          *)
OneTargetPaths  == {<<1>>, <<1, 0>>, <<1, 0, 0>>, <<2>>, <<2, 0>>}
TwoTargetPaths == {<<1>>, <<1, 0>>, <<1, 1>>, <<2>>, <<2, 0>>, <<2, 1>>}

VARIABLES
  dirPhase,      \* what the fuzzer is at; "off" if it does not run
  source, out,   \* -i and -o
  idx,           \* the target that is set up; TargetNum when all are
  exists,        \* the paths there are
  disk,          \* [path -> [subdirectory -> Dir]]
  stats,         \* [path -> "none", "torn" or "whole"], its fuzzer_stats
  imported,      \* [target -> [seeds, det]], what read_testcases found
  everFound      \* [path -> all seeds and crashes ever found for it]

dirVars == <<dirPhase, source, out, idx, exists, disk, stats, imported, everFound>>
dirArgs == <<source, out>>

(* A directory: whether it is there, its id:* files, those of its          *)
(* .state/deterministic_done, and whether .state is there.                 *)
NoDir   == [there |-> FALSE, files |-> {}, det |-> {}, state |-> FALSE]
NewDir  == [NoDir EXCEPT !.there = TRUE]
Subdirs == {"queue", "_resume", "crashes", "crashes.old"}
Nothing == [seeds |-> {}, det |-> {}]

DirInit ==
  /\ dirPhase = "off" /\ source = UserDir /\ out = UserDir /\ idx = 0
  /\ exists = {} /\ disk = [d \in Nodes |-> [p \in Subdirs |-> NoDir]]
  /\ stats = [d \in Nodes |-> "none"]
  /\ imported = [t \in TargetIndex |-> Nothing] /\ everFound = [d \in Nodes |-> {}]

Gets(d, p, x) == disk' = [disk EXCEPT ![d][p] = x]
GoTo(ph) == dirPhase' = ph

\* Mutant: the age of the session is taken from a start_time that is right.
AtRisk_Young(d) == FALSE

(* last_update is more than OUTPUT_GRACE minutes after start_time, which   *)
(* is 0 in every file that is whole (see Screen).                          *)
AtRisk(d) == stats[d] = "whole"

(* The beginning of setup_dirs_fds and the checks of maybe_delete_out_dir. *)
Start(i, o) ==
  /\ dirPhase = "off"
  /\ \A d \in Nodes, t \in TargetIndex : o = Below(d, t) => d \in exists
  /\ source' = i /\ out' = o /\ idx' = 0
  /\ exists' = exists \cup {o}
  /\ IF o \notin exists
     THEN GoTo(IF i = InPlace THEN "refused" ELSE "mkdir")
     ELSE GoTo(IF stats[o] = "torn" \/ (AtRisk(o) /\ i # InPlace) THEN "refused" ELSE "rename")
  /\ UNCHANGED <<disk, stats, imported, everFound>>

(***************************************************************************)
(* maybe_delete_out_dir.                                                   *)
(***************************************************************************)
NoFiles(x) == x.files = {} /\ ~x.state

(* rename() fails, silently, when there is no queue and when _resume is    *)
(* there and not empty.                                                    *)
Rename(from, to) ==
  IF disk[out][from].there /\ (~disk[out][to].there \/ NoFiles(disk[out][to]))
  THEN disk' = [disk EXCEPT ![out][to] = disk[out][from], ![out][from] = NoDir]
  ELSE UNCHANGED disk

MoveQueue ==
  /\ dirPhase = "rename"
  /\ IF source = InPlace THEN Rename("queue", "_resume") ELSE UNCHANGED disk
  /\ GoTo("clean")
  /\ UNCHANGED <<dirArgs, idx, exists, stats, imported, everFound>>

(* delete_files on the subdirectories of .state, then .state itself, then  *)
(* the directory file by file.                                             *)
delete_state(x) == [x EXCEPT !.det = {}, !.state = FALSE]
delete_file(x, f) == [x EXCEPT !.files = @ \ {f}]

CleanDir(p, next) ==
  /\ \/ /\ disk[out][p].state
        /\ Gets(out, p, delete_state(disk[out][p])) /\ UNCHANGED dirPhase
     \/ /\ ~disk[out][p].state
        /\ \E f \in disk[out][p].files : Gets(out, p, delete_file(disk[out][p], f))
        /\ UNCHANGED dirPhase
     \/ NoFiles(disk[out][p]) /\ Gets(out, p, NoDir) /\ GoTo(next)
  /\ UNCHANGED <<dirArgs, idx, exists, stats, imported, everFound>>

CleanQueue == dirPhase = "clean" /\ CleanDir("queue", "crashes")

(* Crashes: when resuming, a directory that is not empty is kept under a   *)
(* name with the time; what is still there is deleted.                     *)
BackupCrashes ==
  /\ dirPhase = "crashes"
  /\ IF source = InPlace /\ ~NoFiles(disk[out]["crashes"])
     THEN disk' = [disk EXCEPT ![out]["crashes.old"] =
                     [disk[out]["crashes"] EXCEPT !.files = @ \cup disk[out]["crashes.old"].files],
                               ![out]["crashes"] = NoDir]
     ELSE UNCHANGED disk
  /\ GoTo("delcrashes")
  /\ UNCHANGED <<dirArgs, idx, exists, stats, imported, everFound>>

CleanCrashes == dirPhase = "delcrashes" /\ CleanDir("crashes", "rest")

(* .cur_input, fuzz_bitmap, plot_data; the statistics only in a new session. *)
CleanRest ==
  /\ dirPhase = "rest" /\ GoTo("mkdir")
  /\ stats' = IF source = InPlace THEN stats ELSE [stats EXCEPT ![out] = "none"]
  /\ UNCHANGED <<dirArgs, idx, exists, disk, imported, everFound>>

(***************************************************************************)
(* The rest of the start, one target after the other.                      *)
(***************************************************************************)
(* setup_dirs_fds: every mkdir must succeed, that of the target first. *)
Mkdir(t) ==
  LET d == Below(out, t)
  IN /\ dirPhase = "mkdir" /\ t = idx
     /\ IF d \in exists THEN GoTo("fatal") ELSE GoTo("mkqueue")
     /\ exists' = exists \cup {d}
     /\ UNCHANGED <<dirArgs, idx, disk, stats, imported, everFound>>

MkQueue(t) ==
  /\ dirPhase = "mkqueue" /\ t = idx /\ GoTo("mkcrashes")
  /\ Gets(Below(out, t), "queue", [NewDir EXCEPT !.state = TRUE])
  /\ UNCHANGED <<dirArgs, idx, exists, stats, imported, everFound>>

MkCrashes(t) ==
  /\ dirPhase = "mkcrashes" /\ t = idx
  /\ Gets(Below(out, t), "crashes", NewDir)
  /\ IF t + 1 = TargetNum THEN GoTo("read") /\ idx' = 0 ELSE GoTo("mkdir") /\ idx' = t + 1
  /\ UNCHANGED <<dirArgs, exists, stats, imported, everFound>>

(* read_all_testcases: the files of the queue/ there is below the target's *)
(* directory, and for each whether it passed the deterministic stages.     *)
(* Without a queue/ it takes what lies beside it, such as fuzzer_stats.    *)
Beside == "fuzzer_stats"
ReadTestcases(t, beside) ==
  LET d  == Below(source, t)
      in == CASE source = UserDir -> [Nothing EXCEPT !.seeds = InputSeeds]
              [] source # UserDir /\ d \notin exists -> Nothing
              [] source # UserDir /\ d \in exists ->
                   IF disk[d]["queue"].there
                   THEN [seeds |-> disk[d]["queue"].files,
                         det |-> disk[d]["queue"].det \cap disk[d]["queue"].files]
                   ELSE [Nothing EXCEPT !.seeds = beside]
  IN /\ dirPhase = "read" /\ t = idx
     /\ imported' = [imported EXCEPT ![t] = in]
     /\ IF in.seeds = {} THEN GoTo("fatal") /\ UNCHANGED idx
        ELSE IF t + 1 = TargetNum THEN GoTo("pivot") /\ idx' = 0
        ELSE UNCHANGED dirPhase /\ idx' = t + 1
     /\ UNCHANGED <<dirArgs, exists, disk, stats, everFound>>

(* pivot_inputs: a link in the new queue for each, then its mark. *)
Marked(q, t) == q.files \cap imported[t].det \subseteq q.det
PivotInput(t, s) ==
  LET q == disk[Below(out, t)]["queue"]
  IN /\ dirPhase = "pivot" /\ t = idx /\ Marked(q, t)
     /\ s \in imported[t].seeds \ q.files
     /\ Gets(Below(out, t), "queue", [q EXCEPT !.files = @ \cup {s}])
     /\ UNCHANGED <<dirPhase, dirArgs, idx, exists, stats, imported, everFound>>

MarkPivoted(t, s) ==
  LET q == disk[Below(out, t)]["queue"]
  IN /\ dirPhase = "pivot" /\ t = idx
     /\ s \in (q.files \cap imported[t].det) \ q.det
     /\ Gets(Below(out, t), "queue", [q EXCEPT !.det = @ \cup {s}])
     /\ UNCHANGED <<dirPhase, dirArgs, idx, exists, stats, imported, everFound>>

PivotDone(t) ==
  LET q == disk[Below(out, t)]["queue"]
  IN /\ dirPhase = "pivot" /\ t = idx /\ Marked(q, t) /\ q.files = imported[t].seeds
     /\ IF t + 1 = TargetNum THEN GoTo("run") /\ idx' = 0 ELSE UNCHANGED dirPhase /\ idx' = t + 1
     /\ UNCHANGED <<dirArgs, exists, disk, stats, imported, everFound>>

(***************************************************************************)
(* Dry runs (idx < TargetNum), fuzzing, and the end.                       *)
(***************************************************************************)
(* write_stats_file: after the dry run of each target, and now and then;   *)
(* the file is cut to nothing when it is opened.                           *)
OpenStats(t) ==
  /\ dirPhase = "run" /\ (idx < TargetNum => t = idx)
  /\ stats' = [stats EXCEPT ![Below(out, t)] = "torn"] /\ GoTo("stats")
  /\ UNCHANGED <<dirArgs, idx, exists, disk, imported, everFound>>

CloseStats(t) ==
  /\ dirPhase = "stats" /\ stats[Below(out, t)] = "torn"
  /\ stats' = [stats EXCEPT ![Below(out, t)] = "whole"] /\ GoTo("run")
  /\ idx' = IF idx < TargetNum THEN idx + 1 ELSE idx
  /\ UNCHANGED <<dirArgs, exists, disk, imported, everFound>>

(* A seed counts as found when its file is written; an empty one, of a     *)
(* fuzzer killed before that, is passed over by read_testcases.            *)
Fuzzing == dirPhase = "run" /\ idx = TargetNum
Keeps(d, p, f) ==
  /\ Gets(d, p, [disk[d][p] EXCEPT !.files = @ \cup {f}])
  /\ everFound' = [everFound EXCEPT ![d] = @ \cup {f}]
  /\ UNCHANGED <<dirPhase, dirArgs, idx, exists, stats, imported>>

AddSeed(t, s) ==
  Fuzzing /\ s \notin disk[Below(out, t)]["queue"].files /\ Keeps(Below(out, t), "queue", s)

AddCrash(t, c) ==
  Fuzzing /\ c \notin disk[Below(out, t)]["crashes"].files /\ Keeps(Below(out, t), "crashes", c)

mark_as_det_done(t, s) ==
  LET q == disk[Below(out, t)]["queue"]
  IN /\ Fuzzing /\ s \in q.files \ q.det
     /\ Gets(Below(out, t), "queue", [q EXCEPT !.det = @ \cup {s}])
     /\ UNCHANGED <<dirPhase, dirArgs, idx, exists, stats, imported, everFound>>

(* The process ends: killed anywhere, or by a fatal error.                 *)
Killed ==
  /\ dirPhase # "off" /\ GoTo("off")
  /\ source' = UserDir /\ out' = UserDir /\ idx' = 0
  /\ imported' = [t \in TargetIndex |-> Nothing]
  /\ UNCHANGED <<exists, disk, stats, everFound>>

DirNext ==
  \/ \E i \in Sources, o \in Outs : Start(i, o)
  \/ MoveQueue \/ CleanQueue \/ BackupCrashes \/ CleanCrashes \/ CleanRest \/ Killed
  \/ \E t \in TargetIndex :
       \/ Mkdir(t) \/ MkQueue(t) \/ MkCrashes(t) \/ PivotDone(t) \/ OpenStats(t) \/ CloseStats(t)
       \/ \E beside \in SUBSET {Beside} : ReadTestcases(t, beside)
       \/ \E s \in InputSeeds \cup FoundSeeds \cup {Beside} :
            PivotInput(t, s) \/ MarkPivoted(t, s) \/ mark_as_det_done(t, s)
       \/ \E s \in FoundSeeds : AddSeed(t, s)
       \/ \E c \in Crashes : AddCrash(t, c)

DirSpec == DirInit /\ [][DirNext]_dirVars

(***************************************************************************)
(* Properties.                                                             *)
(***************************************************************************)
(* No session deletes what another one found, whatever directory it is     *)
(* given and wherever it is killed.                                        *)
FindsKept == \A d \in Nodes : everFound[d] \subseteq UNION {disk[d][p].files : p \in Subdirs}

(* docs/ChangeLog:2278: a session that is given the output directory of    *)
(* another with -i goes on, once its dry runs begin, with all that the     *)
(* queues there have, and repeats no deterministic stage.                  *)
CarriedOver ==
  source \in Outs /\ dirPhase \in {"run", "stats"} =>
    \A t \in TargetIndex :
      LET from == disk[Below(source, t)]["queue"]
          to   == disk[Below(out, t)]["queue"]
      IN from.files \subseteq to.files /\ from.det \cap from.files \subseteq to.det

(* What sessions find outlives the later ones (src/afl-fuzz.c:4044-4290,   *)
(* 7575-7706, 8647-8661, 8218-8227).                                       *)
WorkSurvives == FindsKept /\ CarriedOver

(* AFL_README.md:243: "Any existing output directory can be also used to   *)
(* resume aborted jobs", with -i-; also one in which something was found.  *)
Resumable ==
  source = InPlace /\ (\E t \in TargetIndex : everFound[Below(out, t)] # {}) => dirPhase # "fatal"
==============================================================================
