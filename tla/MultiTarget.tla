----------------------------- MODULE MultiTarget ----------------------------
(***************************************************************************)
(* One fuzzer process works for several targets in turn. What belongs to   *)
(* one target lives in global variables while the target is being fuzzed   *)
(* (`live`) and in the all_* arrays otherwise (`saved`); switch_target and *)
(* save_target copy it between the two. What is reached by a pointer is    *)
(* never copied (`heap`), and some globals belong to no target: the change *)
(* flags, use_splicing and main's prev_queued.                             *)
(***************************************************************************)
EXTENDS Naturals, FiniteSets

CONSTANTS NTargets,  \* target_num
          MaxSeeds,  \* bound: seeds a target's queue may grow to
          MaxCycles, \* bound: queue cycles of one target
          Tokens,    \* what flip1 may hand over as dictionary tokens
          MAX_AUTO_EXTRAS, \* places in the table of auto-detected tokens
          USE_AUTO_EXTRAS  \* and how many of them are used and saved

ASSUME NTargetsAssumption == NTargets \in Nat \ {0}
ASSUME BoundsAssumption ==
          MaxSeeds \in Nat \ {0} /\ MaxCycles \in Nat
\* config.h: ten times as many places as are used, so that the lower half of
\* the table has none of the tokens in use.
ASSUME TableAssumption ==
          /\ IsFiniteSet(Tokens) /\ USE_AUTO_EXTRAS \in Nat /\ MAX_AUTO_EXTRAS \in Nat
          /\ 2 * USE_AUTO_EXTRAS <= MAX_AUTO_EXTRAS

Targets == 0 .. NTargets - 1

VARIABLES
  pc,             \* where main is
  i,              \* the index of main's loop over the targets
  cur_target,
  live,           \* the current target's context, in the globals
  saved,          \* every target's context, in the all_* arrays
  heap,           \* per target: its unhandled seeds, and what its queue,
                  \* its top_rated and its virgin_bits have that a cull or a
                  \* saved bitmap does not reflect
  disk,           \* per target: queued_paths in fuzzer_stats, tokens in auto_extras
  bitmap_changed, score_changed, auto_changed,  \* 1 file, 1 list, 1 dictionary
  use_splicing, prev_queued,
  a_extras,       \* the auto-detected tokens, shared by all targets
  used,           \* the first MIN(USE_AUTO_EXTRAS, a_extras_cnt) of them
  freed,          \* how often destroy_extras has freed the dictionary
  stop_soon,
  seen,           \* history: queued_paths when the target's cycle began
  ended           \* history: the contexts when the main loop ended

shared == <<bitmap_changed, score_changed, auto_changed, a_extras,
            used>>
splice == <<use_splicing, prev_queued, seen>>
vars == <<pc, i, cur_target, live, saved, heap, disk, shared, splice, freed,
          stop_soon, ended>>

----------------------------------------------------------------------------
(* A context: queued_paths, queue_cycle, cycles_wo_finds, havoc_div, whether *)
(* start_time is set, and what queue_cur and first_unhandled point at: no    *)
(* seed, a seed still to do in this cycle, or one that is done.              *)

Context == [paths : 0 .. MaxSeeds, cycle : 0 .. MaxCycles + 1,
            dry : 0 .. MaxCycles + 1, div : {0, 1, 10}, start : BOOLEAN,
            cur : {"none", "todo", "done"}, unhandled : {"none", "todo", "done"}]
NoContext == [paths |-> 0, cycle |-> 0, dry |-> 0, div |-> 0, start |-> FALSE,
              cur |-> "none", unhandled |-> "none"]

\* switch_target: the context to work with from now on.
SwitchTarget(t) == saved[t]

\* Mutant: save_target forgets queue_cycle.
SaveTarget_NoCycle(t, c) ==
    [saved EXCEPT ![t] = [c EXCEPT !.cycle = saved[t].cycle]]
\* save_target: the all_* arrays after context c of target t is stored.
SaveTarget(t, c) == [saved EXCEPT ![t] = c]

\* Mutant: the flag is cleared although nothing was written.
WriteBitmap_FlagOnly(t) == heap' = heap /\ bitmap_changed' = FALSE
\* write_bitmap for target t.
WriteBitmap(t) ==
    /\ heap' = IF bitmap_changed THEN [heap EXCEPT ![t] = [@ EXCEPT !.bits = FALSE]]
               ELSE heap
    /\ bitmap_changed' = FALSE

\* save_auto: the files auto_000000, ... of target t get the tokens in use, and
\* no others, if the table was touched since some target's files were written.
SaveAuto(t) == IF auto_changed THEN used ELSE disk[t].auto

\* write_stats_file and save_auto for target t, whose context is c.
WriteFiles(t, c) ==
    /\ disk' = [disk EXCEPT ![t] = [stats |-> c.paths, auto |-> SaveAuto(t)]]
    /\ auto_changed' = FALSE

\* The two qsort calls of maybe_add_auto, for a table with these tokens: those
\* hit most come first. How often each was hit is left open.
Sorted(table) ==
    {top \in SUBSET table :
        Cardinality(top) = IF Cardinality(table) < USE_AUTO_EXTRAS
                           THEN Cardinality(table) ELSE USE_AUTO_EXTRAS}

\* maybe_add_auto: the tables after token t, which is hit if it is there,
\* appended if there is room, and put in place of one of the lower half if not.
Added(t) ==
    IF t \in a_extras THEN {a_extras}
    ELSE IF Cardinality(a_extras) < MAX_AUTO_EXTRAS THEN {a_extras \union {t}}
    ELSE {(a_extras \ {old}) \union {t} : old \in a_extras \ used}

\* Mutant: cull_queue skips a target that has no favored entry yet.
CullQueue_Skip(t, h) == h
\* cull_queue for target t: nothing unless score_changed is set. The heap it
\* works on is h.
CullQueue(t, h) ==
    IF score_changed THEN [h EXCEPT ![t] = [@ EXCEPT !.ranks = FALSE]] ELSE h

----------------------------------------------------------------------------
(* Start-up: all corpora are read, then every target is run once over its  *)
(* corpus.                                                                 *)

Init ==
    /\ pc = "read" /\ i = 0 /\ cur_target = 0
    /\ live = [NoContext EXCEPT !.div = 1]
    /\ saved = [t \in Targets |-> NoContext]
    /\ heap = [t \in Targets |-> [todo |-> 0, ranks |-> FALSE, bits |-> FALSE]]
    /\ disk = [t \in Targets |-> [stats |-> 0, auto |-> {}]]
    /\ bitmap_changed = TRUE /\ score_changed = FALSE /\ auto_changed = FALSE
    /\ use_splicing = FALSE /\ prev_queued = 0
    /\ a_extras = {} /\ used = {} /\ freed = 0
    /\ stop_soon = FALSE
    /\ seen = [t \in Targets |-> 0]
    /\ ended = [t \in Targets |-> NoContext]

\* Mutant: a dry run that Ctrl-C cut short is started over.
LoopOn_Again(loop, after) ==
    /\ i' = IF stop_soon /\ loop = "dry" THEN i ELSE (i + 1) % NTargets
    /\ pc' = IF i' # 0 \/ (stop_soon /\ loop = "dry") THEN loop ELSE after

\* for (int i = 0; i < target_num; i++), and what comes after the loop.
LoopOn(loop, after) ==
    /\ i' = (i + 1) % NTargets
    /\ pc' = IF i + 1 < NTargets THEN loop ELSE after

\* read_testcases sets all_havoc_div to 1 for every target. The live havoc_div
\* was loaded before that.
AllDivsOne == [t \in Targets |-> [saved[t] EXCEPT !.div = 1]]

\* The loop of read_all_testcases. The insertion of the second and of every
\* later seed sets first_unhandled to the head of the queue, which will be done
\* by the time first_unhandled is looked at.
ReadTarget ==
    /\ pc = "read"
    /\ \E n \in 1 .. MaxSeeds :
         LET c == [SwitchTarget(i) EXCEPT !.paths = n,
                   !.unhandled = IF n > 1 THEN "done" ELSE @]
         IN  /\ live' = c
             /\ saved' = [AllDivsOne EXCEPT ![i] = c]
             /\ heap' = [heap EXCEPT ![i] = [@ EXCEPT !.todo = n]]
    /\ cur_target' = i
    /\ LoopOn("read", "start")
    /\ UNCHANGED <<disk, shared, splice, freed, stop_soon, ended>>

\* load_all_auto reads the tokens an earlier session has left beside the
\* inputs, and start_time = get_cur_time() sets the clock in the globals, that
\* is, for no target.
StartClock ==
    /\ pc = "start"
    /\ \E table \in SUBSET Tokens :
         /\ Cardinality(table) <= MAX_AUTO_EXTRAS
         /\ a_extras' = table /\ used' \in Sorted(table)
         /\ auto_changed' = (auto_changed \/ table # {})
    /\ live' = [live EXCEPT !.start = TRUE]
    /\ pc' = "dry"
    /\ UNCHANGED <<i, cur_target, saved, heap, disk, bitmap_changed,
                   score_changed, splice, freed, stop_soon, ended>>

\* The dry run of target i: seeds are calibrated unless Ctrl-C came first, the
\* queue is culled and sorted, havoc_div is raised for a slow target, the
\* files are written and the context is saved.
DryRun ==
    /\ pc = "dry"
    /\ \E ran, slow \in BOOLEAN :
         /\ ran \/ stop_soon
         /\ slow => ran
         /\ LET c == [SwitchTarget(i) EXCEPT !.div = IF slow THEN 10 ELSE @]
            IN  /\ live' = c
                /\ saved' = SaveTarget(i, c)
                /\ WriteFiles(i, c)
         /\ heap' = [heap EXCEPT ![i] = [@ EXCEPT !.bits = heap[i].bits \/ ran]]
         /\ bitmap_changed' = (bitmap_changed \/ ran)
    /\ score_changed' = FALSE
    /\ cur_target' = i
    /\ LoopOn("dry", "ready")
    /\ UNCHANGED <<a_extras, used, splice, freed, stop_soon, ended>>

\* After the dry runs: Ctrl-C so far means straight to the clean-up, past
\* save_in_file.
Ready ==
    /\ pc = "ready"
    /\ IF stop_soon
       THEN /\ pc' = "cleanup"
            /\ ended' = saved
            /\ UNCHANGED <<cur_target, live>>
       ELSE /\ pc' = "select"
            /\ cur_target' = 0
            /\ live' = SwitchTarget(0)
            /\ ended' = ended
    /\ UNCHANGED <<i, saved, heap, disk, shared, splice, freed, stop_soon>>

----------------------------------------------------------------------------
(* The main loop.                                                          *)

\* Of context c, what the start of a queue cycle makes. Whether the last
\* cycle was dry is read off prev_queued, main's only record of it.
NewCycle(c) ==
    [c EXCEPT !.cycle = @ + 1,
              !.dry = IF c.paths # prev_queued THEN 0
                      ELSE IF use_splicing THEN @ + 1 ELSE @,
              !.cur = "todo"]

\* select_target and switch_target to target t (which one the scores pick is
\* left open), cull_queue, a new cycle if the last one is through, and the
\* current seed counts as handled.
Enter(t) ==
    /\ pc = "select"
    /\ LET c == SwitchTarget(t)
           through == c.cur = "none"
           now == IF through THEN NewCycle(c) ELSE c
           left == IF through THEN c.paths ELSE heap[t].todo
           culled == CullQueue(t, heap)
       IN  /\ through => c.cycle < MaxCycles \/ stop_soon
           /\ live' = [now EXCEPT !.cur = "done"]
           /\ heap' = [culled EXCEPT ![t] =
                [@ EXCEPT !.todo = IF now.cur = "todo" THEN left - 1 ELSE left]]
           /\ IF through
              THEN /\ prev_queued' = c.paths
                   /\ use_splicing' = (use_splicing \/ c.paths = prev_queued)
                   /\ seen' = [seen EXCEPT ![t] = c.paths]
              ELSE UNCHANGED splice
    /\ score_changed' = FALSE
    /\ cur_target' = t
    /\ pc' = "fuzz"
    /\ UNCHANGED <<i, saved, disk, bitmap_changed, auto_changed, a_extras, used,
                   freed, stop_soon, ended>>

\* fuzz_one finds a seed (save_if_interesting): it is queued, and it takes
\* top_rated slots once its calibration is through.
Find ==
    /\ pc = "fuzz" /\ ~stop_soon
    /\ live.paths < MaxSeeds
    /\ \E calibrated \in BOOLEAN :
         /\ heap' = [heap EXCEPT ![cur_target] =
                       [todo |-> @.todo + 1, ranks |-> @.ranks \/ calibrated,
                        bits |-> TRUE]]
         /\ score_changed' = (score_changed \/ calibrated)
    /\ live' = [live EXCEPT !.paths = @ + 1, !.dry = 0, !.unhandled = "todo"]
    /\ bitmap_changed' = TRUE
    /\ UNCHANGED <<pc, i, cur_target, saved, disk, auto_changed, a_extras, used,
                   splice, freed, stop_soon, ended>>

\* fuzz_one calibrates or trims the seed itself: it may win slots.
Rescore ==
    /\ pc = "fuzz" /\ ~stop_soon
    /\ heap' = [heap EXCEPT ![cur_target] = [@ EXCEPT !.ranks = TRUE]]
    /\ score_changed' = TRUE
    /\ UNCHANGED <<pc, i, cur_target, live, saved, disk, bitmap_changed,
                   auto_changed, a_extras, used, splice, freed, stop_soon, ended>>

\* Mutant: auto_changed is set only where a token enters the table.
AddToken_NewOnly ==
    /\ pc = "fuzz" /\ ~stop_soon
    /\ \E t \in Tokens :
         /\ a_extras' \in Added(t)
         /\ auto_changed' = (auto_changed \/ t \notin a_extras)
    /\ used' \in Sorted(a_extras')
    /\ UNCHANGED <<pc, i, cur_target, live, saved, heap, disk, bitmap_changed,
                   score_changed, splice, freed, stop_soon, ended>>
\* flip1 hands a token to maybe_add_auto. A hit too may bring another token into
\* use, and counts as a change.
AddToken ==
    /\ pc = "fuzz" /\ ~stop_soon
    /\ \E t \in Tokens : a_extras' \in Added(t)
    /\ used' \in Sorted(a_extras')
    /\ auto_changed' = TRUE
    /\ UNCHANGED <<pc, i, cur_target, live, saved, heap, disk, bitmap_changed,
                   score_changed, splice, freed, stop_soon, ended>>

\* show_stats, once a minute: the files of the current target.
ShowStats ==
    /\ pc = "fuzz"
    /\ WriteFiles(cur_target, live)
    /\ WriteBitmap(cur_target)
    /\ UNCHANGED <<pc, i, cur_target, live, saved, score_changed, a_extras, used,
                   splice, freed, stop_soon, ended>>

\* The seed after the current one, in context c with todo seeds to do:
\* first_unhandled if it is set, else the next in the queue to do.
NextSeed(c, todo) ==
    IF c.unhandled # "none" THEN c.unhandled
    ELSE IF todo > 0 THEN "todo" ELSE "none"

\* fuzz_one is over. A stop leaves the loop before save_target; otherwise
\* queue_cur moves on.
EndFuzz ==
    /\ pc = "fuzz"
    /\ IF stop_soon
       THEN /\ pc' = "save"
            /\ ended' = [saved EXCEPT ![cur_target] = live]
            /\ UNCHANGED <<live, saved>>
       ELSE LET c == [live EXCEPT !.cur = NextSeed(live, heap[cur_target].todo),
                                  !.unhandled = "none"]
            IN  /\ pc' = "select"
                /\ live' = c
                /\ saved' = SaveTarget(cur_target, c)
                /\ ended' = ended
    /\ UNCHANGED <<i, cur_target, heap, disk, shared, splice, freed, stop_soon>>

----------------------------------------------------------------------------
(* The end: the files of every target, then the memory of every target.    *)

SaveInFile ==
    /\ pc = "save"
    /\ cur_target' = i
    /\ live' = SwitchTarget(i)
    /\ WriteFiles(i, saved[i])
    /\ WriteBitmap(i)
    /\ LoopOn("save", "cleanup")
    /\ UNCHANGED <<saved, score_changed, a_extras, used, splice, freed, stop_soon,
                   ended>>

DestroyExtras == freed' = freed + 1

\* One round of cleanup_queue's loop: destroy_queue frees the target's queue,
\* destroy_extras the dictionary.
CleanUp ==
    /\ pc = "cleanup"
    /\ cur_target' = i
    /\ live' = SwitchTarget(i)
    /\ DestroyExtras
    /\ LoopOn("cleanup", "exit")
    /\ UNCHANGED <<saved, heap, disk, shared, splice, stop_soon, ended>>

\* Ctrl-C: handle_stop_sig sets stop_soon at any moment.
StopSig ==
    /\ ~stop_soon /\ pc # "exit"
    /\ stop_soon' = TRUE
    /\ UNCHANGED <<pc, i, cur_target, live, saved, heap, disk, shared, splice,
                   freed, ended>>

Main == \/ ReadTarget \/ StartClock \/ DryRun \/ Ready
        \/ \E t \in Targets : Enter(t)
        \/ EndFuzz \/ SaveInFile \/ CleanUp
Next == Main \/ Find \/ Rescore \/ AddToken \/ ShowStats \/ StopSig

\* main is one thread that never waits for anything outside the model.
Spec == Init /\ [][Next]_vars /\ WF_vars(Main)
----------------------------------------------------------------------------
(* Correctness.                                                            *)

\* Type correctness of main's loop over the targets and of what it keeps.
TypeOK ==
    /\ pc \in {"read", "start", "dry", "ready", "select", "fuzz", "save",
               "cleanup", "exit"}
    /\ i \in Targets /\ cur_target \in Targets
    /\ live \in Context
    /\ saved \in [Targets -> Context] /\ ended \in [Targets -> Context]
    /\ heap \in [Targets -> [todo : 0 .. MaxSeeds, ranks : BOOLEAN,
                             bits : BOOLEAN]]
    /\ disk \in [Targets -> [stats : 0 .. MaxSeeds, auto : SUBSET Tokens]]
    /\ bitmap_changed \in BOOLEAN /\ score_changed \in BOOLEAN
    /\ auto_changed \in BOOLEAN /\ use_splicing \in BOOLEAN
    /\ prev_queued \in 0 .. MaxSeeds /\ seen \in [Targets -> 0 .. MaxSeeds]
    /\ a_extras \subseteq Tokens /\ used \subseteq a_extras
    /\ freed \in 0 .. NTargets
    /\ stop_soon \in BOOLEAN

\* Switching between targets never mixes up or loses their progress: seen
\* through the globals for the target being fuzzed and through the all_*
\* arrays for the others, they are independent sessions, until the loop ends.
ContextOf(t) ==
    IF pc \in {"save", "cleanup", "exit"} THEN ended[t]
    ELSE IF pc = "fuzz" /\ t = cur_target THEN live ELSE saved[t]
SessionOf(t) == [paths |-> ContextOf(t).paths, cycle |-> ContextOf(t).cycle,
                 todo |-> heap[t].todo]
S == INSTANCE Sessions WITH sess <- [t \in Targets |-> SessionOf(t)]
\* Each target goes through its queue as if it were fuzzed alone.
Refinement == S!Spec

\* main's loop has ended, and the files of all targets have been saved.
FilesSaved == pc = "cleanup" /\ \E t \in Targets : ended[t].cycle > 0

\* havoc_div divides (afl-fuzz.c:6543): no seed is fuzzed while it is zero.
HavocDivPositive == pc = "fuzz" => live.div > 0

\* The tokens in use survive a restart: when main has written the files of all
\* targets, those of one target are exactly the tokens the stages use now,
\* although the one flag auto_changed is cleared by whichever target is saved
\* first (load_all_auto reads every directory back). Tokens of the table that
\* are not in use, and evicted ones, are not saved.
AutoSurvives ==
    FilesSaved => \E t \in Targets : disk[t].auto = used

\* A target that is about to be fuzzed has its favored marks computed from the
\* top_rated table it has now ("goes over top_rated[] entries, ... and marks
\* them as favored, at least until the next run").
FavoredFresh ==
    [][pc = "select" /\ pc' = "fuzz" => ~heap'[cur_target'].ranks]_vars

\* Splicing begins, and a cycle counts as one without finds, only if the
\* target's own last cycle found nothing ("If we had a full queue cycle with
\* no new finds, try recombination strategies next").
DryCyclesOnly ==
    [][(use_splicing' # use_splicing \/
        (pc = "select" /\ live'.dry > saved[cur_target'].dry))
       => saved[cur_target'].paths = seen[cur_target']]_vars

\* When main has saved the files of all targets after its loop, fuzz_bitmap
\* of every target is its virgin map.
BitmapsSaved ==
    FilesSaved => \A t \in Targets : ~heap[t].bits

\* No block is freed twice: the dictionary is destroyed once.
ExtrasFreedOnce == a_extras # {} => freed <= 1

\* A Ctrl-C ends the program, whatever main is doing.
StopEnds == stop_soon ~> pc = "exit"

\* Switching between targets keeps what fuzz_one and the save of the
\* dictionary rely on (src/afl-fuzz.c:8285-8400, 9150-9300).
TargetsSound == TypeOK /\ HavocDivPositive /\ AutoSurvives

\* With one target, what is saved is the newest state and nothing is freed
\* twice (src/afl-fuzz.c:8820-8840, 9279-9300).
SingleSound == BitmapsSaved /\ ExtrasFreedOnce

\* With one target, culling and the rule for cycles without finds use up-to-date
\* state (src/afl-fuzz.c:1555-1600, 9200-9240).
SingleFresh == FavoredFresh /\ DryCyclesOnly
=============================================================================
