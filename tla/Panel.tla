-------------------------------- MODULE Panel --------------------------------
(***************************************************************************)
(* What show_stats draws (src/afl-fuzz.c:4383-4747) from the counters of   *)
(* the current target: the colour of the cycle counter, the rows of the    *)
(* stages, which share one buffer, the percentages, and the CPU meter with *)
(* its smoothed number of runnable processes.  The layout is left out.     *)
(* What is written and when the fuzzer ends is in Screen; the two only meet *)
(* in ScreenRight.                                                         *)
(***************************************************************************)
EXTENDS Screen

CONSTANTS Minutes,        \* minutes that can pass between two updates
          QuietCycles,    \* changes of cycles_wo_finds
          Runnable,       \* processes that /proc/stat can report
          CoreCount,      \* cpu_core_count
          MaxUpdates

ASSUME PanelAssumption ==
  /\ Minutes \subseteq Nat /\ QuietCycles \subseteq Nat /\ Runnable \subseteq Nat
  /\ CoreCount \in Nat /\ MaxUpdates \in Nat

VARIABLES
  mode,            \* skip_deterministic, dumb_mode, not_on_tty, small: term_too_small
  cycleNo, idleMinutes, wo_finds, notFuzzed,
  stageFinds,      \* rows whose stage_finds is not 0
  trimIn, trimOut, effTotal, effSelected,
  smoothRunnable,  \* the static of get_runnable_processes, in 256ths
  updates,
  panel            \* what the screen shows; "blank" before the first update

panelVars == <<mode, cycleNo, idleMinutes, wo_finds, notFuzzed, stageFinds, trimIn, trimOut, effTotal,
               effSelected, smoothRunnable, updates, panel>>

Drawn == <<smoothRunnable, panel>>
Work  == <<trimIn, trimOut, effTotal, effSelected>>
Rows  == 1 .. 6      \* bit flips, byte flips, arithmetics, known ints, dictionary, havoc
Blank == [colour |-> "none", rows |-> <<>>, trim |-> -1, eff |-> -1, meter |-> "none"]

PanelInit ==
  /\ mode \in [skip : BOOLEAN, dumb : BOOLEAN, tty : BOOLEAN]
  /\ cycleNo = 1 /\ idleMinutes = 0 /\ wo_finds = 0 /\ notFuzzed = TRUE /\ stageFinds = {}
  /\ trimIn = 0 /\ trimOut = 0 /\ effTotal = 0 /\ effSelected = 0
  /\ smoothRunnable = 0 /\ updates = 0 /\ panel = Blank

-----------------------------------------------------------------------------
(* What the fuzzer does between two updates: a queue cycle with or without *)
(* finds; stages that find something; a seed that is trimmed from a length *)
(* to another one; a bitflip stage that selects some of the blocks.        *)
EndCycle ==
  /\ updates < MaxUpdates /\ updates' = updates + 1 /\ cycleNo' = cycleNo + 1
  /\ \E m \in Minutes, c \in QuietCycles :
       IF c = 0 THEN idleMinutes' = 0 /\ wo_finds' = 0 /\ notFuzzed' = TRUE
       ELSE idleMinutes' = idleMinutes + m /\ wo_finds' = wo_finds + c /\ notFuzzed' \in BOOLEAN
  /\ UNCHANGED <<mode, stageFinds, Work, Drawn>>

FuzzSeed ==
  /\ updates < MaxUpdates /\ updates' = updates + 1
  /\ \E r \in (IF mode.skip THEN {6} ELSE {1, 6}) : stageFinds' = stageFinds \cup {r}
  /\ \E before, after \in {1, 3} :
       after <= before /\ trimIn' = trimIn + before /\ trimOut' = trimOut + after
  /\ \E blocks, selected \in {0, 2} :
       selected <= blocks /\ effTotal' = effTotal + blocks /\ effSelected' = effSelected + selected
  /\ UNCHANGED <<mode, cycleNo, idleMinutes, wo_finds, notFuzzed, Drawn>>

-----------------------------------------------------------------------------
CycleColour ==
  CASE mode.dumb -> "plain"
    [] ~mode.dumb /\ (cycleNo = 1 \/ idleMinutes < 15) -> "magenta"
    [] ~mode.dumb /\ cycleNo # 1 /\ idleMinutes >= 15 /\ (wo_finds < 25 \/ idleMinutes < 30) -> "yellow"
    [] ~mode.dumb /\ cycleNo # 1 /\ wo_finds > 100 /\ ~notFuzzed /\ idleMinutes > 120 -> "green"
    [] OTHER -> "blue"

(* The rows are printed from one buffer.  Without the deterministic stages *)
(* it is written for the first and for the last row only.                  *)
Own(r) == IF r \in stageFinds THEN r ELSE 0
RowText ==
  LET text[r \in Rows] ==
        IF r = 1 /\ mode.skip THEN -1                        \* n/a
        ELSE IF mode.skip /\ r # 6 THEN text[r - 1]
        ELSE Own(r)
  IN text

(* Percentages; -1 is n/a.  The first one tests bytes_trim_out and divides *)
(* by bytes_trim_in.                                                       *)
TrimShare == IF trimOut = 0 THEN -1 ELSE ((trimIn - trimOut) * 100) \div trimIn
EffShare  == IF effTotal = 0 THEN -1 ELSE ((effTotal - effSelected) * 100) \div effTotal

get_runnable_processes(n) ==
  IF smoothRunnable = 0 THEN n * 256 ELSE ((smoothRunnable * 15) + (n * 256)) \div 16

(* Green if one more process fits, red if the cores are oversubscribed. *)
CpuMeter(runnable) ==
  IF CoreCount = 0 THEN "none"
  ELSE IF (runnable * 100) \div (CoreCount * 256) >= 150 THEN "red"
  ELSE IF CoreCount > 1 /\ runnable + 256 <= CoreCount * 256 THEN "green"
  ELSE "cyan"

(* Nothing is drawn without a terminal. *)
DrawScreen ==
  /\ updates < MaxUpdates /\ updates' = updates + 1 /\ mode.tty
  /\ IF CoreCount = 0 THEN UNCHANGED smoothRunnable
     ELSE \E n \in Runnable : smoothRunnable' = get_runnable_processes(n)
  /\ panel' = [colour |-> CycleColour, rows |-> RowText, trim |-> TrimShare, eff |-> EffShare,
               meter |-> CpuMeter(smoothRunnable')]
  /\ UNCHANGED <<mode, cycleNo, idleMinutes, wo_finds, notFuzzed, stageFinds, Work>>

PanelNext == EndCycle \/ FuzzSeed \/ DrawScreen
PanelSpec == PanelInit /\ [][PanelNext]_panelVars

-----------------------------------------------------------------------------
Drawing ==
  /\ panel.colour = "green" => ~mode.dumb /\ wo_finds > 100 /\ ~notFuzzed
  /\ \A r \in Rows : panel.rows[r] \in {-1, 0, r} /\ (panel.rows[r] = -1 => mode.skip /\ r # 6)
  /\ panel.trim \in -1 .. 100 /\ panel.eff \in -1 .. 100
  /\ panel.meter = "green" => smoothRunnable < CoreCount * 256

(* Whenever the screen is drawn it is right: the green cycle counter       *)
(* appears only when AFL_EXIT_WHEN_DONE would end the run too; a row never *)
(* shows the numbers of another stage, though all are printed from one     *)
(* buffer; the shares are percentages; and the meter is not green while    *)
(* all cores are busy, smoothed as the count is                            *)
(* (src/afl-fuzz.c:4374, 4432-4460, 4610-4708, 4714-4730).                 *)
PanelRight == panel' # panel => Drawing'

(* What the fuzzer tells of itself is right, in its files and on its       *)
(* screen, and its automatic end comes when a run with one target is done  *)
(* (src/afl-fuzz.c:4293-4747).                                             *)
ScreenRight == [][ScreenSound' /\ PanelRight]_<<screenVars, panelVars>>
==============================================================================
