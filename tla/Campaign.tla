------------------------------ MODULE Campaign -------------------------------
(***************************************************************************)
(* The instance that checks the parts of afl-fuzz which a campaign is made *)
(* of, each one on its own: part says which.  The parts share no state     *)
(* here; each of them models what the others do to it.                     *)
(***************************************************************************)
EXTENDS Calibration, Dictionary, SeedQueue, Selection,
        Machine, Timeout, Setup, Panel

(* Calibration: a map of two words; the second input varies in the byte of the second. *)
MCWords  == {{1, 2}, {3}}
Hits(f)  == [b \in {1, 2, 3} |-> IF b \in DOMAIN f THEN f[b] ELSE {}]
MCTraces ==
  [i \in {"a", "b"} |-> IF i = "a" THEN {Hits(1 :> {1})}
                        ELSE {Hits(1 :> {2}), Hits(1 :> {2} @@ 3 :> {1})}]

(* Dictionary: two tokens that differ in case only; a file with a level, a *)
(* token of its own and a malformed line.                                  *)
Tok(w, c, n) == [word |-> w, cap |-> c, len |-> n]
MCFound == {Tok(1, 0, 3), Tok(1, 1, 3), Tok(2, 0, 4), Tok(3, 0, 3)}
MCLines == {[kind |-> "token", level |-> 0, token |-> Tok(1, 1, 3)],
            [kind |-> "token", level |-> 1, token |-> Tok(4, 0, 2)],
            [kind |-> "malformed", level |-> 0, token |-> Tok(1, 1, 3)]}

(* Selection: windows with one and with several samples of a condition,    *)
(* equal and different ones, one and two comparisons, joined by "and" and  *)
(* "or", negated and not.                                                  *)
Rec(k, v, l, h, a, n) ==
  [index |-> k, expr |-> v, low |-> l, high |-> h, andor |-> a, is_negated |-> n]
Bool(v, n)     == Rec(1, <<v, 0>>, <<-1, -1>>, <<-1, -1>>, 0, n)
One(v, l, h, n) == Rec(1, <<v, 0>>, <<l, -1>>, <<h, -1>>, 1, n)
MCWindows ==
  { <<>>, <<Bool(0, 1), Bool(1, 1)>>, <<Bool(0, 0)>>, <<One(3, 5, 1, 1)>>,
    <<One(0, 3, 1, 1), One(2, 3, 1, 1), Rec(0, <<7, 7>>, <<7, 7>>, <<7, 7>>, 0, 1)>>,
    <<[One(0, 3, 1, 1) EXCEPT !.andor = 0], [One(2, 3, 1, 1) EXCEPT !.andor = 0]>>,
    <<One(0, 1, 3, 0), One(2, 1, 3, 0)>>, <<One(0, 1, 3, 1), One(2, 1, 3, 1)>>,
    <<Rec(1, <<0, 0>>, <<3, 3>>, <<1, 1>>, 1, 1), Rec(1, <<2, 2>>, <<3, 3>>, <<1, 1>>, 1, 1)>> }
MCLog7200 == <<0, 4990, 7910, 9981, 11588, 12900>>

(* Setup: contradictory and consistent sets of options and variables. *)
MCOptionSets ==
  {{"Q", "m"}, {"M", "d"}, {"S", "Q", "m"}, {"M", "S"}, {"n", "C"}, {"n", "Q"}, {"n"},
   {"d", "N", "c"}, {"F", "C"}, {"S", "n"}, {}}
MCEnvironments ==
  {{}, {"DUMB_FORKSRV", "NO_FORKSRV"}, {"SKIP_BIN_CHECK"}, {"BAD_ASAN"}, {"CORE_PIPE"}}

(* Screen: a run with one target and one with two. *)
MCTargetSets == {{0}, {0, 1}}

VARIABLE part    \* the component that runs in this behaviour

allVars == <<part, calVars, dictVars, vars, selectionVars, segmentVars,
             timeoutVars, coreVars, setupVars, screenVars, panelVars>>

(* One component runs; those of the others' initial values that are free   *)
(* are fixed, so that a behaviour is one of that component.                *)
Other(p, value, values) == part # p => value = CHOOSE x \in values : TRUE

CampaignInit ==
  /\ part \in {"calibration", "dictionary", "queue", "selection",
              "segments", "timeout", "cores", "setup", "screen", "panel"}
  /\ CalInit
  /\ DictInit
  /\ Init
  /\ SelectionInit
  /\ SegmentsInit
  /\ TimeoutInit
  /\ CoresInit
  /\ SetupInit
  /\ Other("setup", options, OptionSets)
  /\ Other("setup", environment, EnvironmentSets)
  /\ Other("setup", binaryFile, BinaryFiles)
  /\ Other("setup", earlierSession, {"none"})
  /\ ScreenInit
  /\ Other("screen", shownTargets, ScreenTargets)
  /\ Other("screen", exits, {{}})
  /\ PanelInit
  /\ Other("panel", mode, [skip : BOOLEAN, dumb : BOOLEAN, tty : BOOLEAN])

Only(p) ==
  /\ part = p /\ UNCHANGED part
  /\ IF p = "calibration" THEN TRUE ELSE UNCHANGED calVars
  /\ IF p = "dictionary" THEN TRUE ELSE UNCHANGED dictVars
  /\ IF p = "queue" THEN TRUE ELSE UNCHANGED vars
  /\ IF p = "selection" THEN TRUE ELSE UNCHANGED selectionVars
  /\ IF p = "segments" THEN TRUE ELSE UNCHANGED segmentVars
  /\ IF p = "timeout" THEN TRUE ELSE UNCHANGED timeoutVars
  /\ IF p = "cores" THEN TRUE ELSE UNCHANGED coreVars
  /\ IF p = "setup" THEN TRUE ELSE UNCHANGED setupVars
  /\ IF p = "screen" THEN TRUE ELSE UNCHANGED screenVars
  /\ IF p = "panel" THEN TRUE ELSE UNCHANGED panelVars

CalibrationPart == Only("calibration") /\ CalNext
DictionaryPart == Only("dictionary") /\ DictNext
QueuePart == Only("queue") /\ Next
SelectionPart == Only("selection") /\ SelectionNext
SegmentsPart == Only("segments") /\ SegmentsNext
TimeoutPart == Only("timeout") /\ TimeoutNext
CoresPart == Only("cores") /\ CoresNext
SetupPart == Only("setup") /\ SetupNext
ScreenPart == Only("screen") /\ ScreenNext
PanelPart == Only("panel") /\ PanelNext

CampaignNext ==
  \/ CalibrationPart \/ DictionaryPart \/ QueuePart
  \/ SelectionPart \/ SegmentsPart \/ TimeoutPart \/ CoresPart \/ SetupPart
  \/ ScreenPart \/ PanelPart

CampaignSpec ==
  /\ CampaignInit /\ [][CampaignNext]_allVars

==============================================================================
