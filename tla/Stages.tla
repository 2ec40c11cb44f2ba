-------------------------------- MODULE Stages --------------------------------
(***************************************************************************)
(* fuzz_one up to the havoc stage (src/afl-fuzz.c:5388-6535): whether the  *)
(* current seed is fuzzed at all, the second chances of calibration and    *)
(* trimming, and the deterministic stages, each of which walks over the    *)
(* seed and mutates it in place.  The stages differ in the width of what   *)
(* they change, in how many values they try at a position, in what they    *)
(* skip and in how they put the buffer back; they share their bookkeeping. *)
(*                                                                         *)
(* A byte's value is abstracted away: a run's checksum is one of Sums      *)
(* (0 stands for the seed's own exec_cksum), and whether a value could     *)
(* have been produced by an earlier stage is left open (ByteOps decides it *)
(* on real bytes).                                                         *)
(***************************************************************************)
EXTENDS Integers, Sequences, FiniteSets

CONSTANTS
  Lens,          \* lengths of the seeds tried
  Sums,          \* checksums of a run; 0 is that of the unmodified seed
  ARITH_MAX,     \* values added and subtracted by the arithmetic stages
  IntValues,     \* [1, 2, 4 -> number of interesting values of that width]
  ExtraLens,     \* lengths of the user's tokens, in the order of extras[]
  AutoLens,      \* lengths of the auto tokens used, in the order of a_extras[]
  MIN_AUTO_EXTRA, MAX_AUTO_EXTRA,
  TMOUT_LIMIT,   \* timeouts in a row after which a seed is abandoned
  EffBlock,      \* bytes per entry of eff_map: 1 << EFF_MAP_SCALE2
  EFF_MIN_LEN, EFF_MAX_PERC

ASSUME StagesAssumption ==
  /\ Lens \subseteq Nat \ {0} /\ 0 \in Sums /\ EffBlock \in Nat \ {0}
  /\ ARITH_MAX \in Nat /\ IntValues \in [{1, 2, 4} -> Nat]
  /\ MIN_AUTO_EXTRA \in Nat \ {0, 1} /\ MAX_AUTO_EXTRA \in Nat
  /\ ExtraLens \in Seq(Nat) /\ AutoLens \in Seq(Nat)
  /\ \A k \in 1..Len(ExtraLens) - 1 : ExtraLens[k] <= ExtraLens[k + 1]
  /\ \A k \in 1..Len(AutoLens) - 1 : AutoLens[k] <= AutoLens[k + 1]

VARIABLES
  stage,       \* where fuzz_one is: "idle", "calibrate", "trim", a stage, "havoc"
  entry,       \* the fields of queue_cur and the options fuzz_one looks at
  walk,        \* position, value tried, stage_cur, stage_max, last_len
  eff_map,     \* flagged entries of the effector map
  dirty,       \* offsets where out_buf may differ from in_buf
  subseq_tmouts,
  collect      \* flip1: [sums seen, a_len, prev_cksum, tokens handed over]

stageVars == <<stage, entry, walk, eff_map, dirty, subseq_tmouts, collect>>

DetStages == <<"flip1", "flip2", "flip4", "flip8", "flip16", "flip32",
               "arith8", "arith16", "arith32", "int8", "int16", "int32",
               "ext_UO", "ext_UI", "ext_AO">>

Bits(s)  == CASE s = "flip1" -> 1 [] s = "flip2" -> 2 [] s = "flip4" -> 4 [] OTHER -> 0
Width(s) == CASE s \in {"flip16", "arith16", "int16"} -> 2
              [] s \in {"flip32", "arith32", "int32"} -> 4 [] OTHER -> 1
Over(s)  == s \in {"ext_UO", "ext_AO"}
Tokens(s) == IF s = "ext_AO" THEN AutoLens ELSE ExtraLens
MinOf(a, b) == IF a < b THEN a ELSE b

(* Which stages a seed goes through: the gotos to skip_bitflip, skip_arith,
   skip_interest, skip_user_extras and skip_extras.                        *)
Runs(s, e) ==
  /\ Width(s) <= e.len
  /\ s \in {"arith8", "arith16", "arith32", "int16", "int32"} => ~e.no_arith
  /\ s \in {"ext_UO", "ext_UI", "ext_AO"} => Tokens(s) # <<>>

StagesFrom(k, e) == {m \in k..Len(DetStages) : Runs(DetStages[m], e)}
StageAt(k, e) ==
  IF StagesFrom(k, e) = {} THEN "done"
  ELSE DetStages[CHOOSE m \in StagesFrom(k, e) : \A n \in StagesFrom(k, e) : m <= n]
IndexOf(s) == CHOOSE k \in 1..Len(DetStages) : DetStages[k] = s

(* Positions a stage walks over, values it tries at each, and the value it
   gives stage_max.  The insertion of user tokens walks one position more
   than stage_max accounts for.                                            *)
Positions(s, len) ==
  CASE Bits(s) > 0   -> 8 * len - (Bits(s) - 1)
    [] s = "ext_UI"  -> len + 1
    [] OTHER         -> len - (Width(s) - 1)
PerPosition(s) ==
  CASE s = "arith8" -> 2 * ARITH_MAX
    [] s \in {"arith16", "arith32"} -> 4 * ARITH_MAX
    [] s = "int8" -> IntValues[1]
    [] s \in {"int16", "int32"} -> 2 * IntValues[Width(s)]
    [] s \in {"ext_UO", "ext_UI", "ext_AO"} -> Len(Tokens(s))
    [] OTHER -> 1
StageMax(s, len) ==
  IF s = "ext_UI" THEN Len(ExtraLens) * len ELSE Positions(s, len) * PerPosition(s)

EffPos(p)  == p \div EffBlock
EffLen(l)  == EffPos(l) + (IF l % EffBlock = 0 THEN 0 ELSE 1)
EffSpan(p, n) == EffPos(p) .. EffPos(p + n - 1)

NoWalk == [i |-> 0, j |-> 0, cur |-> 0, max |-> 0, last |-> 0]
NoCollect == [sums |-> <<>>, a_len |-> 0, prev |-> 0, tokens |-> {}]
NoEntry == [len |-> 0, cal_failed |-> 0, trim_done |-> FALSE, was_fuzzed |-> FALSE,
            passed_det |-> FALSE, dumb |-> FALSE, no_arith |-> FALSE]

StagesInit ==
  /\ stage = "idle" /\ entry = NoEntry /\ walk = NoWalk /\ eff_map = {}
  /\ dirty = {} /\ subseq_tmouts = 0 /\ collect = NoCollect

(***************************************************************************)
(* Entering a seed.                                                        *)
(***************************************************************************)
(* The seed is not skipped and is loaded.                                  *)
BeginEntry(len, failed, fuzzed, det, dumb, noArith) ==
  /\ stage = "idle"
  /\ entry' = [len |-> len, cal_failed |-> failed, trim_done |-> FALSE,
               was_fuzzed |-> fuzzed, passed_det |-> det,
               dumb |-> dumb, no_arith |-> noArith]
  /\ stage' = IF failed > 0 THEN "calibrate" ELSE "trim"
  /\ walk' = NoWalk /\ eff_map' = {} /\ dirty' = {}
  /\ subseq_tmouts' = 0 /\ collect' = NoCollect

(* abandon_entry, reached from every place that gives the seed up.         *)
Abandon(stopped) ==
  /\ stage' = "idle"
  /\ entry' = [entry EXCEPT !.was_fuzzed = @ \/ (~stopped /\ entry.cal_failed = 0)]
  /\ walk' = NoWalk /\ eff_map' = {} /\ dirty' = {} /\ collect' = NoCollect

(* One more calibration, unless the chances are used up.                   *)
Recalibrate(chances, ok, stopped) ==
  /\ stage = "calibrate"
  /\ \/ /\ entry.cal_failed < chances /\ ok /\ ~stopped
        /\ entry' = [entry EXCEPT !.cal_failed = 0]
        /\ stage' = "trim"
        /\ UNCHANGED <<walk, eff_map, dirty, collect>>
     \/ /\ ~(entry.cal_failed < chances /\ ok /\ ~stopped)
        /\ Abandon(stopped)
  /\ UNCHANGED subseq_tmouts

(* Start stage s (or the end of the deterministic part).                   *)
StartStage(s, e) ==
  /\ stage' = s
  /\ walk' = IF s = "done" THEN NoWalk
             ELSE [i |-> 0, j |-> 0, cur |-> 0, max |-> StageMax(s, e.len), last |-> 0]

(* Trimming may shorten the seed; then the deterministic stages are skipped
   with -d, for a seed fuzzed before, for one that passed them already, and
   for one that is another instance's part of the work (-M i/n).           *)
TrimThenChoose(newlen, mine, stopped) ==
  /\ stage = "trim"
  /\ newlen \in Lens /\ newlen <= entry.len
  /\ entry.dumb => newlen = entry.len
  /\ \/ /\ stopped /\ Abandon(TRUE)
     \/ /\ ~stopped
        /\ LET e == [entry EXCEPT !.len = newlen, !.trim_done = ~entry.dumb]
           IN /\ entry' = e
              /\ IF e.was_fuzzed \/ e.passed_det \/ ~mine
                 THEN stage' = "havoc" /\ UNCHANGED walk
                 ELSE StartStage("flip1", e)
        /\ UNCHANGED <<eff_map, dirty, collect>>
  /\ UNCHANGED subseq_tmouts

(***************************************************************************)
(* common_fuzz_stuff.  RunGoesOn and RunGivesUp are its two return values; *)
(* r is what happened to the run: "ok", "tmout", "skip" (SIGUSR1), "stop". *)
(***************************************************************************)
NextTmouts(r) == CASE r = "tmout" -> subseq_tmouts + 1
                   [] r = "stop"  -> subseq_tmouts
                   [] OTHER       -> 0
GivesUp(r) == r \in {"stop", "skip"} \/ (r = "tmout" /\ subseq_tmouts > TMOUT_LIMIT)

RunGivesUp(r) ==
  /\ GivesUp(r)
  /\ subseq_tmouts' = NextTmouts(r)
  /\ Abandon(r = "stop")

(***************************************************************************)
(* The walk.                                                               *)
(***************************************************************************)
Consults(s) == s \in {"flip16", "flip32", "arith8", "arith16", "arith32",
                      "int8", "int16", "int32"}
InStage(s) == stage = s /\ walk.i < Positions(s, entry.len)
Offset(s) == IF Bits(s) > 0 THEN walk.i \div 8 ELSE walk.i

(* The position is in parts of the seed that never mattered.               *)
SkipDead(s) ==
  /\ InStage(s) /\ Consults(s) /\ walk.j = 0
  /\ \A p \in walk.i .. walk.i + Width(s) - 1 : EffPos(p) \notin eff_map
  /\ walk' = [walk EXCEPT !.i = @ + 1, !.max = @ - PerPosition(s)]
  /\ UNCHANGED <<stage, entry, eff_map, dirty, subseq_tmouts, collect>>

Live(s) == Consults(s) =>
  \E p \in walk.i .. walk.i + Width(s) - 1 : EffPos(p) \in eff_map

(* The tokens that cannot be written here: too long for what is left, or
   over a span without a flagged entry (and those already there).          *)
TokenUnfit(s) ==
  LET n == Tokens(s)[walk.j + 1]
  IN  \/ n > entry.len - walk.i
      \/ EffSpan(walk.i, n) \cap eff_map = {}

(* A value is not tried: an earlier stage could have produced it, the token
   is there already or does not fit.                                       *)
SkipValue(s) ==
  /\ InStage(s) /\ Live(s) /\ walk.j < PerPosition(s)
  /\ Bits(s) = 0 /\ s \notin {"flip8", "flip16", "flip32"}
  /\ walk' = [walk EXCEPT !.j = @ + 1, !.max = @ - 1]
  /\ UNCHANGED <<stage, entry, eff_map, dirty, subseq_tmouts, collect>>

(* The offsets a try at the current position changes in out_buf.           *)
Written(s) ==
  CASE Over(s)       -> walk.i .. walk.i + Tokens(s)[walk.j + 1] - 1
    [] s = "ext_UI"  -> {}
    [] Bits(s) > 0   -> (walk.i \div 8) .. ((walk.i + Bits(s) - 1) \div 8)
    [] OTHER         -> walk.i .. walk.i + Width(s) - 1

(* A value is tried.  The flip stages undo the change at once.             *)
TryValue(s) ==
  /\ InStage(s) /\ Live(s) /\ walk.j < PerPosition(s)
  /\ Over(s) => ~TokenUnfit(s)
  /\ \E r \in {"ok", "tmout", "skip", "stop"} :
       \/ RunGivesUp(r)
       \/ /\ ~GivesUp(r)
          /\ subseq_tmouts' = NextTmouts(r)
          /\ walk' = [walk EXCEPT !.j = @ + 1, !.cur = @ + 1,
                        !.last = IF Over(s) THEN Tokens(s)[walk.j + 1] ELSE 0]
          /\ dirty' = dirty \cup Written(s)
          /\ UNCHANGED <<stage, entry, eff_map, collect>>

\* Mutant: as many bytes are put back as the first token has.
Restored_First(s) == IF Over(s) THEN walk.i .. walk.i + Tokens(s)[1] - 1 ELSE Written(s)

(* The end of a position: the bytes changed there are put back, for tokens
   as many as the last one written had.                                    *)
Restored(s) == IF Over(s) THEN walk.i .. walk.i + walk.last - 1 ELSE Written(s)

NextPosition(s) ==
  /\ walk' = [walk EXCEPT !.i = @ + 1, !.j = 0, !.last = 0]
  /\ dirty' = dirty \ Restored(s)
  /\ UNCHANGED <<stage, entry, subseq_tmouts>>

EndPosition(s) ==
  /\ InStage(s) /\ walk.j = PerPosition(s)
  /\ s \notin {"flip1", "flip8"}
  /\ NextPosition(s)
  /\ UNCHANGED <<eff_map, collect>>

(* flip8 flags the entry of a byte whose inversion changed the checksum; in
   dumb mode and for short seeds it flags every byte.                      *)
EndFlip8(changed) ==
  /\ InStage("flip8") /\ walk.j = 1
  /\ (entry.dumb \/ entry.len < EFF_MIN_LEN) => changed
  /\ eff_map' = IF changed THEN eff_map \cup {EffPos(walk.i)} ELSE eff_map
  /\ NextPosition("flip8")
  /\ UNCHANGED collect

(* After the last bit of a byte flip1 looks for tokens: a run of bytes that
   all lead to the same checksum, which is not that of the seed.           *)
Fits(n) == n >= MIN_AUTO_EXTRA /\ n <= MAX_AUTO_EXTRA
Token(end, n) == [last |-> end, len |-> n]

Collected(sum, byte, final) ==
  LET c == collect
      force == final /\ sum = c.prev
      len1  == IF force THEN c.a_len + 1 ELSE c.a_len
      flush == force \/ sum # c.prev
      end   == IF force THEN byte ELSE byte - 1
      toks  == IF flush /\ Fits(len1) THEN c.tokens \cup {Token(end, len1)} ELSE c.tokens
      len2  == IF sum # c.prev THEN 0 ELSE len1
  IN [sums |-> Append(c.sums, sum), prev |-> sum, tokens |-> toks,
      a_len |-> IF sum # 0 THEN len2 + 1 ELSE len2]

EndFlip1(sum) ==
  /\ InStage("flip1") /\ walk.j = 1
  /\ collect' = IF walk.i % 8 = 7 /\ ~entry.dumb
                THEN Collected(sum, walk.i \div 8, walk.i = 8 * entry.len - 1)
                ELSE collect
  /\ walk.i % 8 # 7 => sum = 0
  /\ NextPosition("flip1")
  /\ UNCHANGED eff_map

(* The end of a stage, which adds stage_max to stage_cycles.  Before flip8
   the effector map is allocated with its first and last entry flagged;
   after it a dense map is flagged entirely.                               *)
EffAtStart(len) == {0, EffPos(len - 1)}
EffWhole(len) == 0 .. EffLen(len) - 1
Densify(m, len) ==
  IF Cardinality(m) # EffLen(len) /\ (Cardinality(m) * 100) \div EffLen(len) > EFF_MAX_PERC
  THEN EffWhole(len) ELSE m

EndStage(s) ==
  /\ stage = s /\ walk.i = Positions(s, entry.len)
  /\ StartStage(StageAt(IndexOf(s) + 1, entry), entry)
  /\ eff_map' = CASE s = "flip4" -> EffAtStart(entry.len)
                  [] s = "flip8" -> Densify(eff_map, entry.len)
                  [] OTHER -> eff_map
  /\ collect' = NoCollect
  /\ UNCHANGED <<entry, dirty, subseq_tmouts>>

(* All deterministic stages done: the seed is marked, and havoc follows
   (module Havoc).                                                         *)
MarkDetDone ==
  /\ stage = "done"
  /\ stage' = "havoc"
  /\ entry' = [entry EXCEPT !.passed_det = TRUE]
  /\ UNCHANGED <<walk, eff_map, dirty, subseq_tmouts, collect>>

HavocThenLeave(stopped) ==
  /\ stage = "havoc"
  /\ Abandon(stopped)
  /\ UNCHANGED subseq_tmouts

(***************************************************************************)
(* The stages, in the order of the code.                                   *)
(***************************************************************************)
WalkOn(s) == SkipDead(s) \/ SkipValue(s) \/ TryValue(s) \/ EndPosition(s) \/ EndStage(s)

WalkingBits  == (\E s \in {"flip1", "flip2", "flip4"} : WalkOn(s)) \/ \E sum \in Sums : EndFlip1(sum)
WalkingByte  == WalkOn("flip8") \/ \E c \in BOOLEAN : EndFlip8(c)
WalkingBytes == WalkOn("flip16") \/ WalkOn("flip32")
Arith8  == WalkOn("arith8")
Arith16 == WalkOn("arith16")
Arith32 == WalkOn("arith32")
Interest8  == WalkOn("int8")
Interest16 == WalkOn("int16")
Interest32 == WalkOn("int32")
OverwriteExtras == WalkOn("ext_UO")
InsertExtras    == WalkOn("ext_UI")
OverwriteAuto   == WalkOn("ext_AO")

StagesNext ==
  \/ \E l \in Lens, f \in {0, 1, 3}, b, d, n \in BOOLEAN :
       BeginEntry(l, f, FALSE, b, d, n) \/ (f = 0 /\ BeginEntry(l, f, TRUE, b, d, n))
  \/ \E ok, st \in BOOLEAN : Recalibrate(3, ok, st)
  \/ \E l \in Lens, mine, st \in BOOLEAN : TrimThenChoose(l, mine, st)
  \/ WalkingBits \/ WalkingByte \/ WalkingBytes
  \/ Arith8 \/ Arith16 \/ Arith32
  \/ Interest8 \/ Interest16 \/ Interest32
  \/ OverwriteExtras \/ InsertExtras \/ OverwriteAuto
  \/ MarkDetDone
  \/ \E st \in BOOLEAN : HavocThenLeave(st)

StagesSpec == StagesInit /\ [][StagesNext]_stageVars

(***************************************************************************)
(* Properties.                                                             *)
(***************************************************************************)
(* Whenever a stage moves to a new position, and whenever it hands over to
   the next, out_buf is the seed again.  The token stages restore only as
   many bytes as the last token had, which is enough because the tokens are
   sorted by length and the ones that do not fit are skipped.              *)
BufferRestored == (walk.j = 0 \/ stage = "havoc") => dirty = {}

(* The tokens flip1 hands to maybe_add_auto are exactly the maximal runs of
   bytes with one checksum other than the seed's, of an admissible length;
   also when the run reaches the end of the seed.                          *)
IsRun(s, a, b) ==
  /\ \A k \in a..b : s[k] = s[a]
  /\ a = 1 \/ s[a - 1] # s[a]
  /\ b = Len(s) \/ s[b + 1] # s[b]
  /\ s[a] # 0
TokensOf(s) ==
  {Token(p[2] - 1, p[2] - p[1] + 1) : p \in
     {p \in (1..Len(s)) \X (1..Len(s)) :
        p[1] <= p[2] /\ IsRun(s, p[1], p[2]) /\ Fits(p[2] - p[1] + 1)}}
TokensAreRuns ==
  (stage = "flip1" /\ Len(collect.sums) = entry.len) =>
     collect.tokens = TokensOf(collect.sums)

(* stage_cycles counts the runs a stage made, whatever it skipped on the
   way: at its end stage_max, which was lowered once for each run not made,
   is stage_cur.  (Insertion makes one round more than it plans.)          *)
CyclesAreRuns ==
  \A k \in 1..Len(DetStages) :
    LET s == DetStages[k]
    IN (stage = s /\ walk.i = Positions(s, entry.len) /\ s # "ext_UI") => walk.max = walk.cur

(* The deterministic stages are right: the seed is restored between two
   runs, the tokens found by flip1 are the runs of one checksum, and the
   numbers of runs are those the stages made (src/afl-fuzz.c:5440-6526).    *)
StagesRight == BufferRestored /\ TokensAreRuns /\ CyclesAreRuns
==============================================================================
