-------------------------------- MODULE Havoc ---------------------------------
(***************************************************************************)
(* The end of fuzz_one (src/afl-fuzz.c:6535-7106): how long the havoc      *)
(* stage runs, how finds prolong it, and how splicing starts it again, with *)
(* the scores that decide about it (calculate_score, calculate_factor).    *)
(***************************************************************************)
EXTENDS Integers, Sequences, FiniteSets

CONSTANTS
  SpeedScores,   \* classes of calculate_score by speed (10 to 300)
  SizeMults,     \* multipliers by bitmap size, in quarters (1 to 12)
  Handicaps, Depths,
  Factors,       \* values of calculate_factor, in halves
  HAVOC_CYCLES, HAVOC_CYCLES_INIT, SPLICE_HAVOC, HAVOC_MIN, HAVOC_MAX_MULT,
  SPLICE_CYCLES,
  StageValues    \* values of stage_max: 2^32 in the code

ASSUME HavocAssumption ==
  /\ SpeedScores \subseteq Nat /\ SizeMults \subseteq Nat
  /\ Handicaps \subseteq Nat /\ Depths \subseteq Nat /\ Factors \subseteq Nat
  /\ {HAVOC_CYCLES, HAVOC_CYCLES_INIT, SPLICE_HAVOC, HAVOC_MIN, HAVOC_MAX_MULT} \subseteq Nat
  /\ StageValues \in Nat \ {0}

VARIABLES
  hstage,        \* "idle", "havoc", "leaving"
  havoc,         \* see HavocType
  handicap       \* of queue_cur

havocVars == <<hstage, havoc, handicap>>

NoHavoc == [cur |-> 0, max |-> 0, perf |-> 0, orig |-> 0,
            splice |-> 0, start |-> 0, cycles |-> 0, lifted |-> FALSE]

HavocInit == hstage = "idle" /\ havoc = NoHavoc /\ handicap \in Handicaps

Larger(a, b) == IF a < b THEN b ELSE a
Smaller(a, b) == IF a < b THEN a ELSE b

(* calculate_score: speed class, size multiplier, handicap, depth.         *)
DepthMult(d) == CASE d \in 0..3 -> 1 [] d \in 4..7 -> 2 [] d \in 8..13 -> 3
                  [] d \in 14..25 -> 4 [] OTHER -> 5
HandicapMult(h) == IF h >= 4 THEN 4 ELSE IF h > 0 THEN 2 ELSE 1
HandicapLeft(h) == IF h >= 4 THEN h - 4 ELSE IF h > 0 THEN h - 1 ELSE 0
Score(speed, size, h, d) ==
  Smaller(((speed * size) \div 4) * HandicapMult(h) * DepthMult(d), HAVOC_MAX_MULT * 100)

(* stage_max is a signed integer that wraps around when it is doubled.     *)
Wrapped(x) == LET r == x % StageValues
              IN IF r >= StageValues \div 2 THEN r - StageValues ELSE r

(* The top of the havoc stage: the score times the factor gives the number
   of runs, HAVOC_MIN at least.                                            *)
Started(cycles, orig, factor, splice) ==
  LET perf == (orig * factor) \div 2
      runs == (cycles * perf) \div 100
  IN [cur |-> 0, perf |-> perf, orig |-> orig, splice |-> splice,
      max |-> Larger(runs, HAVOC_MIN), start |-> Larger(runs, HAVOC_MIN),
      cycles |-> cycles, lifted |-> runs < HAVOC_MIN]

EnterHavoc(speed, size, depth, det, factor) ==
  /\ hstage = "idle"
  /\ handicap' = HandicapLeft(handicap)
  /\ havoc' = Started(IF det THEN HAVOC_CYCLES_INIT ELSE HAVOC_CYCLES,
                      Score(speed, size, handicap, depth), factor, 0)
  /\ hstage' = "havoc"

(* One round: tweak, run, restore.  With new paths the stage is made twice
   as long as long as the score permits.                                   *)
HavocRound(finds) ==
  /\ hstage = "havoc" /\ havoc.cur < havoc.max
  /\ LET more == finds /\ havoc.perf <= HAVOC_MAX_MULT * 100
     IN havoc' = [havoc EXCEPT !.cur = @ + 1,
                    !.max = IF more THEN Wrapped(2 * @) ELSE @,
                    !.perf = IF more THEN 2 * @ ELSE @]
  /\ UNCHANGED <<hstage, handicap>>

(* The run makes fuzz_one give the seed up.                                *)
HavocAbandon ==
  /\ hstage = "havoc" /\ havoc.cur < havoc.max
  /\ hstage' = "leaving"
  /\ UNCHANGED <<havoc, handicap>>

(* retry_splicing: as long as there are splice cycles left another seed is
   tried; one that is too short, the same, or not different enough uses a
   cycle up.                                                               *)
SpliceAgain(factor) ==
  /\ hstage = "havoc" /\ havoc.cur >= havoc.max
  /\ havoc.splice < SPLICE_CYCLES
  /\ havoc' = Started(SPLICE_HAVOC, havoc.orig, factor, havoc.splice + 1)
  /\ UNCHANGED <<hstage, handicap>>

SpliceRetry ==
  /\ hstage = "havoc" /\ havoc.cur >= havoc.max
  /\ havoc.splice < SPLICE_CYCLES
  /\ havoc' = [havoc EXCEPT !.splice = @ + 1]
  /\ UNCHANGED <<hstage, handicap>>

(* Without -z, with one seed only, with a seed of one byte, or when the
   cycles are used up, fuzz_one is done.                                   *)
HavocDone ==
  /\ hstage = "havoc" /\ havoc.cur >= havoc.max
  /\ hstage' = "leaving"
  /\ UNCHANGED <<havoc, handicap>>

LeaveEntry ==
  /\ hstage = "leaving"
  /\ hstage' = "idle" /\ havoc' = NoHavoc
  /\ UNCHANGED handicap

HavocNext ==
  \/ \E s \in SpeedScores, m \in SizeMults, d \in Depths, det \in BOOLEAN, f \in Factors :
       EnterHavoc(s, m, d, det, f)
  \/ \E finds \in BOOLEAN : HavocRound(finds)
  \/ HavocAbandon
  \/ \E f \in Factors : SpliceAgain(f)
  \/ SpliceRetry
  \/ HavocDone
  \/ LeaveEntry

(* The fuzzer goes on as long as it is not stopped; that a run returns is
   the property EveryCallReturns of ForkServer.                            *)
HavocSpec == HavocInit /\ [][HavocNext]_havocVars /\ WF_havocVars(HavocNext)

(***************************************************************************)
(* Properties.                                                             *)
(***************************************************************************)
(* Every call of fuzz_one comes back: finds cannot prolong havoc for ever,
   not even when the score is 0 and stays 0 when it is doubled (then the
   overflow of stage_max ends the stage), and retries of splicing run out. *)
HavocReturns == (hstage = "havoc") ~> (hstage = "idle")

(* config.h:95: HAVOC_MAX_MULT is the maximum multiplier of the number of
   cycles.  Finds do not lengthen a stage past twice that.                 *)
MostRuns == (2 * HAVOC_MAX_MULT * havoc.cycles)
HavocCapped == havoc.max <= Larger(havoc.start, MostRuns)

(* The same for the stages whose length the score decided and HAVOC_MIN did
   not lift.                                                               *)
ScaledHavocCapped == ~havoc.lifted => HavocCapped

-----------------------------------------------------------------------------
(***************************************************************************)
(* The buffer of the havoc stage (src/afl-fuzz.c:6575-7078): stacked tweaks *)
(* that move out_buf, grow and shrink it, its restoration after each run,   *)
(* and the choice of the place where splicing joins two seeds.  Contents    *)
(* matter for splicing only; otherwise a buffer is its length temp_len and  *)
(* the size it was allocated with.  How many runs there are is above, which *)
(* shares no state with this part.                                         *)
(***************************************************************************)
CONSTANTS
  MAX_FILE,
  Blocks,        \* <<HAVOC_BLK_SMALL, _MEDIUM, _LARGE, _XL>>
  UserTokens,    \* lengths of the user's tokens
  AutoTokens,    \* lengths of the auto tokens
  StartLens,     \* lengths of seeds
  SpliceBytes    \* values of a byte that splicing tells apart

ASSUME HavocOpsAssumption ==
  /\ Blocks \in [1 .. 4 -> Nat \ {0}] /\ \A k \in 1..3 : Blocks[k] <= Blocks[k + 1]
  /\ MAX_FILE \in Nat /\ StartLens \subseteq 1 .. MAX_FILE
  /\ UserTokens \subseteq Nat /\ AutoTokens \subseteq Nat
XL == Blocks[4]

VARIABLES
  hphase,        \* "seed", "tweak", "splice"
  orig,          \* length of the seed, queue_cur->len
  len,           \* length of in_buf: the seed, or two seeds joined
  temp_len,      \* current length of out_buf
  cap,           \* bytes allocated for out_buf
  access,        \* the last accesses: set of [at, n, of] with of the limit
  splice         \* [seed, other, first, last, at] once a place is chosen

opsVars == <<hphase, orig, len, temp_len, cap, access, splice>>

NoSplice == [seed |-> <<>>, other |-> <<>>, first |-> -1, last |-> -1, at |-> 0]

OpsInit == /\ hphase = "seed" /\ orig = 0 /\ len = 0 /\ temp_len = 0 /\ cap = 0
           /\ access = {} /\ splice = NoSplice

LoadSeed(l) ==
  /\ hphase = "seed"
  /\ hphase' = "tweak" /\ orig' = l /\ len' = l /\ temp_len' = l /\ cap' = l
  /\ UNCHANGED <<access, splice>>

(* choose_block_len: the lengths it can return for this limit.             *)
Smallest(a, b) == IF a < b THEN a ELSE b
LensOfClass(k, limit) ==
  (IF k = 1 \/ Blocks[k - 1] >= limit THEN 1 ELSE Blocks[k - 1]) .. Smallest(Blocks[k], limit)
BlockLens(limit) == UNION {LensOfClass(k, limit) : k \in 1..4}

Tweaking == hphase = "tweak"
Touch(at, n) == [at |-> at, n |-> n, of |-> cap]
InPlace(at, n) ==
  /\ access' = {Touch(at, n)}
  /\ UNCHANGED <<hphase, orig, len, temp_len, cap, splice>>

(* Tweaks of a byte, a word or a double word at a random offset; the wider
   ones need a buffer that long.                                           *)
TweakWidth(w) ==
  /\ Tweaking /\ temp_len >= w
  /\ \E at \in 0 .. temp_len - w : InPlace(at, w)

FlipOrSetInteresting == \E w \in {1, 2, 4} : TweakWidth(w)
AddSubtractOrRandom  == \E w \in {1, 2, 4} : TweakWidth(w)

(* Deletion: the tail moves down over the block.                           *)
DeleteBlock ==
  /\ Tweaking /\ temp_len >= 2
  /\ \E n \in BlockLens(temp_len - 1) : \E from \in 0 .. temp_len - n :
       /\ access' = {Touch(from, temp_len - from - n), Touch(from + n, temp_len - from - n)}
       /\ temp_len' = temp_len - n
  /\ UNCHANGED <<hphase, orig, len, cap, splice>>

(* A new buffer: head, inserted block, tail.                               *)
Insert(at, n, source) ==
  /\ access' = source \cup
       {[at |-> 0, n |-> at, of |-> cap],
        [at |-> at, n |-> temp_len - at, of |-> cap],
        [at |-> at + n, n |-> temp_len - at, of |-> temp_len + n]}
  /\ temp_len' = temp_len + n /\ cap' = temp_len + n
  /\ UNCHANGED <<hphase, orig, len, splice>>

CloneBlock ==
  /\ Tweaking /\ temp_len + XL < MAX_FILE
  /\ \E at \in 0 .. temp_len - 1 :
       \/ \E n \in BlockLens(temp_len) : \E from \in 0 .. temp_len - n :
            Insert(at, n, {Touch(from, n)})
       \/ \E n \in BlockLens(XL) : Insert(at, n, {})

OverwriteBlock ==
  /\ Tweaking /\ temp_len >= 2
  /\ \E n \in BlockLens(temp_len - 1) : \E from, to \in 0 .. temp_len - n :
       access' = {Touch(from, n), Touch(to, n)}
  /\ UNCHANGED <<hphase, orig, len, temp_len, cap, splice>>

(* Tokens: offered only if there are any; an auto token is taken only from
   a table that is not empty.                                              *)
OverwriteToken ==
  /\ Tweaking
  /\ \E n \in UserTokens \cup AutoTokens :
       /\ n <= temp_len
       /\ \E at \in 0 .. temp_len - n : InPlace(at, n)

InsertToken ==
  /\ Tweaking
  /\ \E n \in UserTokens \cup AutoTokens :
       /\ temp_len + n < MAX_FILE
       /\ \E at \in 0 .. temp_len : Insert(at, n, {})

\* Mutant: the seed is copied back without reallocating.
RunAndRestore_NoGrow ==
  /\ Tweaking
  /\ cap' = IF temp_len < len THEN temp_len ELSE cap
  /\ access' = {[at |-> 0, n |-> len, of |-> cap']}
  /\ temp_len' = len
  /\ UNCHANGED <<hphase, orig, len, splice>>

(* The run, and the restoration: a buffer that became shorter than the seed
   is reallocated before the seed is copied back.                          *)
RunAndRestore ==
  /\ Tweaking
  /\ cap' = IF temp_len < len THEN len ELSE cap
  /\ access' = {[at |-> 0, n |-> len, of |-> cap']}
  /\ temp_len' = len
  /\ UNCHANGED <<hphase, orig, len, splice>>

(***************************************************************************)
(* Splicing.                                                               *)
(***************************************************************************)
(* locate_diffs: the first and last offset where the two differ, -1 if
   there is none, over the common length.                                  *)
DiffSeen(fl, a, b, k) ==
  IF a[k] = b[k] THEN fl ELSE <<IF fl[1] = -1 THEN k - 1 ELSE fl[1], k - 1>>
DiffScan(a, b, n) ==
  LET seen[k \in 0..n] ==
        IF k = 0 THEN <<-1, -1>> ELSE DiffSeen(seen[k - 1], a, b, k)
  IN seen
locate_diffs(a, b, n) == DiffScan(a, b, n)[n]

Contents(n) == [1..n -> SpliceBytes]

(* The seed itself, whatever it was joined with before, is joined with
   another one of at least two bytes somewhere from the first difference to
   before the last.                                                        *)
Splice ==
  /\ Tweaking /\ temp_len = len /\ orig > 1
  /\ \E m \in StartLens \ {1} : \E a \in Contents(orig), b \in Contents(m) :
       LET fl == locate_diffs(a, b, Smallest(orig, m))
       IN /\ ~(fl[1] < 0 \/ fl[2] < 2 \/ fl[1] = fl[2])
          /\ \E at \in fl[1] .. fl[2] - 1 :
               splice' = [seed |-> a, other |-> b, first |-> fl[1], last |-> fl[2], at |-> at]
  /\ hphase' = "splice" /\ len' = orig
  /\ UNCHANGED <<orig, temp_len, cap, access>>

Joined(s) == [k \in 1..Len(s.other) |-> IF k <= s.at THEN s.seed[k] ELSE s.other[k]]

HavocJoined ==
  /\ hphase = "splice"
  /\ hphase' = "tweak"
  /\ len' = Len(splice.other) /\ temp_len' = Len(splice.other)
  /\ cap' = Len(splice.other)
  /\ access' = {[at |-> 0, n |-> splice.at, of |-> Len(splice.other)]}
  /\ splice' = NoSplice
  /\ UNCHANGED orig

LeaveSeed == Tweaking /\ hphase' = "seed" /\ orig' = 0 /\ len' = 0 /\ temp_len' = 0 /\ cap' = 0
             /\ access' = {} /\ splice' = NoSplice

OpsNext ==
  \/ \E l \in StartLens : LoadSeed(l)
  \/ FlipOrSetInteresting \/ AddSubtractOrRandom
  \/ DeleteBlock \/ CloneBlock \/ OverwriteBlock \/ OverwriteToken \/ InsertToken
  \/ RunAndRestore \/ Splice \/ HavocJoined \/ LeaveSeed

OpsSpec == OpsInit /\ [][OpsNext]_opsVars

(***************************************************************************)
(* Properties.                                                             *)
(***************************************************************************)
(* However tweaks are stacked, every access stays inside the memory it is
   made in, the buffer never becomes empty (offsets are taken modulo its
   length), and it does not outgrow MAX_FILE.                              *)
AccessInBounds ==
  /\ \A x \in access : x.at >= 0 /\ x.n >= 0 /\ x.at + x.n <= x.of
  /\ hphase = "tweak" => temp_len > 0 /\ temp_len <= cap /\ temp_len <= MAX_FILE

(* A splice is never the seed itself: at least the last difference comes
   from the other seed.  (It can be the other seed: the place may be the
   first difference.)                                                      *)
SpliceIsNew == hphase = "splice" => Joined(splice) # splice.seed

(* The random stages are right: the number of runs stays within what the   *)
(* score allows, and whatever tweaks are stacked stay in their buffers     *)
(* (src/afl-fuzz.c:5131-5195, 6527-7113).                                  *)
HavocRight == ScaledHavocCapped /\ AccessInBounds /\ SpliceIsNew
===============================================================================
