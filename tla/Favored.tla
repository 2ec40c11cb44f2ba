------------------------------- MODULE Favored ------------------------------
(***************************************************************************)
(* Which seeds of a target's queue are favored. top_rated[] holds, for     *)
(* every byte of the coverage bitmap, the cheapest seed that sets it;      *)
(* update_bitmap_score enters a seed into it and counts the references of  *)
(* every holder, whose trace is kept (trace_mini) as long as there are     *)
(* any. cull_queue picks from the holders a set that covers all bytes.     *)
(* Both walk the bitmap byte by byte, and so does the model.               *)
(***************************************************************************)
EXTENDS Naturals, FiniteSets

CONSTANTS MapSize,     \* bytes of the bitmap
          MaxEntries,  \* bound: seeds in the queue
          MaxFactor    \* bound: fav_factor, speed x size

ASSUME MapSizeAssumption == MapSize \in Nat \ {0}
ASSUME BoundsAssumption  == MaxEntries \in Nat \ {0} /\ MaxFactor \in Nat

Bytes == 0 .. MapSize - 1
Seeds == 0 .. MaxEntries - 1
NoSeed == MaxEntries
Traces == SUBSET Bytes
NoTrace == {MapSize}     \* a NULL trace_mini; no trace is like it

VARIABLES
  phase,           \* "idle", "score" or "cull": which walk is under way
  i,               \* the byte the walk is at
  q,               \* the seed being scored
  trace_bits,      \* what the last run of q set
  queued_paths,
  calibrated,      \* the seeds whose calibration succeeded
  was_fuzzed, trim_done, favored, fs_redundant,
  fav_factor,      \* exec_us * len of every seed
  top_rated, tc_ref, trace_mini,
  temp_v,          \* the bytes cull_queue has not covered yet
  score_changed, queued_favored, pending_favored,
  measured,        \* history: the trace a seed was scored with last
  varied           \* history: a seed was scored with two different traces

walk == <<phase, i, q, trace_bits>>
seeds == <<queued_paths, calibrated, was_fuzzed, trim_done, fav_factor,
           measured, varied>>
rating == <<top_rated, tc_ref, trace_mini>>
marks == <<favored, fs_redundant, temp_v, queued_favored, pending_favored>>
vars == <<walk, seeds, rating, marks, score_changed>>

Queue == 0 .. queued_paths - 1

Init ==
    /\ phase = "idle" /\ i = 0 /\ q = NoSeed /\ trace_bits = {}
    /\ queued_paths = 0
    /\ calibrated = {} /\ was_fuzzed = {} /\ trim_done = {}
    /\ favored = {} /\ fs_redundant = {}
    /\ fav_factor = [s \in Seeds |-> 0]
    /\ top_rated = [b \in Bytes |-> NoSeed]
    /\ tc_ref = [s \in Seeds |-> 0]
    /\ trace_mini = [s \in Seeds |-> NoTrace]
    /\ temp_v = {}
    /\ score_changed = FALSE
    /\ queued_favored = 0 /\ pending_favored = 0
    /\ measured = [s \in Seeds |-> {}]
    /\ varied = FALSE

----------------------------------------------------------------------------
(* update_bitmap_score                                                     *)

\* Seed s, whose last run set the bytes of t, is scored at cost f.
StartScore(s, t, f) ==
    /\ phase' = "score" /\ i' = 0 /\ q' = s /\ trace_bits' = t
    /\ fav_factor' = [fav_factor EXCEPT ![s] = f]
    /\ measured' = [measured EXCEPT ![s] = t]

\* The walk goes on to the next byte, or is over.
Onward ==
    /\ i' = IF i + 1 < MapSize THEN i + 1 ELSE 0
    /\ phase' = IF i + 1 < MapSize THEN phase ELSE "idle"
    /\ UNCHANGED <<q, trace_bits>>

\* Mutant: a seed wins however expensive it is.
Wins_Always == i \in trace_bits
\* q wins byte i: it sets it, and no cheaper seed holds it.
Wins ==
    /\ i \in trace_bits
    /\ top_rated[i] # NoSeed => fav_factor[q] <= fav_factor[top_rated[i]]

\* Mutant: the previous winner keeps its reference.
RefsWithout_Keep == tc_ref
\* The reference counts and the traces after byte i is taken from its holder.
RefsWithout ==
    IF top_rated[i] = NoSeed THEN tc_ref
    ELSE [tc_ref EXCEPT ![top_rated[i]] = @ - 1]
MiniWithout ==
    IF top_rated[i] # NoSeed /\ RefsWithout[top_rated[i]] = 0
    THEN [trace_mini EXCEPT ![top_rated[i]] = NoTrace]
    ELSE trace_mini

\* One byte of the loop of update_bitmap_score.
ScoreByte ==
    /\ phase = "score"
    /\ IF Wins
       THEN /\ top_rated' = [top_rated EXCEPT ![i] = q]
            /\ tc_ref' = [RefsWithout EXCEPT ![q] = @ + 1]
            /\ trace_mini' = IF MiniWithout[q] = NoTrace
                             THEN [MiniWithout EXCEPT ![q] = trace_bits]
                             ELSE MiniWithout
            /\ score_changed' = TRUE
       ELSE UNCHANGED <<rating, score_changed>>
    /\ Onward
    /\ UNCHANGED <<seeds, marks>>

----------------------------------------------------------------------------
(* Where seeds are scored                                                  *)

\* add_to_queue: a new seed, not calibrated yet.
AddToQueue ==
    /\ phase = "idle" /\ queued_paths < MaxEntries
    /\ queued_paths' = queued_paths + 1
    /\ UNCHANGED <<walk, calibrated, was_fuzzed, trim_done, fav_factor, measured,
                   varied, rating, marks, score_changed>>

\* calibrate_case succeeds for a seed that has not been calibrated yet.
Calibrate(s) ==
    /\ phase = "idle" /\ s \in Queue \ calibrated
    /\ \E t \in Traces \ {{}}, f \in 0 .. MaxFactor : StartScore(s, t, f)
    /\ calibrated' = calibrated \cup {s}
    /\ UNCHANGED <<queued_paths, was_fuzzed, trim_done, varied, rating, marks,
                   score_changed>>

\* trim_case, called once per seed before it is fuzzed, makes the seed shorter
\* and scores it again, with the trace of the trimmed file. If the target
\* behaves variably, that trace may be a different one.
Trim(s) ==
    /\ phase = "idle" /\ s \in calibrated \ (trim_done \cup was_fuzzed)
    /\ trim_done' = trim_done \cup {s}
    /\ \E t \in Traces \ {{}}, f \in 0 .. MaxFactor :
          /\ f < fav_factor[s]
          /\ StartScore(s, t, f)
          /\ varied' = (varied \/ t # measured[s])
    /\ UNCHANGED <<queued_paths, calibrated, was_fuzzed, rating, marks,
                   score_changed>>

\* pending_favored once seed s has been fuzzed.
PendingAfter(s) ==
    IF s \in favored THEN pending_favored - 1 ELSE pending_favored

\* fuzz_one is through with seed s for the first time.
Fuzzed(s) ==
    /\ phase = "idle" /\ s \in calibrated \ was_fuzzed
    /\ was_fuzzed' = was_fuzzed \cup {s}
    /\ pending_favored' = PendingAfter(s)
    /\ UNCHANGED <<walk, queued_paths, calibrated, fav_factor, measured, varied,
                   trim_done, rating, favored, fs_redundant, temp_v,
                   queued_favored, score_changed>>

----------------------------------------------------------------------------
(* cull_queue                                                              *)

StartCull ==
    /\ phase = "idle" /\ score_changed
    /\ phase' = "cull" /\ i' = 0
    /\ score_changed' = FALSE
    /\ temp_v' = Bytes
    /\ queued_favored' = 0 /\ pending_favored' = 0
    /\ favored' = {}
    /\ UNCHANGED <<q, trace_bits, seeds, rating, fs_redundant>>

\* Mutant: seeds that were fuzzed already are not picked.
Picks_Unfuzzed ==
    top_rated[i] # NoSeed /\ i \in temp_v /\ top_rated[i] \notin was_fuzzed
\* The holder of byte i is picked: nothing picked so far sets the byte.
Picks == top_rated[i] # NoSeed /\ i \in temp_v

\* One byte of the loop of cull_queue; the redundant seeds are marked after
\* the last one.
CullByte ==
    /\ phase = "cull"
    /\ IF Picks
       THEN LET s == top_rated[i]
            IN  /\ temp_v' = temp_v \ trace_mini[s]
                /\ favored' = favored \cup {s}
                /\ queued_favored' = queued_favored + 1
                /\ pending_favored' = IF s \in was_fuzzed THEN pending_favored
                                      ELSE pending_favored + 1
       ELSE UNCHANGED <<temp_v, favored, queued_favored, pending_favored>>
    /\ fs_redundant' = IF i + 1 = MapSize THEN Queue \ favored' ELSE fs_redundant
    /\ Onward
    /\ UNCHANGED <<seeds, rating, score_changed>>

Next == \/ AddToQueue \/ ScoreByte \/ StartCull \/ CullByte
        \/ \E s \in Seeds : Calibrate(s) \/ Trim(s) \/ Fuzzed(s)
Spec == Init /\ [][Next]_vars

----------------------------------------------------------------------------
(* Correctness                                                             *)

\* Type correctness: no counter goes below zero.
TypeOK ==
    /\ phase \in {"idle", "score", "cull"} /\ i \in Bytes
    /\ q \in Seeds \cup {NoSeed} /\ trace_bits \in Traces
    /\ queued_paths \in 0 .. MaxEntries
    /\ calibrated \subseteq Queue /\ was_fuzzed \subseteq calibrated
    /\ trim_done \subseteq calibrated
    /\ favored \subseteq Queue /\ fs_redundant \subseteq Queue
    /\ fav_factor \in [Seeds -> 0 .. MaxFactor]
    /\ top_rated \in [Bytes -> Queue \cup {NoSeed}]
    /\ tc_ref \in [Seeds -> 0 .. MapSize]
    /\ trace_mini \in [Seeds -> Traces \cup {NoTrace}]
    /\ temp_v \in Traces
    /\ score_changed \in BOOLEAN
    /\ queued_favored \in Nat /\ pending_favored \in Nat
    /\ measured \in [Seeds -> Traces] /\ varied \in BOOLEAN

Held(s) == {b \in Bytes : top_rated[b] = s}

\* In the middle of every walk, tc_ref counts the bytes a seed holds.
RefsRight == \A s \in Seeds : tc_ref[s] = Cardinality(Held(s))

\* A seed's trace is kept exactly as long as the seed holds a byte:
\* cull_queue reads the trace of every holder and must not meet a NULL.
MiniKept == \A s \in Seeds : trace_mini[s] = NoTrace <=> Held(s) = {}

\* Between walks, the holder of a byte is the cheapest of all seeds whose last
\* scored run set it.
CheapestHolds ==
    phase = "idle" =>
        \A s \in calibrated : \A b \in measured[s] :
            /\ top_rated[b] # NoSeed
            /\ fav_factor[top_rated[b]] <= fav_factor[s]

\* As long as no score has changed since the queue was culled, the favored
\* seeds cover every byte that any seed covers, and none of them is marked
\* redundant.
FavoredCover ==
    phase = "idle" /\ ~score_changed =>
        /\ \A b \in Bytes : top_rated[b] # NoSeed =>
              \E s \in favored : s = top_rated[b] \/ b \in trace_mini[s]
        /\ favored \cap fs_redundant = {}

\* The two counters that steer fuzz_one's skipping are the numbers of favored
\* seeds and of those not fuzzed yet, unless a seed was scored with two traces.
CountsRight ==
    phase = "idle" /\ ~varied =>
        /\ queued_favored = Cardinality(favored)
        /\ pending_favored = Cardinality(favored \ was_fuzzed)

\* In the middle of every walk the references, the kept traces and the
\* counters agree with top_rated (src/afl-fuzz.c:1486-1625).
MarksSound == TypeOK /\ RefsRight /\ MiniKept /\ CountsRight
=============================================================================
