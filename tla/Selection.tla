------------------------------ MODULE Selection ------------------------------
(***************************************************************************)
(* select_target (src/afl-fuzz.c:8448-8667): which target is fuzzed next.  *)
(* A target's score is the estimate of get_prob_share_time                 *)
(* (src/kde/interface.cpp), made from the conditions the last runs logged, *)
(* plus a term for how often it was selected, both scaled by nomalize to   *)
(* the range seen so far.  Scores are in sixtieths; a double that is not a    *)
(* number is a value of its own.                                           *)
(***************************************************************************)
EXTENDS Integers, Sequences, FiniteSets

CONSTANTS TargetCount,     \* target_num
          Windows,         \* logs that a round of fuzzing can leave behind
          MaxSelections,   \* bound on the calls of select_target
          Log7200          \* [n -> 7200 log(n), rounded]

(* log(n) is at most n - 1, and 0 for 1. *)
ASSUME SelectionAssumption ==
  /\ TargetCount \in Nat \ {0} /\ MaxSelections \in Nat
  /\ \A n \in 1 .. MaxSelections : Log7200[n] \in 0 .. 7200 * (n - 1)
  /\ Windows \subseteq Seq([index : Int, expr : Seq(Int), low : Seq(Int), high : Seq(Int),
                            andor : Int, is_negated : Int])

VARIABLES
  chosen,               \* cur_target
  has_finished_sample,
  selected_time,        \* [target -> how often it was chosen]
  total_select_time,
  prob_scores, select_scores, mdafl_scores,
  history               \* [kind -> [lo, hi]] : what get_min and get_max return

selectionVars == <<chosen, has_finished_sample, selected_time, total_select_time,
                   prob_scores, select_scores, mdafl_scores, history>>

Targets == 0 .. TargetCount - 1
Unit == 60                     \* the double 1.0
NaN == -100000                  \* stands for a double that is not a number

Sum(a, b) == IF NaN \in {a, b} THEN NaN ELSE a + b
Exceeds(a, b) == NaN \notin {a, b} /\ a > b        \* a comparison with a NaN is false

-----------------------------------------------------------------------------
(***************************************************************************)
(* The estimate.  A record of the log: the condition's index, the two      *)
(* values compared, the two windows, and how they are joined.  The kernel  *)
(* estimate is abstracted to steps at the samples: what counts is that it  *)
(* grows from 0 to 1 and that samples which are all equal have bandwidth   *)
(* 0, which makes every density, and so the result, a NaN.                 *)
(***************************************************************************)
default_bandwidth(xs) == IF \E i, j \in DOMAIN xs : xs[i] # xs[j] THEN 1 ELSE 0

cdf(xs, x) ==
  IF default_bandwidth(xs) = 0 THEN NaN
  ELSE (Unit * Cardinality({i \in DOMAIN xs : xs[i] <= x})) \div Cardinality(DOMAIN xs)

Between(xs, low, high) ==
  LET l == cdf(xs, low)
      h == cdf(xs, high)
  IN IF l = NaN THEN NaN ELSE l - h

estimate_01_likelihood(xs) ==
  (Unit * (1 + Cardinality({i \in DOMAIN xs : xs[i] # 0}))) \div (6 + Cardinality(DOMAIN xs))

Biggest(log) == CHOOSE k \in {log[i].index : i \in DOMAIN log} :
                  \A i \in DOMAIN log : log[i].index <= k

(* The last record of the condition gives its windows. *)
Arithmetic(last, xs, ys) ==
  LET p0 == Between(xs, last.low[1], last.high[1])
      p1 == IF last.low[2] # -1 /\ last.high[2] # -1
            THEN Between(ys, last.low[2], last.high[2]) ELSE Unit
  IN IF NaN \in {p0, p1} THEN NaN
     ELSE IF last.andor # 0 THEN (p0 * p1) \div Unit ELSE p0 + p1

get_prob_share_time(log) ==
  IF log = <<>> THEN Unit
  ELSE LET mine == {i \in DOMAIN log : log[i].index = Biggest(log)}
           last == log[CHOOSE i \in mine : \A j \in mine : j <= i]
           xs == [i \in mine |-> log[i].expr[1]]
           ys == [i \in mine |-> log[i].expr[2]]
           p == IF last.low[1] = -1 /\ last.high[1] = -1
                THEN estimate_01_likelihood(xs)
                ELSE Arithmetic(last, xs, ys)
       IN IF last.is_negated = 0 /\ p # NaN THEN Unit - p ELSE p

(* sqrt(2 log(n) / N), rounded up: log(0) is minus infinity and its root   *)
(* is not a number.                                                        *)
Term(n, total) ==
  IF n = 0 THEN NaN
  ELSE CHOOSE r \in 0 .. 85 : /\ r * r * total >= Log7200[n]
                              /\ \A q \in 0 .. r - 1 : q * q * total < Log7200[n]

-----------------------------------------------------------------------------
NoRange == [lo |-> 100000, hi |-> 0]     \* LONG_MAX and 0

SelectionInit ==
  /\ chosen = 0 /\ has_finished_sample = FALSE
  /\ selected_time = [t \in Targets |-> 0] /\ total_select_time = 0
  /\ prob_scores = [t \in Targets |-> 0] /\ select_scores = [t \in Targets |-> 0]
  /\ mdafl_scores = [t \in Targets |-> 0]
  /\ history = [prob |-> NoRange, select |-> NoRange]

(* vector_add, get_min, get_max: a maximum below 0 is reported as 0. *)
Widened(r, x) == [lo |-> IF x < r.lo THEN x ELSE r.lo, hi |-> IF x > r.hi THEN x ELSE r.hi]

Scaled(r, x) == IF r.lo # r.hi THEN (Unit * (x - r.lo)) \div (r.hi - r.lo) ELSE x

Unstable(p, s) == NaN \in {p, s} \/ p = 0 \/ s = 0

nomalize(p, s) ==
  LET rp == Widened(history.prob, p)
      rs == Widened(history.select, s)
  IN IF Unstable(p, s) THEN [prob |-> p, select |-> s, history |-> history]
     ELSE [prob |-> Scaled(rp, p), select |-> Scaled(rs, s),
           history |-> [prob |-> rp, select |-> rs]]

(* The loop over all targets keeps the first of the highest scores above   *)
(* the one of the current target.                                          *)
Highest(scores) ==
  LET better == {t \in Targets : Exceeds(scores[t], scores[chosen])}
      best == {t \in better : \A u \in better : scores[u] <= scores[t]}
  IN IF better = {} THEN chosen ELSE CHOOSE t \in best : \A u \in best : t <= u

\* Mutant: a score of 0 counts as sampled.
Positive_Zero(x) == x # NaN

Positive(x) == x # NaN /\ x > 0

select_target(log) ==
  LET p == get_prob_share_time(log)
      s == IF total_select_time = 0 THEN NaN ELSE Term(selected_time[chosen], total_select_time)
      n == nomalize(p, s)
      sel == [t \in Targets |-> IF t = chosen THEN n.select
                ELSE IF total_select_time = 0 THEN NaN
                     ELSE Term(selected_time[t], total_select_time)]
      probs == [prob_scores EXCEPT ![chosen] = n.prob]
      scores == [t \in Targets |-> Sum(probs[t], sel[t])]
      sampled == scores[chosen] # NaN /\ Positive(p) /\ Positive(s)
      next == IF has_finished_sample THEN Highest(scores)
              ELSE IF sampled /\ chosen + 1 < TargetCount THEN chosen + 1 ELSE chosen
  IN /\ total_select_time < MaxSelections
     /\ prob_scores' = probs /\ select_scores' = sel /\ mdafl_scores' = scores
     /\ history' = n.history
     /\ has_finished_sample' = (has_finished_sample \/ (sampled /\ chosen + 1 >= TargetCount))
     /\ chosen' = next
     /\ selected_time' = [selected_time EXCEPT ![next] = @ + 1]
     /\ total_select_time' = total_select_time + 1

SelectionNext == \E log \in Windows : select_target(log)
SelectionSpec == SelectionInit /\ [][SelectionNext]_selectionVars

-----------------------------------------------------------------------------
(* Once the sampling is over every target but the current one has a score  *)
(* that is a number and was selected, so that the comparison of the scores *)
(* can pick it; a NaN in the log of one target must never get past it.     *)
OthersScored ==
  has_finished_sample =>
    \A t \in Targets \ {chosen} : mdafl_scores[t] # NaN /\ selected_time[t] >= 2

(* While the sampling lasts the targets behind the current one have had    *)
(* their turn and those ahead of it have not.                              *)
SampledInOrder ==
  ~has_finished_sample =>
    \A t \in Targets : /\ t < chosen => prob_scores[t] # NaN /\ selected_time[t] >= 2
                       /\ t > chosen => selected_time[t] = 0

(* record.md:5,9 : a probability above 1 was a problem and is solved. *)
ProbabilityAtMostOne == \A t \in Targets : ~Exceeds(prob_scores[t], Unit)

(* The selection of targets is right in both phases
   (src/afl-fuzz.c:8448-8667).                                             *)
SelectionRight == OthersScored /\ SampledInOrder
=============================================================================
