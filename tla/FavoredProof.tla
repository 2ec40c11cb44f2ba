---------------------------- MODULE FavoredProof ----------------------------
(***************************************************************************)
(* Proofs about the favored seeds, for every size of the bitmap and every  *)
(* number of seeds. Each invariant of the runs is strengthened by what     *)
(* holds in the middle of the two walks over the bitmap.                   *)
(***************************************************************************)
EXTENDS Favored, FiniteSetTheorems, TLAPS

\* Types, and what is being scored.
TypeInv ==
    /\ phase \in {"idle", "score", "cull"} /\ i \in Bytes
    /\ queued_paths \in 0 .. MaxEntries
    /\ calibrated \subseteq Queue /\ was_fuzzed \subseteq calibrated
    /\ trim_done \subseteq calibrated
    /\ favored \subseteq calibrated /\ fs_redundant \subseteq Queue
    /\ fav_factor \in [Seeds -> 0 .. MaxFactor]
    /\ top_rated \in [Bytes -> calibrated \cup {NoSeed}]
    /\ tc_ref \in [Seeds -> Int]
    /\ trace_mini \in [Seeds -> Traces \cup {NoTrace}]
    /\ temp_v \in Traces
    /\ score_changed \in BOOLEAN
    /\ queued_favored \in Nat /\ pending_favored \in Int
    /\ measured \in [Seeds -> Traces] /\ varied \in BOOLEAN
    /\ q \in Seeds \cup {NoSeed} /\ trace_bits \in Traces
    /\ phase = "score" => q \in calibrated /\ trace_bits = measured[q]

\* A byte that the scored seed sets is settled once the walk is past it.
Cheapest ==
    \A s \in calibrated : \A b \in measured[s] :
        \/ phase = "score" /\ s = q /\ b >= i
        \/ /\ top_rated[b] # NoSeed
           /\ fav_factor[top_rated[b]] <= fav_factor[s]

\* While cull_queue is at byte i, every byte that temp_v has lost is covered
\* by a favored seed, and no byte before i is left to a seed that is not.
Covered(b) == \E s \in favored : b \in trace_mini[s]
Cover ==
    /\ phase = "cull" =>
          /\ ~score_changed
          /\ \A b \in Bytes \ temp_v : Covered(b)
          /\ \A b \in 0 .. i - 1 : top_rated[b] # NoSeed =>
                Covered(b) \/ top_rated[b] \in favored
    /\ phase # "cull" /\ ~score_changed =>
          /\ \A b \in Bytes : top_rated[b] # NoSeed =>
                Covered(b) \/ top_rated[b] \in favored
          /\ favored \cap fs_redundant = {}

\* pending_favored is never too low; with steady traces both counters are
\* exact, because a favored seed leaves none of its own bytes in temp_v.
Pending == pending_favored >= Cardinality(favored \ was_fuzzed)
Steady ==
    ~varied =>
        /\ \A s \in Seeds : trace_mini[s] # NoTrace => trace_mini[s] = measured[s]
        /\ \A b \in Bytes : top_rated[b] # NoSeed => b \in measured[top_rated[b]]
        /\ queued_favored = Cardinality(favored)
        /\ pending_favored = Cardinality(favored \ was_fuzzed)
        /\ phase = "cull" => \A s \in favored : temp_v \cap trace_mini[s] = {}

IInv == TypeInv /\ RefsRight /\ MiniKept /\ Cheapest /\ Cover /\ Pending /\ Steady

-----------------------------------------------------------------------------
(* Constants and finite sets.                                              *)

LEMMA Sizes ==
    /\ MapSize \in Nat \ {0} /\ MaxEntries \in Nat \ {0} /\ MaxFactor \in Nat
    /\ NoSeed \notin Seeds
    /\ NoTrace \notin Traces
BY MapSizeAssumption, BoundsAssumption DEF NoSeed, Seeds, NoTrace, Traces, Bytes

LEMMA FiniteBytes ==
    ASSUME NEW S, S \subseteq Bytes
    PROVE  IsFiniteSet(S) /\ Cardinality(S) \in 0 .. MapSize
<1>1. IsFiniteSet(Bytes) /\ Cardinality(Bytes) = MapSize
  BY Sizes, FS_Interval DEF Bytes
<1> QED BY <1>1, Sizes, FS_Subset, FS_CardinalityType

LEMMA FiniteSeeds ==
    ASSUME NEW S, S \subseteq Seeds
    PROVE  IsFiniteSet(S) /\ Cardinality(S) \in Nat
<1>1. IsFiniteSet(Seeds)
  BY Sizes, FS_Interval DEF Seeds
<1> QED BY <1>1, FS_Subset, FS_CardinalityType

LEMMA Prefixes == \A n \in 0 .. MaxEntries : 0 .. n - 1 \subseteq Seeds
BY Sizes DEF Seeds

LEMMA SeedsInQueue == TypeInv => Queue \subseteq Seeds /\ calibrated \subseteq Seeds
BY Sizes DEF TypeInv, Queue, Seeds

-----------------------------------------------------------------------------
(* Types.                                                                  *)

LEMMA TypeInit == Init => TypeInv
<1> SUFFICES ASSUME Init PROVE TypeInv
  OBVIOUS
<1>1. 0 \in Bytes /\ 0 \in 0 .. MaxEntries /\ 0 \in 0 .. MaxFactor
  BY Sizes DEF Bytes
<1>2. {} \in Traces
  BY DEF Traces
<1>3. /\ top_rated \in [Bytes -> calibrated \cup {NoSeed}]
      /\ tc_ref \in [Seeds -> Int]
      /\ trace_mini \in [Seeds -> Traces \cup {NoTrace}]
      /\ fav_factor \in [Seeds -> 0 .. MaxFactor]
      /\ measured \in [Seeds -> Traces]
  BY <1>1, <1>2 DEF Init
<1>4. /\ phase = "idle" /\ i = 0 /\ q = NoSeed /\ trace_bits = {}
      /\ queued_paths = 0 /\ calibrated = {} /\ was_fuzzed = {}
      /\ trim_done = {} /\ favored = {} /\ fs_redundant = {} /\ temp_v = {}
      /\ score_changed = FALSE /\ varied = FALSE
      /\ queued_favored = 0 /\ pending_favored = 0
  BY DEF Init
<1>5. phase \in {"idle", "score", "cull"} /\ i \in Bytes /\ queued_paths \in 0 .. MaxEntries
  BY <1>1, <1>4
<1>6.  calibrated \subseteq Queue /\ was_fuzzed \subseteq calibrated
    /\ trim_done \subseteq calibrated
    /\ favored \subseteq calibrated /\ fs_redundant \subseteq Queue
  BY <1>4
<1>7. temp_v \in Traces
    /\ score_changed \in BOOLEAN
  BY <1>4, <1>2
<1>77. queued_favored \in Nat /\ pending_favored \in Int
  BY <1>4
<1>8. varied \in BOOLEAN
    /\ q \in Seeds \cup {NoSeed} /\ trace_bits \in Traces
  BY <1>2, <1>4
<1>9. phase = "score" => q \in calibrated /\ trace_bits = measured[q]
  BY <1>4
<1> QED BY <1>3, <1>5, <1>6, <1>7, <1>77, <1>8, <1>9 DEF TypeInv

LEMMA OnwardType ==
    ASSUME i \in Bytes, phase \in {"score", "cull"}, Onward
    PROVE  /\ i' \in Bytes
           /\ phase' \in {phase, "idle"}
           /\ phase' = phase => i' = i + 1
           /\ phase' = "idle" => i = MapSize - 1
BY Sizes DEF Onward, Bytes

LEMMA ScoreTypes ==
    ASSUME TypeInv, NEW s \in Seeds, NEW t \in Traces, NEW f \in 0 .. MaxFactor,
           StartScore(s, t, f)
    PROVE  /\ phase' = "score" /\ i' \in Bytes /\ q' = s /\ trace_bits' \in Traces
           /\ fav_factor' \in [Seeds -> 0 .. MaxFactor]
           /\ measured' \in [Seeds -> Traces]
           /\ trace_bits' = measured'[s]
BY Sizes DEF StartScore, TypeInv, Bytes

LEMMA TypeStep == TypeInv /\ [Next]_vars => TypeInv'
<1> SUFFICES ASSUME TypeInv, [Next]_vars PROVE TypeInv'
  OBVIOUS
<1> USE DEF walk, seeds, rating, marks
<1>0. Queue \subseteq Seeds /\ calibrated \subseteq Seeds
  BY SeedsInQueue
<1>1. CASE AddToQueue
  <2>1. queued_paths' \in 0 .. MaxEntries /\ Queue \subseteq Queue'
    BY <1>1, Sizes DEF AddToQueue, TypeInv, Queue
  <2> QED BY <1>1, <2>1 DEF AddToQueue, TypeInv
<1>2. CASE ScoreByte
  <2>1. i' \in Bytes /\ phase' \in {"score", "idle"}
    BY <1>2, OnwardType DEF ScoreByte, TypeInv
  <2>2. q \in calibrated /\ trace_bits = measured[q]
    BY <1>2 DEF ScoreByte, TypeInv
  <2>3. q' = q /\ trace_bits' = trace_bits
    BY <1>2 DEF ScoreByte, Onward
  <2>4. CASE Wins
    <3>1. top_rated' \in [Bytes -> calibrated \cup {NoSeed}]
      BY <1>2, <2>2, <2>4 DEF ScoreByte, TypeInv
    <3>2. RefsWithout \in [Seeds -> Int]
      BY <1>0 DEF RefsWithout, TypeInv
    <3>3. tc_ref' \in [Seeds -> Int]
      BY <1>2, <2>4, <3>2 DEF ScoreByte
    <3>4. MiniWithout \in [Seeds -> Traces \cup {NoTrace}]
      BY DEF MiniWithout, TypeInv
    <3>5. trace_mini' \in [Seeds -> Traces \cup {NoTrace}]
      BY <1>2, <2>4, <3>4 DEF ScoreByte, TypeInv
    <3>6. score_changed'
      BY <1>2, <2>4 DEF ScoreByte
    <3> QED BY <1>2, <2>1, <2>2, <2>3, <3>1, <3>3, <3>5, <3>6
            DEF ScoreByte, TypeInv, Queue
  <2>5. CASE ~Wins
    <3>1. UNCHANGED <<rating, score_changed>>
      BY <1>2, <2>5 DEF ScoreByte
    <3> QED BY <1>2, <2>1, <2>2, <2>3, <3>1 DEF ScoreByte, TypeInv, Queue
  <2> QED BY <2>4, <2>5
<1>3. CASE StartCull
  <2>1. 0 \in Bytes /\ Bytes \in Traces
    BY Sizes DEF Bytes, Traces
  <2>2. /\ phase' = "cull" /\ i' = 0 /\ score_changed' = FALSE /\ temp_v' = Bytes
        /\ queued_favored' = 0 /\ pending_favored' = 0 /\ favored' = {}
        /\ UNCHANGED <<q, trace_bits, seeds, rating, fs_redundant>>
    BY <1>3 DEF StartCull
  <2>3. /\ phase' \in {"idle", "score", "cull"} /\ i' \in Bytes
        /\ temp_v' \in Traces /\ score_changed' \in BOOLEAN
        /\ queued_favored' \in Nat /\ pending_favored' \in Int
        /\ favored' \subseteq calibrated'
        /\ phase' # "score"
    <3>1. /\ phase' = "cull" /\ i' = 0 /\ score_changed' = FALSE /\ temp_v' = Bytes
          /\ queued_favored' = 0 /\ pending_favored' = 0 /\ favored' = {}
      BY <2>2
    <3>2. 0 \in Nat /\ 0 \in Int
      OBVIOUS
    <3> HIDE DEF walk, seeds, rating, marks
    <3> QED BY <2>1, <3>1, <3>2
  <2>4. UNCHANGED <<q, trace_bits, queued_paths, calibrated, was_fuzzed,
                    trim_done, fav_factor, measured, varied,
                    top_rated, tc_ref, trace_mini, fs_redundant>>
    BY <2>2
  <2>5. Queue' = Queue
    BY <2>4 DEF Queue
  <2> QED BY <2>3, <2>4, <2>5 DEF TypeInv
<1>4. CASE CullByte
  <2>1. i' \in Bytes /\ phase' \in {"cull", "idle"}
    BY <1>4, OnwardType DEF CullByte, TypeInv
  <2>2. q' = q /\ trace_bits' = trace_bits
    BY <1>4 DEF CullByte, Onward
  <2>3. /\ temp_v' \in Traces /\ favored' \subseteq calibrated
        /\ queued_favored' \in Nat /\ pending_favored' \in Int
    <3>1. CASE Picks
      <4>1. i \in Bytes /\ top_rated[i] \in calibrated
        BY <3>1 DEF Picks, TypeInv
      <4>2. temp_v' \subseteq temp_v /\ favored' = favored \cup {top_rated[i]}
            /\ queued_favored' = queued_favored + 1
            /\ pending_favored' \in {pending_favored, pending_favored + 1}
        BY <1>4, <3>1 DEF CullByte
      <4> QED BY <4>1, <4>2 DEF TypeInv, Traces
    <3>2. CASE ~Picks
      BY <1>4, <3>2 DEF CullByte, TypeInv
    <3> QED BY <3>1, <3>2
  <2>4. fs_redundant' \subseteq Queue
    BY <1>4 DEF CullByte, TypeInv
  <2> QED BY <1>4, <2>1, <2>2, <2>3, <2>4 DEF CullByte, TypeInv, Queue
<1>5. ASSUME NEW s \in Seeds, Calibrate(s) PROVE TypeInv'
  <2>1. PICK t \in Traces \ {{}}, f \in 0 .. MaxFactor : StartScore(s, t, f)
    BY <1>5 DEF Calibrate
  <2>2. calibrated' = calibrated \cup {s} /\ s \in Queue
    BY <1>5 DEF Calibrate
  <2> QED BY <1>5, <2>1, <2>2, ScoreTypes DEF Calibrate, TypeInv, Queue
<1>6. ASSUME NEW s \in Seeds, Trim(s) PROVE TypeInv'
  <2>1. PICK t \in Traces \ {{}}, f \in 0 .. MaxFactor :
            StartScore(s, t, f) /\ varied' = (varied \/ t # measured[s])
    BY <1>6 DEF Trim
  <2>2. s \in calibrated /\ trim_done' = trim_done \cup {s}
    BY <1>6 DEF Trim
  <2> QED BY <1>6, <2>1, <2>2, ScoreTypes DEF Trim, TypeInv, Queue
<1>7. ASSUME NEW s \in Seeds, Fuzzed(s) PROVE TypeInv'
  BY <1>7 DEF Fuzzed, PendingAfter, TypeInv, Queue
<1>8. CASE UNCHANGED vars
  BY <1>8 DEF vars, TypeInv, Queue
<1> QED BY <1>1, <1>2, <1>3, <1>4, <1>5, <1>6, <1>7, <1>8 DEF Next

-----------------------------------------------------------------------------
(* References and traces.                                                  *)

\* What only the walk of update_bitmap_score writes.
LEMMA RatingKept ==
    Next => ScoreByte \/ UNCHANGED rating
BY DEF Next, AddToQueue, StartCull, CullByte, Calibrate, Trim, Fuzzed

\* Byte i goes over to q.
LEMMA HeldAfter ==
    ASSUME TypeInv, top_rated' = [top_rated EXCEPT ![i] = q], NEW s \in Seeds
    PROVE  Held(s)' = IF s = q THEN Held(s) \cup {i} ELSE Held(s) \ {i}
BY DEF TypeInv, Held

\* Without its holder, byte i counts for nobody.
LEMMA Without ==
    ASSUME TypeInv, RefsRight, MiniKept, NEW s \in Seeds
    PROVE  /\ RefsWithout[s] = Cardinality(Held(s) \ {i})
           /\ MiniWithout[s] = NoTrace <=> Held(s) \ {i} = {}
           /\ MiniWithout[s] \in {trace_mini[s], NoTrace}
<1>1. /\ IsFiniteSet(Held(s)) /\ Cardinality(Held(s)) \in Nat
      /\ IsFiniteSet(Held(s) \ {i}) /\ Cardinality(Held(s) \ {i}) \in Nat
  BY FiniteBytes, Sizes DEF Held
<1>2. Cardinality(Held(s) \ {i}) =
          IF i \in Held(s) THEN Cardinality(Held(s)) - 1 ELSE Cardinality(Held(s))
  BY <1>1, FS_RemoveElement
<1>3. Cardinality(Held(s) \ {i}) = 0 <=> Held(s) \ {i} = {}
  BY <1>1, FS_EmptySet
<1>4. /\ i \in Bytes /\ tc_ref \in [Seeds -> Int]
      /\ trace_mini \in [Seeds -> Traces \cup {NoTrace}]
      /\ s # NoSeed
  BY Sizes DEF TypeInv
<1>5. tc_ref[s] = Cardinality(Held(s)) /\ (trace_mini[s] = NoTrace <=> Held(s) = {})
  BY DEF RefsRight, MiniKept
<1>6. i \in Held(s) <=> top_rated[i] = s
  BY <1>4 DEF Held
<1>7. RefsWithout[s] = Cardinality(Held(s) \ {i})
  BY <1>1, <1>2, <1>4, <1>5, <1>6 DEF RefsWithout
<1>8. CASE top_rated[i] = s
  BY <1>3, <1>4, <1>5, <1>6, <1>7, <1>8 DEF MiniWithout
<1>9. CASE top_rated[i] # s
  <2>1. Held(s) \ {i} = Held(s)
    BY <1>6, <1>9
  <2>2. MiniWithout[s] = trace_mini[s]
    BY <1>4, <1>9 DEF MiniWithout
  <2> QED BY <1>5, <1>7, <2>1, <2>2
<1> QED BY <1>7, <1>8, <1>9

LEMMA RefsStep == TypeInv /\ RefsRight /\ MiniKept /\ [Next]_vars => RefsRight'
<1> SUFFICES ASSUME TypeInv, RefsRight, MiniKept, [Next]_vars, NEW s \in Seeds
             PROVE  tc_ref'[s] = Cardinality(Held(s)')
  BY DEF RefsRight
<1>1. CASE ScoreByte /\ Wins
  <2>1. /\ top_rated' = [top_rated EXCEPT ![i] = q]
        /\ tc_ref' = [RefsWithout EXCEPT ![q] = @ + 1]
    BY <1>1 DEF ScoreByte
  <2>2. q \in Seeds /\ RefsWithout \in [Seeds -> Int]
    BY <1>1, SeedsInQueue DEF ScoreByte, RefsWithout, TypeInv
  <2>3. /\ RefsWithout[s] = Cardinality(Held(s) \ {i})
        /\ Held(s)' = IF s = q THEN Held(s) \cup {i} ELSE Held(s) \ {i}
    BY <2>1, Without, HeldAfter
  <2>4. CASE s # q
    BY <2>1, <2>2, <2>3, <2>4
  <2>5. CASE s = q
    <3>1. Held(s)' = (Held(s) \ {i}) \cup {i}
      BY <2>3, <2>5
    <3>2. IsFiniteSet(Held(s) \ {i})
      BY FiniteBytes DEF Held
    <3>3. Cardinality(Held(s)') = Cardinality(Held(s) \ {i}) + 1
      BY <3>1, <3>2, FS_AddElement
    <3> QED BY <2>1, <2>2, <2>3, <2>5, <3>3
  <2> QED BY <2>4, <2>5
<1>2. CASE UNCHANGED rating
  <2>1. Held(s)' = Held(s)
    BY <1>2 DEF rating, Held
  <2> QED BY <1>2, <2>1 DEF rating, RefsRight
<1>3. CASE ScoreByte /\ ~Wins
  BY <1>2, <1>3 DEF ScoreByte
<1> QED BY <1>1, <1>2, <1>3, RatingKept DEF vars

LEMMA MiniStep == TypeInv /\ RefsRight /\ MiniKept /\ [Next]_vars => MiniKept'
<1> SUFFICES ASSUME TypeInv, RefsRight, MiniKept, [Next]_vars, NEW s \in Seeds
             PROVE  trace_mini'[s] = NoTrace <=> Held(s)' = {}
  BY DEF MiniKept
<1>1. CASE ScoreByte /\ Wins
  <2>1. /\ top_rated' = [top_rated EXCEPT ![i] = q]
        /\ trace_mini' = IF MiniWithout[q] = NoTrace
                         THEN [MiniWithout EXCEPT ![q] = trace_bits]
                         ELSE MiniWithout
    BY <1>1 DEF ScoreByte
  <2>2. q \in Seeds /\ MiniWithout \in [Seeds -> Traces \cup {NoTrace}]
    BY <1>1, SeedsInQueue DEF ScoreByte, MiniWithout, TypeInv
  <2>3. /\ MiniWithout[s] = NoTrace <=> Held(s) \ {i} = {}
        /\ Held(s)' = IF s = q THEN Held(s) \cup {i} ELSE Held(s) \ {i}
    BY <2>1, Without, HeldAfter
  <2>4. trace_bits # NoTrace
    BY Sizes DEF TypeInv
  <2>5. CASE s # q
    BY <2>1, <2>2, <2>3, <2>5
  <2>6. CASE s = q
    <3>1. trace_mini'[s] # NoTrace
      BY <2>1, <2>2, <2>4, <2>6
    <3> QED BY <2>3, <2>6, <3>1
  <2> QED BY <2>5, <2>6
<1>2. CASE UNCHANGED rating
  <2>1. Held(s)' = Held(s)
    BY <1>2 DEF rating, Held
  <2> QED BY <1>2, <2>1 DEF rating, MiniKept
<1>3. CASE ScoreByte /\ ~Wins
  BY <1>2, <1>3 DEF ScoreByte
<1> QED BY <1>1, <1>2, <1>3, RatingKept DEF vars

-----------------------------------------------------------------------------
(* The cheapest holder.                                                    *)

LEMMA CheapestStep == TypeInv /\ Cheapest /\ [Next]_vars => Cheapest'
<1> SUFFICES ASSUME TypeInv, Cheapest, [Next]_vars,
                    NEW s \in calibrated', NEW b \in measured'[s]
             PROVE  \/ phase' = "score" /\ s = q' /\ b >= i'
                    \/ /\ top_rated'[b] # NoSeed
                       /\ fav_factor'[top_rated'[b]] <= fav_factor'[s]
  BY DEF Cheapest
<1> DEFINE Settled == \/ phase' = "score" /\ s = q' /\ b >= i'
                      \/ /\ top_rated'[b] # NoSeed
                         /\ fav_factor'[top_rated'[b]] <= fav_factor'[s]
<1>0. calibrated \subseteq Seeds /\ TypeInv'
  BY SeedsInQueue, TypeStep
<1>1. s \in Seeds /\ b \in Bytes
  <2>1. calibrated' \subseteq Queue' /\ queued_paths' \in 0 .. MaxEntries
        /\ measured' \in [Seeds -> Traces]
    BY <1>0 DEF TypeInv
  <2>2. Queue' \subseteq Seeds
    <3>1. Queue' = 0 .. queued_paths' - 1
      BY DEF Queue
    <3> QED BY <2>1, <3>1, Prefixes
  <2>3. s \in Seeds
    BY <2>1, <2>2
  <2> QED BY <2>1, <2>3 DEF Traces
<1>2. CASE ScoreByte
  <2>1. /\ phase = "score" /\ q \in calibrated /\ trace_bits = measured[q]
        /\ i \in Bytes /\ s \in calibrated /\ b \in measured[s]
        /\ UNCHANGED <<fav_factor, measured, q>>
        /\ fav_factor \in [Seeds -> 0 .. MaxFactor]
        /\ top_rated \in [Bytes -> calibrated \cup {NoSeed}]
    BY <1>2 DEF ScoreByte, Onward, TypeInv, seeds
  <2>2. \/ s = q /\ b >= i
        \/ top_rated[b] # NoSeed /\ fav_factor[top_rated[b]] <= fav_factor[s]
    BY <2>1 DEF Cheapest
  <2>3. top_rated' = IF Wins THEN [top_rated EXCEPT ![i] = q] ELSE top_rated
    BY <1>2 DEF ScoreByte, rating
  <2>4. q # NoSeed /\ q \in Seeds /\ MaxFactor \in Nat
    BY <1>0, <2>1, Sizes
  <2>5. CASE b = i
    <3>1. CASE Wins
      <4>1. top_rated'[b] = q
        BY <2>1, <2>3, <2>5, <3>1
      <4>2. CASE s = q
        BY <2>1, <2>4, <4>1, <4>2
      <4>3. CASE s # q
        <5>1. top_rated[i] # NoSeed /\ fav_factor[top_rated[i]] <= fav_factor[s]
          BY <2>2, <2>5, <4>3
        <5>2. top_rated[i] \in Seeds /\ fav_factor[q] <= fav_factor[top_rated[i]]
          BY <1>0, <2>1, <3>1, <5>1 DEF Wins
        <5>3. fav_factor[q] <= fav_factor[s]
          BY <1>1, <2>1, <2>4, <5>1, <5>2
        <5> QED BY <2>1, <2>4, <4>1, <5>3
      <4> QED BY <4>2, <4>3
    <3>2. CASE ~Wins
      <4>1. CASE s # q
        BY <2>1, <2>2, <2>3, <3>2, <4>1
      <4>2. CASE s = q
        <5>1. top_rated[i] # NoSeed /\ ~(fav_factor[q] <= fav_factor[top_rated[i]])
          BY <2>1, <2>5, <3>2, <4>2 DEF Wins
        <5>2. top_rated[i] \in Seeds
          BY <1>0, <2>1, <5>1
        <5>3. fav_factor[top_rated[i]] <= fav_factor[q]
          BY <2>1, <2>4, <5>1, <5>2
        <5> QED BY <2>1, <2>3, <2>5, <3>2, <4>2, <5>1, <5>3
      <4> QED BY <4>1, <4>2
    <3> QED BY <3>1, <3>2
  <2>6. CASE b # i
    <3>1. top_rated'[b] = top_rated[b]
      BY <1>1, <2>1, <2>3, <2>6
    <3>2. CASE s = q /\ b >= i
      <4>1. b >= i + 1 /\ i + 1 < MapSize
        BY <1>1, <2>1, <2>6, <3>2, Sizes DEF Bytes
      <4>2. phase' = phase /\ i' = i + 1
        BY <1>2, <4>1 DEF ScoreByte, Onward
      <4> QED BY <2>1, <3>2, <4>1, <4>2
    <3>3. CASE top_rated[b] # NoSeed /\ fav_factor[top_rated[b]] <= fav_factor[s]
      BY <2>1, <3>1, <3>3
    <3> QED BY <2>2, <3>2, <3>3
  <2> QED BY <2>5, <2>6
<1>3. ASSUME phase # "score", s \in calibrated, b \in measured[s]
      PROVE  /\ top_rated[b] # NoSeed /\ top_rated[b] \in Seeds
             /\ top_rated[b] \in calibrated
             /\ fav_factor[top_rated[b]] <= fav_factor[s]
  BY <1>0, <1>1, <1>3 DEF Cheapest, TypeInv
<1>4. CASE AddToQueue \/ StartCull \/ CullByte \/ \E x \in Seeds : Fuzzed(x)
  <2>1. /\ phase # "score" /\ UNCHANGED <<calibrated, measured, top_rated, fav_factor>>
    BY <1>4 DEF AddToQueue, StartCull, CullByte, Fuzzed, seeds, rating
  <2> QED BY <1>3, <2>1
<1>5. ASSUME NEW x \in Seeds, Calibrate(x) PROVE Settled
  <2>1. PICK t \in Traces \ {{}}, f \in 0 .. MaxFactor : StartScore(x, t, f)
    BY <1>5 DEF Calibrate
  <2>2. /\ phase = "idle" /\ x \notin calibrated
        /\ calibrated' = calibrated \cup {x} /\ top_rated' = top_rated
    BY <1>5 DEF Calibrate, rating
  <2>3. /\ phase' = "score" /\ i' = 0 /\ q' = x
        /\ fav_factor' = [fav_factor EXCEPT ![x] = f]
        /\ measured' = [measured EXCEPT ![x] = t]
        /\ fav_factor \in [Seeds -> 0 .. MaxFactor] /\ measured \in [Seeds -> Traces]
    BY <2>1 DEF StartScore, TypeInv
  <2>4. CASE s = x
    BY <1>1, <2>3, <2>4, Sizes DEF Bytes
  <2>5. CASE s # x
    <3>1. s \in calibrated /\ b \in measured[s]
      BY <1>1, <2>2, <2>3, <2>5
    <3>2. top_rated[b] # x
      BY <1>3, <2>2, <3>1
    <3> QED BY <1>1, <1>3, <2>2, <2>3, <2>5, <3>1, <3>2
  <2> QED BY <2>4, <2>5
<1>6. ASSUME NEW x \in Seeds, Trim(x) PROVE Settled
  <2>1. PICK t \in Traces \ {{}}, f \in 0 .. MaxFactor :
            f < fav_factor[x] /\ StartScore(x, t, f)
    BY <1>6 DEF Trim
  <2>2. phase = "idle" /\ calibrated' = calibrated /\ top_rated' = top_rated
    BY <1>6 DEF Trim, rating
  <2>3. /\ phase' = "score" /\ i' = 0 /\ q' = x
        /\ fav_factor' = [fav_factor EXCEPT ![x] = f]
        /\ measured' = [measured EXCEPT ![x] = t]
        /\ fav_factor \in [Seeds -> 0 .. MaxFactor] /\ measured \in [Seeds -> Traces]
    BY <2>1 DEF StartScore, TypeInv
  <2>4. CASE s = x
    BY <1>1, <2>3, <2>4, Sizes DEF Bytes
  <2>5. CASE s # x
    <3>1. s \in calibrated /\ b \in measured[s]
      BY <1>1, <2>2, <2>3, <2>5
    <3>2. top_rated[b] \in Seeds /\ fav_factor'[top_rated[b]] <= fav_factor[top_rated[b]]
      BY <1>3, <2>1, <2>2, <2>3, <3>1, Sizes
    <3>3. fav_factor'[s] = fav_factor[s]
      BY <1>1, <2>3, <2>5
    <3>4. fav_factor'[top_rated[b]] <= fav_factor[s]
      BY <1>1, <1>3, <2>2, <2>3, <3>1, <3>2, <3>3, Sizes
    <3> QED BY <1>3, <2>2, <3>1, <3>3, <3>4
  <2> QED BY <2>4, <2>5
<1>7. CASE UNCHANGED vars
  <2>1. UNCHANGED <<phase, i, q, calibrated, measured, top_rated, fav_factor>>
    BY <1>7 DEF vars, walk, seeds, rating
  <2> QED BY <2>1 DEF Cheapest
<1> QED BY <1>2, <1>4, <1>5, <1>6, <1>7 DEF Next

-----------------------------------------------------------------------------
(* The cover.                                                              *)

LEMMA CoverStep == TypeInv /\ Cover /\ [Next]_vars => Cover'
<1> SUFFICES ASSUME TypeInv, Cover, [Next]_vars PROVE Cover'
  OBVIOUS
<1>1. CASE CullByte
  <2>1. /\ phase = "cull" /\ ~score_changed /\ score_changed' = score_changed
        /\ \A b \in Bytes \ temp_v : Covered(b)
        /\ \A b \in 0 .. i - 1 : top_rated[b] # NoSeed =>
              Covered(b) \/ top_rated[b] \in favored
        /\ i \in Bytes
        /\ UNCHANGED <<top_rated, trace_mini>>
    BY <1>1 DEF CullByte, Cover, TypeInv, rating
  <2>2. /\ favored' = IF Picks THEN favored \cup {top_rated[i]} ELSE favored
        /\ temp_v' = IF Picks THEN temp_v \ trace_mini[top_rated[i]] ELSE temp_v
    BY <1>1 DEF CullByte
  <2>3. \A b \in Bytes : Covered(b) => Covered(b)'
    BY <2>1, <2>2 DEF Covered
  <2>4. \A b \in Bytes \ temp_v' : Covered(b)'
    <3> SUFFICES ASSUME NEW b \in Bytes \ temp_v' PROVE Covered(b)'
      OBVIOUS
    <3>1. CASE b \notin temp_v
      BY <2>1, <2>3, <3>1
    <3>2. CASE b \in temp_v
      <4>1. Picks /\ b \in trace_mini[top_rated[i]]
        BY <2>2, <3>2
      <4> QED BY <2>1, <2>2, <4>1 DEF Covered
    <3> QED BY <3>1, <3>2
  <2>5. \A b \in 0 .. i : top_rated'[b] # NoSeed =>
              Covered(b)' \/ top_rated'[b] \in favored'
    <3> SUFFICES ASSUME NEW b \in 0 .. i, top_rated[b] # NoSeed
                 PROVE  Covered(b)' \/ top_rated[b] \in favored'
      BY <2>1
    <3>0. b \in Bytes
      BY <2>1, Sizes DEF Bytes
    <3>1. CASE b \in 0 .. i - 1
      BY <2>1, <2>2, <2>3, <3>0, <3>1
    <3>2. CASE b = i /\ Picks
      BY <2>2, <3>2
    <3>3. CASE b = i /\ ~Picks
      <4>1. Covered(b)
        BY <2>1, <3>0, <3>3 DEF Picks
      <4> QED BY <2>3, <3>0, <4>1
    <3>4. b \in 0 .. i - 1 \/ b = i
      BY <2>1, Sizes DEF Bytes
    <3> QED BY <3>1, <3>2, <3>3, <3>4
  <2>6. CASE i + 1 < MapSize
    <3>1. phase' = "cull" /\ i' = i + 1
      BY <1>1, <2>1, <2>6 DEF CullByte, Onward
    <3>2. 0 .. i' - 1 = 0 .. i
      BY <2>1, <3>1, Sizes DEF Bytes
    <3> QED BY <2>1, <2>4, <2>5, <3>1, <3>2 DEF Cover
  <2>7. CASE ~(i + 1 < MapSize)
    <3>1. i + 1 = MapSize /\ Bytes = 0 .. i
      BY <2>1, <2>7, Sizes DEF Bytes
    <3>2. phase' = "idle" /\ fs_redundant' = Queue \ favored'
      BY <1>1, <2>1, <2>7, <3>1 DEF CullByte, Onward
    <3> QED BY <2>1, <2>5, <3>1, <3>2 DEF Cover
  <2> QED BY <2>6, <2>7
<1>2. CASE StartCull
  <2>1. phase' = "cull" /\ i' = 0 /\ ~score_changed' /\ temp_v' = Bytes
    BY <1>2 DEF StartCull
  <2>2. 0 .. i' - 1 = {}
    BY <2>1
  <2> QED BY <2>1, <2>2 DEF Cover
<1>3. CASE ScoreByte /\ Wins
  <2>1. score_changed' /\ phase' # "cull"
    BY <1>3 DEF ScoreByte, Onward
  <2> QED BY <2>1 DEF Cover
<1>4. ASSUME phase # "cull", phase' # "cull",
             UNCHANGED <<score_changed, top_rated, trace_mini, favored, fs_redundant>>
      PROVE  Cover'
  BY <1>4 DEF Cover, Covered
<1>5. CASE ScoreByte /\ ~Wins
  <2>1. /\ phase # "cull" /\ phase' # "cull"
        /\ UNCHANGED <<score_changed, top_rated, trace_mini, favored, fs_redundant>>
    BY <1>5 DEF ScoreByte, Onward, rating, marks
  <2> QED BY <1>4, <2>1
<1>6. CASE AddToQueue \/ \E s \in Seeds : Calibrate(s) \/ Trim(s) \/ Fuzzed(s)
  <2>1. /\ phase # "cull" /\ phase' # "cull"
        /\ UNCHANGED <<score_changed, top_rated, trace_mini, favored, fs_redundant>>
    BY <1>6 DEF AddToQueue, Calibrate, Trim, Fuzzed, StartScore, walk, rating, marks
  <2> QED BY <1>4, <2>1
<1>7. CASE UNCHANGED vars
  <2>1. UNCHANGED <<phase, i, score_changed, top_rated, trace_mini, favored,
                    fs_redundant, temp_v>>
    BY <1>7 DEF vars, walk, rating, marks
  <2> QED BY <2>1 DEF Cover, Covered
<1> QED BY <1>1, <1>2, <1>3, <1>5, <1>6, <1>7 DEF Next

-----------------------------------------------------------------------------
(* The counters.                                                           *)

\* What the walks and the two calls that change the sets leave of the rest.
LEMMA MarksKept ==
    ASSUME Next
    PROVE  \/ CullByte \/ StartCull
           \/ \E s \in Seeds : Fuzzed(s)
           \/ /\ UNCHANGED <<favored, was_fuzzed, queued_favored, pending_favored>>
              /\ phase' # "cull"
BY DEF Next, AddToQueue, ScoreByte, Onward, Calibrate, Trim, StartScore,
       walk, seeds, marks

\* The number of favored seeds that are not fuzzed yet, as one is picked.
LEMMA PickCount ==
    ASSUME TypeInv, Picks, NEW F, F = (favored \cup {top_rated[i]}) \ was_fuzzed
    PROVE  Cardinality(F) = IF top_rated[i] \in favored \cup was_fuzzed
                            THEN Cardinality(favored \ was_fuzzed)
                            ELSE Cardinality(favored \ was_fuzzed) + 1
<1>1. IsFiniteSet(favored \ was_fuzzed)
  BY FiniteSeeds, SeedsInQueue DEF TypeInv
<1>2. CASE top_rated[i] \in was_fuzzed
  BY <1>2
<1>3. CASE top_rated[i] \notin was_fuzzed
  <2>1. F = (favored \ was_fuzzed) \cup {top_rated[i]}
    BY <1>3
  <2> QED BY <1>1, <1>3, <2>1, FS_AddElement
<1> QED BY <1>2, <1>3

\* The same number, as a seed is fuzzed.
LEMMA FuzzCount ==
    ASSUME TypeInv, NEW s \in Seeds, Fuzzed(s)
    PROVE  /\ Cardinality(favored' \ was_fuzzed') =
                 IF s \in favored THEN Cardinality(favored \ was_fuzzed) - 1
                 ELSE Cardinality(favored \ was_fuzzed)
           /\ pending_favored' = IF s \in favored THEN pending_favored - 1
                                 ELSE pending_favored
<1>1. IsFiniteSet(favored \ was_fuzzed)
  BY FiniteSeeds, SeedsInQueue DEF TypeInv
<1>2. s \notin was_fuzzed /\ favored' \ was_fuzzed' = (favored \ was_fuzzed) \ {s}
  BY DEF Fuzzed
<1>3. pending_favored' = IF s \in favored THEN pending_favored - 1 ELSE pending_favored
  BY DEF Fuzzed, PendingAfter
<1> QED BY <1>1, <1>2, <1>3, FS_RemoveElement

LEMMA PendingStep == TypeInv /\ Pending /\ [Next]_vars => Pending'
<1> SUFFICES ASSUME TypeInv, Pending, [Next]_vars
             PROVE  pending_favored' >= Cardinality(favored' \ was_fuzzed')
  BY DEF Pending
<1>1. pending_favored \in Int /\ Cardinality(favored \ was_fuzzed) \in Nat
      /\ pending_favored >= Cardinality(favored \ was_fuzzed)
  BY FiniteSeeds, SeedsInQueue DEF TypeInv, Pending
<1>2. CASE CullByte
  <2>0. was_fuzzed' = was_fuzzed
    BY <1>2 DEF CullByte, seeds
  <2>1. CASE Picks
    <3>1. favored' = favored \cup {top_rated[i]}
          /\ pending_favored' = IF top_rated[i] \in was_fuzzed THEN pending_favored
                                ELSE pending_favored + 1
      BY <1>2, <2>1 DEF CullByte
    <3>2. favored' \ was_fuzzed' = (favored \cup {top_rated[i]}) \ was_fuzzed
      BY <2>0, <3>1
    <3>3. Cardinality(favored' \ was_fuzzed') =
              IF top_rated[i] \in favored \cup was_fuzzed
              THEN Cardinality(favored \ was_fuzzed)
              ELSE Cardinality(favored \ was_fuzzed) + 1
      BY <2>1, <3>2, PickCount
    <3>4. CASE top_rated[i] \in was_fuzzed
      BY <1>1, <3>1, <3>3, <3>4
    <3>5. CASE top_rated[i] \notin was_fuzzed
      BY <1>1, <3>1, <3>3, <3>5
    <3> QED BY <3>4, <3>5
  <2>2. CASE ~Picks
    BY <1>1, <1>2, <2>0, <2>2 DEF CullByte
  <2> QED BY <2>1, <2>2
<1>3. CASE StartCull
  <2>1. favored' \ was_fuzzed' = {} /\ pending_favored' = 0
    BY <1>3 DEF StartCull
  <2> QED BY <2>1, FS_EmptySet
<1>4. ASSUME NEW s \in Seeds, Fuzzed(s) PROVE Pending'
  <2>1. /\ Cardinality(favored' \ was_fuzzed') =
                 IF s \in favored THEN Cardinality(favored \ was_fuzzed) - 1
                 ELSE Cardinality(favored \ was_fuzzed)
        /\ pending_favored' = IF s \in favored THEN pending_favored - 1
                                 ELSE pending_favored
    BY <1>4, FuzzCount
  <2>2. CASE s \in favored
    BY <1>1, <2>1, <2>2 DEF Pending
  <2>3. CASE s \notin favored
    BY <1>1, <2>1, <2>3 DEF Pending
  <2> QED BY <2>2, <2>3
<1>5. CASE UNCHANGED <<favored, was_fuzzed, queued_favored, pending_favored>>
  BY <1>1, <1>5
<1>6. CASE UNCHANGED vars
  BY <1>5, <1>6 DEF vars, seeds, marks
<1> QED BY <1>2, <1>3, <1>4, <1>5, <1>6, MarksKept DEF Pending

\* With steady traces, a kept trace is the one the seed was scored with, and
\* the holder of a byte sets it.
SteadyTraces ==
    /\ \A s \in Seeds : trace_mini[s] # NoTrace => trace_mini[s] = measured[s]
    /\ \A b \in Bytes : top_rated[b] # NoSeed => b \in measured[top_rated[b]]

LEMMA TracesStep ==
    ASSUME TypeInv, RefsRight, MiniKept, SteadyTraces, [Next]_vars, ~varied'
    PROVE  SteadyTraces'
<1>0. calibrated \subseteq Seeds
  BY SeedsInQueue
<1>1. /\ top_rated \in [Bytes -> calibrated \cup {NoSeed}]
      /\ measured \in [Seeds -> Traces] /\ i \in Bytes
      /\ trace_mini \in [Seeds -> Traces \cup {NoTrace}]
  BY DEF TypeInv
<1>2. CASE ScoreByte /\ Wins
  <2>1. /\ q \in Seeds /\ trace_bits = measured[q] /\ i \in trace_bits
        /\ measured' = measured
        /\ top_rated' = [top_rated EXCEPT ![i] = q]
        /\ trace_mini' = IF MiniWithout[q] = NoTrace
                         THEN [MiniWithout EXCEPT ![q] = trace_bits]
                         ELSE MiniWithout
    BY <1>0, <1>2 DEF ScoreByte, Wins, TypeInv, seeds
  <2>2. MiniWithout \in [Seeds -> Traces \cup {NoTrace}]
    BY <1>1 DEF MiniWithout
  <2>3. ASSUME NEW s \in Seeds, trace_mini'[s] # NoTrace
        PROVE  trace_mini'[s] = measured'[s]
    <3>1. MiniWithout[s] \in {trace_mini[s], NoTrace}
      BY Without
    <3>2. MiniWithout[s] # NoTrace => MiniWithout[s] = measured[s]
      BY <3>1 DEF SteadyTraces
    <3> QED BY <2>1, <2>2, <2>3, <3>2
  <2>4. ASSUME NEW b \in Bytes, top_rated'[b] # NoSeed
        PROVE  b \in measured'[top_rated'[b]]
    BY <1>1, <2>1, <2>4 DEF SteadyTraces
  <2> QED BY <2>3, <2>4 DEF SteadyTraces
<1>3. CASE UNCHANGED <<measured, top_rated, trace_mini>>
  BY <1>3 DEF SteadyTraces
<1>4. CASE AddToQueue \/ StartCull \/ CullByte \/ UNCHANGED vars
  BY <1>3, <1>4 DEF AddToQueue, StartCull, CullByte, vars, seeds, rating
<1>7. CASE ScoreByte /\ ~Wins
  BY <1>3, <1>7 DEF ScoreByte, seeds, rating
<1>8. ASSUME NEW x \in Seeds, Fuzzed(x) PROVE SteadyTraces'
  BY <1>3, <1>8 DEF Fuzzed, rating
<1>5. ASSUME NEW x \in Seeds, Calibrate(x) PROVE SteadyTraces'
  <2>1. PICK t \in Traces \ {{}}, f \in 0 .. MaxFactor : StartScore(x, t, f)
    BY <1>5 DEF Calibrate
  <2>2. /\ x \notin calibrated /\ UNCHANGED <<top_rated, trace_mini>>
        /\ measured' = [measured EXCEPT ![x] = t]
    BY <1>5, <2>1 DEF Calibrate, StartScore, rating
  <2>3. Held(x) = {} /\ trace_mini[x] = NoTrace
    BY <1>1, <2>2, Sizes DEF Held, MiniKept
  <2> QED BY <1>0, <1>1, <2>2, <2>3, Sizes DEF SteadyTraces
<1>6. ASSUME NEW x \in Seeds, Trim(x) PROVE SteadyTraces'
  <2>1. PICK t \in Traces \ {{}}, f \in 0 .. MaxFactor :
            StartScore(x, t, f) /\ varied' = (varied \/ t # measured[x])
    BY <1>6 DEF Trim
  <2>2. t = measured[x] /\ measured' = [measured EXCEPT ![x] = t]
    BY <2>1 DEF StartScore
  <2>3. UNCHANGED <<measured, top_rated, trace_mini>>
    BY <1>1, <1>6, <2>2 DEF Trim, rating
  <2> QED BY <1>3, <2>3
<1> QED BY <1>2, <1>4, <1>5, <1>6, <1>7, <1>8 DEF Next

LEMMA SteadyStep ==
    TypeInv /\ RefsRight /\ MiniKept /\ Steady /\ [Next]_vars => Steady'
<1> SUFFICES ASSUME TypeInv, RefsRight, MiniKept, Steady, [Next]_vars, ~varied'
             PROVE  /\ SteadyTraces'
                    /\ queued_favored' = Cardinality(favored')
                    /\ pending_favored' = Cardinality(favored' \ was_fuzzed')
                    /\ phase' = "cull" => \A s \in favored' : temp_v' \cap trace_mini'[s] = {}
  BY DEF Steady, SteadyTraces
<1>0. ~varied
  BY DEF Next, AddToQueue, ScoreByte, StartCull, CullByte, Calibrate, Trim, Fuzzed,
         vars, seeds
<1>1. /\ SteadyTraces
      /\ queued_favored = Cardinality(favored)
      /\ pending_favored = Cardinality(favored \ was_fuzzed)
      /\ phase = "cull" => \A s \in favored : temp_v \cap trace_mini[s] = {}
  BY <1>0 DEF Steady, SteadyTraces
<1>2. SteadyTraces'
  BY <1>1, TracesStep
<1>3. /\ IsFiniteSet(favored) /\ Cardinality(favored) \in Nat
      /\ Cardinality(favored \ was_fuzzed) \in Nat
  BY FiniteSeeds, SeedsInQueue DEF TypeInv
<1>4. CASE CullByte /\ Picks
  <2> DEFINE s == top_rated[i]
  <2>1. /\ favored' = favored \cup {s} /\ temp_v' = temp_v \ trace_mini[s]
        /\ queued_favored' = queued_favored + 1
        /\ pending_favored' = IF s \in was_fuzzed THEN pending_favored
                              ELSE pending_favored + 1
        /\ UNCHANGED <<was_fuzzed, trace_mini>> /\ phase = "cull"
    BY <1>4 DEF CullByte, seeds, rating
  <2>2. s \in Seeds /\ s # NoSeed /\ i \in Bytes /\ i \in temp_v
    BY <1>4, SeedsInQueue DEF Picks, TypeInv
  <2>3. i \in Held(s)
    BY <2>2 DEF Held
  <2>4. i \in trace_mini[s]
    BY <1>1, <2>2, <2>3 DEF SteadyTraces, MiniKept
  <2>5. s \notin favored
    BY <1>1, <2>1, <2>2, <2>4
  <2>6. queued_favored' = Cardinality(favored')
    BY <1>1, <1>3, <2>1, <2>5, FS_AddElement
  <2>7. pending_favored' = Cardinality(favored' \ was_fuzzed')
    BY <1>1, <1>4, <2>1, <2>5, PickCount
  <2>8. \A x \in favored' : temp_v' \cap trace_mini'[x] = {}
    BY <1>1, <2>1
  <2> QED BY <1>2, <2>6, <2>7, <2>8
<1>5. CASE CullByte /\ ~Picks
  <2>1. phase = "cull" /\ UNCHANGED <<favored, was_fuzzed, queued_favored,
                                      pending_favored, temp_v, trace_mini>>
    BY <1>5 DEF CullByte, seeds, rating
  <2> QED BY <1>1, <1>2, <2>1
<1>6. CASE StartCull
  <2>1. favored' = {} /\ queued_favored' = 0 /\ pending_favored' = 0
    BY <1>6 DEF StartCull
  <2>2. favored' \ was_fuzzed' = {}
    BY <2>1
  <2>3. Cardinality({}) = 0
    BY FS_EmptySet
  <2> QED BY <1>2, <2>1, <2>2, <2>3
<1>7. ASSUME NEW s \in Seeds, Fuzzed(s) PROVE Steady'
  <2>1. /\ favored' = favored /\ queued_favored' = queued_favored /\ phase' # "cull"
    BY <1>7 DEF Fuzzed, walk
  <2>2. pending_favored' = Cardinality(favored' \ was_fuzzed')
    BY <1>1, <1>3, <1>7, FuzzCount
  <2> QED BY <1>1, <1>2, <2>1, <2>2 DEF Steady, SteadyTraces
<1>8. CASE /\ UNCHANGED <<favored, was_fuzzed, queued_favored, pending_favored>>
           /\ phase' # "cull"
  BY <1>1, <1>2, <1>8
<1>9. CASE UNCHANGED vars
  <2>1. UNCHANGED <<phase, favored, was_fuzzed, queued_favored, pending_favored,
                    temp_v, trace_mini>>
    BY <1>9 DEF vars, walk, seeds, rating, marks
  <2> QED BY <1>1, <1>2, <2>1
<1> QED BY <1>4, <1>5, <1>6, <1>7, <1>8, <1>9, MarksKept DEF Steady, SteadyTraces

-----------------------------------------------------------------------------
(* The inductive invariant, and what follows from it.                      *)

LEMMA InvInit == Init => IInv
<1> SUFFICES ASSUME Init PROVE IInv
  OBVIOUS
<1>1. TypeInv
  BY TypeInit
<1>2. /\ phase = "idle" /\ calibrated = {} /\ was_fuzzed = {} /\ favored = {}
      /\ queued_favored = 0 /\ pending_favored = 0 /\ fs_redundant = {}
      /\ top_rated = [b \in Bytes |-> NoSeed] /\ tc_ref = [s \in Seeds |-> 0]
      /\ trace_mini = [s \in Seeds |-> NoTrace]
  BY DEF Init
<1>3. \A s \in Seeds : Held(s) = {}
  BY <1>2, Sizes DEF Held
<1>4. Cardinality({}) = 0
  BY FS_EmptySet
<1>5. RefsRight /\ MiniKept
  BY <1>2, <1>3, <1>4 DEF RefsRight, MiniKept
<1>6. Cheapest /\ Cover
  BY <1>2 DEF Cheapest, Cover
<1>7. favored \ was_fuzzed = {}
  BY <1>2
<1>8. Pending /\ Steady
  BY <1>2, <1>4, <1>7 DEF Pending, Steady
<1> QED BY <1>1, <1>5, <1>6, <1>8 DEF IInv

\* Every step keeps the strengthened invariant.
THEOREM InvInductive == Spec => []IInv
<1>1. IInv /\ [Next]_vars => IInv'
  BY TypeStep, RefsStep, MiniStep, CheapestStep, CoverStep, PendingStep, SteadyStep
     DEF IInv
<1> QED BY InvInit, <1>1, PTL DEF Spec

\* However large the bitmap and the queue, no counter goes below zero and no
\* reference count above the size of the bitmap: update_bitmap_score and
\* fuzz_one take away only what they or cull_queue have counted.
THEOREM TypeCorrect == Spec => []TypeOK
<1>1. IInv => TypeOK
  <2> SUFFICES ASSUME IInv PROVE TypeOK
    OBVIOUS
  <2>1. TypeInv /\ RefsRight /\ Pending
    BY DEF IInv
  <2>2. tc_ref \in [Seeds -> 0 .. MapSize]
    <3>1. \A s \in Seeds : tc_ref[s] \in 0 .. MapSize
      BY <2>1, FiniteBytes DEF RefsRight, Held
    <3> QED BY <2>1, <3>1 DEF TypeInv
  <2>3. pending_favored \in Nat
    <3>1. Cardinality(favored \ was_fuzzed) \in Nat
      BY <2>1, SeedsInQueue, FiniteSeeds DEF TypeInv
    <3> QED BY <2>1, <3>1 DEF Pending, TypeInv
  <2>4. calibrated \subseteq Queue
    BY <2>1 DEF TypeInv
  <2>5. favored \subseteq Queue /\ top_rated \in [Bytes -> Queue \cup {NoSeed}]
    BY <2>1, <2>4 DEF TypeInv
  <2> QED BY <2>1, <2>2, <2>3, <2>5 DEF TypeInv, TypeOK
<1> QED BY InvInductive, <1>1, PTL

\* The reference count of a seed is the number of bytes it holds, at every
\* step of update_bitmap_score.
THEOREM RefsCorrect == Spec => []RefsRight
<1>1. IInv => RefsRight
  BY DEF IInv
<1> QED BY InvInductive, <1>1, PTL

\* cull_queue never meets a holder whose trace was freed, and no trace is kept
\* for a seed that holds nothing.
THEOREM MiniCorrect == Spec => []MiniKept
<1>1. IInv => MiniKept
  BY DEF IInv
<1> QED BY InvInductive, <1>1, PTL

\* One pass per scored seed is enough: the holder of a byte is the cheapest of
\* all seeds that set it, also after trimming has made a loser cheaper.
THEOREM CheapestCorrect == Spec => []CheapestHolds
<1>1. IInv => CheapestHolds
  BY DEF IInv, Cheapest, CheapestHolds
<1> QED BY InvInductive, <1>1, PTL

\* What cull_queue picks covers every byte with a holder, and none of it is
\* marked redundant, until a score changes.
THEOREM CoverCorrect == Spec => []FavoredCover
<1>1. IInv => FavoredCover
  BY DEF IInv, Cover, Covered, FavoredCover
<1> QED BY InvInductive, <1>1, PTL

\* With steady traces queued_favored and pending_favored are the numbers they
\* stand for, however culling, trimming and fuzzing follow each other.
THEOREM CountsCorrect == Spec => []CountsRight
<1>1. IInv => CountsRight
  BY DEF IInv, Steady, CountsRight
<1> QED BY InvInductive, <1>1, PTL

\* The four facts together, as the run favored checks them.
THEOREM MarksSoundHolds == Spec => []MarksSound
<1>1. TypeOK /\ RefsRight /\ MiniKept /\ CountsRight => MarksSound
  BY DEF MarksSound
<1> QED BY <1>1, TypeCorrect, RefsCorrect, MiniCorrect, CountsCorrect, PTL
=============================================================================
