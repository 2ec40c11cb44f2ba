------------------------------ MODULE SeedQueue -----------------------------
(***************************************************************************)
(* The seed queue of one target: a linked list kept in descending order of *)
(* proximity score, walked once per cycle. A seed found during a cycle is  *)
(* inserted at its place, and first_unhandled sends the walk back to the   *)
(* best seed that is still to do. shortcut_per_100 points at every 100th   *)
(* entry, for splicing.                                                    *)
(***************************************************************************)
EXTENDS Naturals, FiniteSets, SequencesExt

CONSTANTS MaxEntries, \* bound: seeds the queue grows to
          MaxScore,   \* bound: proximity scores
          MaxCycles,  \* bound: queue cycles
          Stride,     \* 100: entries from one shortcut to the next
          Slots       \* 1024: shortcuts

ASSUME SeedQueueAssumption ==
    /\ MaxEntries \in Nat \ {0} /\ MaxScore \in Nat /\ MaxCycles \in Nat
    /\ Stride \in Nat \ {0} /\ Slots \in Nat \ {0}

NULL == MaxEntries      \* no entry
Entries == 0 .. MaxEntries - 1
Scores == 0 .. MaxScore

VARIABLES
  phase,            \* "read", "dry", "loop" or "fuzz"
  queue,            \* the list, from its head
  prox_score,
  handled,          \* the entries whose handled_in_cycle is set
  retry,            \* the entries whose calibration is to be tried again
  queue_cur, first_unhandled,
  shortcut,         \* shortcut_per_100
  queue_cycle,
  repeated,         \* history: a seed was taken up twice in this cycle
  drifted           \* history: a queued seed's score was changed in place

lists == <<queue, first_unhandled, shortcut>>
vars == <<phase, lists, prox_score, handled, retry, queue_cur, queue_cycle,
          repeated, drifted>>

queued_paths == Len(queue)

----------------------------------------------------------------------------
(* sorted_insert_to_queue                                                  *)

\* How many entries of the list end up in front of q: none if the head has a
\* lower score, else those up to the first whose successor has a lower one.
PlaceFor(list, score, q) ==
    IF score[list[1]] < score[q] THEN 0
    ELSE CHOOSE p \in 1 .. Len(list) :
           /\ p = Len(list) \/ score[list[p + 1]] < score[q]
           /\ \A k \in 1 .. p - 1 : score[list[k + 1]] >= score[q]

\* The shortcuts after a walk over the list.
Shortcuts(list, old) ==
    [k \in 0 .. Slots - 1 |->
       IF k * Stride < Len(list) THEN list[k * Stride + 1] ELSE old[k]]

FirstOf(list, done) ==
    LET todo == {k \in 1 .. Len(list) : list[k] \notin done}
    IN  IF todo = {} THEN NULL ELSE list[CHOOSE k \in todo : \A j \in todo : k <= j]

\* Inserting q into the state <<list, first_unhandled, shortcuts>>.
SortedInsert(st, q, score, done) ==
    IF st[1] = <<>>
    THEN <<<<q>>, st[2], [st[3] EXCEPT ![0] = q]>>
    ELSE LET p == PlaceFor(st[1], score, q)
             list == InsertAt(st[1], p + 1, q)
         IN  <<list, FirstOf(list, done), Shortcuts(list, st[3])>>

\* sort_queue: the entries are taken off and inserted again one by one.
SortQueue(st, score, done) ==
    LET after[n \in 0 .. Len(st[1])] ==
          IF n = 0 THEN <<<<>>, st[2], [k \in 0 .. Slots - 1 |-> NULL]>>
          ELSE SortedInsert(after[n - 1], st[1][n], score, done)
    IN  after[Len(st[1])]

----------------------------------------------------------------------------

Init ==
    /\ phase = "read"
    /\ queue = <<>> /\ first_unhandled = NULL /\ queue_cur = NULL
    /\ shortcut = [k \in 0 .. Slots - 1 |-> NULL]
    /\ prox_score = [e \in Entries |-> 0]
    /\ handled = {} /\ retry = {}
    /\ queue_cycle = 0
    /\ repeated = FALSE /\ drifted = FALSE

Becomes(st) == queue' = st[1] /\ first_unhandled' = st[2] /\ shortcut' = st[3]

\* add_to_queue of the next entry_id; the scores are given.
AddToQueue(score) == Becomes(SortedInsert(lists, queued_paths, score, handled))

\* read_testcases queues a file of the input directory, with score 0.
ReadTestcase ==
    /\ phase = "read" /\ queued_paths < MaxEntries
    /\ prox_score' = prox_score
    /\ AddToQueue(prox_score)
    /\ UNCHANGED <<phase, handled, retry, queue_cur, queue_cycle, repeated,
                   drifted>>

\* perform_dry_run measures every seed, or gives a seed up that times out,
\* and sort_queue follows.
SeedDryRun ==
    /\ phase = "read" /\ queued_paths > 0
    /\ phase' = "loop"
    /\ \E s \in [0 .. queued_paths - 1 -> Scores] :
          prox_score' = [e \in Entries |-> IF e \in DOMAIN s THEN s[e] ELSE 0]
    /\ Becomes(SortQueue(lists, prox_score', handled))
    /\ UNCHANGED <<handled, retry, queue_cur, queue_cycle, repeated,
                   drifted>>

\* main takes up queue_cur, or the head of the queue in a new cycle.
TakeUp ==
    /\ phase = "loop"
    /\ phase' = "fuzz"
    /\ IF queue_cur = NULL
       THEN /\ queue_cycle < MaxCycles
            /\ queue_cycle' = queue_cycle + 1
            /\ queue_cur' = queue[1]
            /\ handled' = {queue[1]}
            /\ repeated' = FALSE
       ELSE /\ handled' = handled \cup {queue_cur}
            /\ repeated' = (repeated \/ queue_cur \in handled)
            /\ UNCHANGED <<queue_cycle, queue_cur>>
    /\ UNCHANGED <<lists, prox_score, retry, drifted>>

\* save_if_interesting queues a find by the score of the run that showed it;
\* calibrate_case then measures it again, in place, or fails.
Find ==
    /\ phase = "fuzz" /\ queued_paths < MaxEntries
    /\ \E s, t \in Scores, ok \in BOOLEAN :
          LET scored == [prox_score EXCEPT ![queued_paths] = s]
          IN  /\ ~ok => t = s
              /\ drifted' = (drifted \/ t # s)
              /\ AddToQueue(scored)
              /\ prox_score' = [scored EXCEPT ![queued_paths] = t]
              /\ retry' = IF ok THEN retry ELSE retry \cup {queued_paths}
    /\ UNCHANGED <<phase, handled, queue_cur, queue_cycle, repeated>>

\* fuzz_one calibrates the current seed if that failed before. Failing again
\* changes nothing here; after CAL_CHANCES it is given up.
SeedRecalibrate ==
    /\ phase = "fuzz" /\ queue_cur \in retry
    /\ \E t \in Scores :
          /\ drifted' = (drifted \/ t # prox_score[queue_cur])
          /\ prox_score' = [prox_score EXCEPT ![queue_cur] = t]
    /\ retry' = retry \ {queue_cur}
    /\ UNCHANGED <<phase, lists, handled, queue_cur, queue_cycle, repeated>>

\* Where an entry stands in the list.
PlaceOf(e) == CHOOSE k \in 1 .. Len(queue) : queue[k] = e

\* Mutant: the walk goes on behind queue_cur, without first_unhandled.
NextSeed_Forward ==
    FirstOf(SubSeq(queue, PlaceOf(queue_cur), Len(queue)), handled)
\* The seed to take up after queue_cur: first_unhandled, or the next one of
\* the rest of the list that is not handled.
NextInQueue ==
    IF first_unhandled # NULL THEN first_unhandled
    ELSE FirstOf(SubSeq(queue, PlaceOf(queue_cur), Len(queue)), handled)

\* fuzz_one has returned.
Proceed ==
    /\ phase = "fuzz"
    /\ phase' = "loop"
    /\ queue_cur' = NextInQueue
    /\ first_unhandled' = NULL
    /\ UNCHANGED <<queue, shortcut, prox_score, handled, retry, queue_cycle,
                   repeated, drifted>>

Next == ReadTestcase \/ SeedDryRun \/ TakeUp \/ Find \/ SeedRecalibrate \/ Proceed
Spec == Init /\ [][Next]_vars

----------------------------------------------------------------------------
(* fuzz_one picks a splicing partner by its index.                         *)

\* The entry the walk for index idx ends at. Beyond the last shortcut the code
\* subtracts idx_div * Slots from the unsigned idx; when that wraps, the walk
\* leaves the list and dereferences NULL.
SpliceTarget(idx) ==
    LET div == idx \div Stride
        from == IF div < Slots THEN shortcut[div] ELSE shortcut[Slots - 1]
        steps == IF div < Slots THEN idx - div * Stride ELSE idx - div * Slots
        at == PlaceOf(from) + steps
    IN  IF div >= Slots /\ idx < div * Slots THEN NULL
        ELSE IF at > Len(queue) THEN NULL ELSE queue[at]

----------------------------------------------------------------------------
(* Correctness                                                             *)

\* Type correctness: the list holds each queued entry once.
TypeOK ==
    /\ phase \in {"read", "loop", "fuzz"}
    /\ queue \in Seq(Entries) /\ ToSet(queue) = 0 .. Len(queue) - 1
    /\ prox_score \in [Entries -> Scores]
    /\ handled \subseteq ToSet(queue) /\ retry \subseteq ToSet(queue)
    /\ queue_cur \in Entries \cup {NULL}
    /\ first_unhandled \in Entries \cup {NULL}
    /\ shortcut \in [0 .. Slots - 1 -> Entries \cup {NULL}]
    /\ queue_cycle \in 0 .. MaxCycles
    /\ repeated \in BOOLEAN /\ drifted \in BOOLEAN

\* A cycle is over only when every seed was handled, those queued meanwhile
\* included, wherever they were inserted.
CycleCovers ==
    phase = "loop" /\ queue_cur = NULL /\ queue_cycle > 0 =>
        handled = ToSet(queue)

\* The seed taken up is one with the highest score of those still to do, also
\* when a better one was found in the middle of the cycle, as long as no score
\* was changed behind the list's back (calibrate_case does that).
BestFirst ==
    phase = "loop" /\ phase' = "fuzz" /\ ~drifted =>
        \A e \in ToSet(queue) :
           \/ queue_cur # NULL /\ e \in handled
           \/ prox_score[e] <= prox_score[queue_cur']

\* With the same proviso the list is in descending order of score ("preserving
\* the sorted order based on the proximity score", sorted_insert_to_queue).
Sorted ==
    phase # "read" /\ ~drifted =>
        \A k \in 1 .. Len(queue) - 1 :
            prox_score[queue[k]] >= prox_score[queue[k + 1]]

\* A splicing partner drawn by index is the entry at that index of the list
\* ("Pick a random queue entry and find it", fuzz_one).
SpliceFinds == \A idx \in 0 .. queued_paths - 1 :
                  SpliceTarget(idx) = queue[idx + 1]

\* A seed is taken up twice in a cycle only at the very start, where
\* first_unhandled is left over from sort_queue: from the second cycle on
\* every seed has one turn per cycle.
RepeatsOnlyAtStart == repeated => queue_cycle = 1

\* What holds of the queue in every state.
QueueSound == TypeOK /\ CycleCovers /\ Sorted /\ SpliceFinds /\ RepeatsOnlyAtStart

\* The queue is right: a cycle covers it, in the order of the scores, and its
\* shortcuts lead to the entry they are asked for (src/afl-fuzz.c:940-1032,
\* 9222-9275).
QueueRight == [][QueueSound' /\ BestFirst]_vars
=============================================================================
