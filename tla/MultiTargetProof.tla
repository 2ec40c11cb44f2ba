-------------------------- MODULE MultiTargetProof --------------------------
(***************************************************************************)
(* Proofs about the targets of one process, for every number of targets    *)
(* and every bound of the model.                                           *)
(***************************************************************************)
EXTENDS MultiTarget, TLAPS

\* Where main is before its loop, and in it or past it.
Early == pc \in {"read", "start", "dry", "ready"}
Past  == pc \in {"save", "cleanup", "exit"}

\* A context that is not being worked with fits what the heap has of target t.
Fits(t, c) ==
    /\ c.paths > 0 /\ heap[t].todo <= c.paths
    /\ c.cur = "none" => heap[t].todo = 0 \/ c.cycle = 0
    /\ c.cur = "todo" => heap[t].todo > 0
    /\ c.cur # "none" => c.cycle > 0
    /\ c.unhandled # "todo"
    /\ c.dry <= c.cycle /\ c.cycle <= MaxCycles

\* The contexts in the arrays: untouched, read, and in use.
SavedInv ==
    /\ Early => \A t \in Targets :
          /\ saved[t].cycle = 0 /\ saved[t].dry = 0 /\ saved[t].cur = "none"
          /\ pc = "read" /\ t >= i =>
                saved[t].paths = 0 /\ saved[t].unhandled = "none" /\ heap[t].todo = 0
    /\ ~Past => \A t \in Targets :
          \/ pc = "read" /\ t >= i
          \/ pc = "fuzz" /\ t = cur_target
          \/ Fits(t, saved[t])

\* The context in the globals while fuzz_one runs.
LiveInv ==
    pc = "fuzz" =>
        /\ live.paths > 0 /\ heap[cur_target].todo <= live.paths
        /\ live.unhandled = "todo" => heap[cur_target].todo > 0
        /\ live.cycle > 0 /\ live.dry <= live.cycle
        /\ ~stop_soon => live.cycle <= MaxCycles

\* havoc_div is right in the second round of read_testcases, and from then on.
DivInv ==
    NTargets > 1 =>
        /\ pc = "read" /\ i = 1 => \A t \in Targets \ {0} : saved[t].div > 0
        /\ pc # "read" \/ i > 1 => \A t \in Targets : saved[t].div > 0
        /\ pc = "fuzz" => live.div > 0

\* main's loop index, and how often the dictionary was destroyed.
LoopInv ==
    /\ pc \in {"start", "ready", "select", "fuzz", "exit"} => i = 0
    /\ ~Past => freed = 0
    /\ pc = "save" => freed = 0
    /\ pc = "cleanup" => freed = i
    /\ pc = "exit" => freed = NTargets

\* Unless they have changed, the tokens in use are in one of the
\* directories; nothing has changed before main has its inputs.
AutoInv ==
    /\ ~auto_changed => \E t \in Targets : disk[t].auto = used
    /\ pc \in {"read", "start"} => ~auto_changed /\ used = {}
    /\ pc = "save" /\ i > 0 => ~auto_changed
    /\ FilesSaved => ~auto_changed

IInv == TypeOK /\ SavedInv /\ LiveInv /\ DivInv /\ LoopInv /\ AutoInv

-----------------------------------------------------------------------------
(* Constants, contexts and the loops over the targets.                     *)

LEMMA Consts ==
    /\ NTargets \in Nat \ {0} /\ MaxSeeds \in Nat \ {0}
    /\ MaxCycles \in Nat
    /\ 0 \in Targets
BY NTargetsAssumption, BoundsAssumption DEF Targets

Heaps == [todo : 0 .. MaxSeeds, ranks : BOOLEAN, bits : BOOLEAN]

\* The types of the fields of a context.
LEMMA ContextFields ==
    ASSUME NEW c \in Context
    PROVE  /\ c.paths \in 0 .. MaxSeeds /\ c.cycle \in 0 .. MaxCycles + 1
           /\ c.dry \in 0 .. MaxCycles + 1 /\ c.div \in {0, 1, 10}
           /\ c.start \in BOOLEAN
           /\ c.cur \in {"none", "todo", "done"}
           /\ c.unhandled \in {"none", "todo", "done"}
BY DEF Context

\* The loop index stays in range, and is 0 after the loop.
LEMMA LoopIndex ==
    ASSUME i \in Targets, NEW loop, NEW after, LoopOn(loop, after)
    PROVE  /\ i' \in Targets
           /\ \/ pc' = loop /\ i' = i + 1
              \/ pc' = after /\ i' = 0 /\ i + 1 = NTargets
<1>1. NTargets \in Nat \ {0} /\ i \in 0 .. NTargets - 1
  BY Consts DEF Targets
<1>2. /\ i' = (i + 1) % NTargets
      /\ pc' = IF i + 1 < NTargets THEN loop ELSE after
  BY DEF LoopOn
<1>3. CASE i + 1 < NTargets
  <2>1. (i + 1) % NTargets = i + 1
    BY <1>1, <1>3
  <2>2. i' = i + 1 /\ pc' = loop
    BY <1>2, <1>3, <2>1
  <2> QED BY <1>1, <1>3, <2>2 DEF Targets
<1>4. CASE ~(i + 1 < NTargets)
  <2>1. i + 1 = NTargets
    BY <1>1, <1>4
  <2>2. (i + 1) % NTargets = 0
    BY <1>1, <2>1
  <2>3. i' = 0 /\ pc' = after
    BY <1>2, <1>4, <2>2
  <2> QED BY <2>1, <2>3, Consts
<1> QED BY <1>3, <1>4

\* The context and the heap of a target that nothing is known of yet.
LEMMA Zeros == /\ NoContext \in Context
               /\ NoContext.paths = 0 /\ NoContext.cycle = 0 /\ NoContext.dry = 0
               /\ NoContext.div = 0 /\ NoContext.cur = "none"
               /\ NoContext.unhandled = "none"
               /\ [todo |-> 0, ranks |-> FALSE, bits |-> FALSE] \in Heaps
BY Consts DEF NoContext, Context, Heaps

\* Setting a field of a context.
LEMMA SetDiv ==
    ASSUME NEW c \in Context, NEW d \in {0, 1, 10}
    PROVE  LET e == [c EXCEPT !.div = d]
           IN  /\ e \in Context
               /\ e.paths = c.paths /\ e.cycle = c.cycle /\ e.dry = c.dry
               /\ e.div = d /\ e.cur = c.cur /\ e.unhandled = c.unhandled
BY DEF Context

LEMMA TypeInit == Init => TypeOK
<1> SUFFICES ASSUME Init PROVE TypeOK
  OBVIOUS
<1>1. /\ pc = "read" /\ i = 0 /\ cur_target = 0 /\ prev_queued = 0
      /\ a_extras = {} /\ used = {} /\ freed = 0
  BY DEF Init
<1>2. live \in Context
  BY Zeros, SetDiv DEF Init
<1>3. saved \in [Targets -> Context] /\ ended \in [Targets -> Context]
  BY Zeros DEF Init
<1>4. /\ heap \in [Targets -> Heaps]
      /\ disk \in [Targets -> [stats : 0 .. MaxSeeds, auto : SUBSET Tokens]]
      /\ seen \in [Targets -> 0 .. MaxSeeds]
  BY Consts, Zeros DEF Init
<1>5. /\ bitmap_changed \in BOOLEAN /\ score_changed \in BOOLEAN
      /\ auto_changed \in BOOLEAN /\ use_splicing \in BOOLEAN /\ stop_soon \in BOOLEAN
  BY DEF Init
<1> QED BY <1>1, <1>2, <1>3, <1>4, <1>5, Consts DEF TypeOK, Heaps

-----------------------------------------------------------------------------
(* What the actions do, field by field.                                    *)

\* Two contexts that differ in what no property of progress looks at.
SameProgress(c, d) ==
    /\ c.paths = d.paths /\ c.cycle = d.cycle /\ c.dry = d.dry
    /\ c.cur = d.cur /\ c.unhandled = d.unhandled

LEMMA ReadFields ==
    ASSUME NEW c \in Context, NEW n \in 1 .. MaxSeeds
    PROVE  LET e == [c EXCEPT !.paths = n,
                              !.unhandled = IF n > 1 THEN "done" ELSE @]
           IN  /\ e \in Context
               /\ e.paths = n /\ e.cycle = c.cycle /\ e.dry = c.dry
               /\ e.div = c.div /\ e.cur = c.cur
               /\ e.unhandled \in {"done", c.unhandled}
<1> DEFINE u == IF n > 1 THEN "done" ELSE c.unhandled
<1>1. u \in {"none", "todo", "done"} /\ u \in {"done", c.unhandled}
  BY ContextFields
<1>2. n \in 0 .. MaxSeeds
  BY Consts
<1> HIDE DEF u
<1>3. LET e == [c EXCEPT !.paths = n, !.unhandled = u]
      IN  /\ e \in Context
          /\ e.paths = n /\ e.cycle = c.cycle /\ e.dry = c.dry
          /\ e.div = c.div /\ e.cur = c.cur /\ e.unhandled = u
  BY <1>2, <1>1 DEF Context
<1> QED BY <1>1, <1>3 DEF u

LEMMA StartFields ==
    ASSUME NEW c \in Context
    PROVE  /\ [c EXCEPT !.start = TRUE] \in Context
           /\ SameProgress([c EXCEPT !.start = TRUE], c)
BY DEF Context, SameProgress

LEMMA CycleFields ==
    ASSUME NEW c \in Context, c.cycle <= MaxCycles, c.dry <= c.cycle
    PROVE  LET e == NewCycle(c)
           IN  /\ e \in Context
               /\ e.paths = c.paths /\ e.cycle = c.cycle + 1 /\ e.dry <= e.cycle
               /\ e.div = c.div /\ e.cur = "todo" /\ e.unhandled = c.unhandled
<1> DEFINE y == c.cycle + 1
           d == IF c.paths # prev_queued THEN 0
                ELSE IF use_splicing THEN c.dry + 1 ELSE c.dry
<1>1. /\ y \in 0 .. MaxCycles + 1 /\ d \in 0 .. MaxCycles + 1 /\ d <= y
  BY ContextFields, Consts
<1> HIDE DEF y, d
<1>2. LET e == [c EXCEPT !.cycle = y, !.dry = d, !.cur = "todo"]
      IN  /\ e \in Context
          /\ e.paths = c.paths /\ e.cycle = y /\ e.dry = d
          /\ e.div = c.div /\ e.cur = "todo" /\ e.unhandled = c.unhandled
  BY <1>1 DEF Context
<1>3. NewCycle(c) = [c EXCEPT !.cycle = y, !.dry = d, !.cur = "todo"]
  BY DEF NewCycle, y, d
<1> QED BY <1>1, <1>2, <1>3 DEF y

LEMMA CurFields ==
    ASSUME NEW c \in Context, NEW x \in {"none", "todo", "done"}
    PROVE  LET e == [c EXCEPT !.cur = x]
           IN  /\ e \in Context
               /\ e.paths = c.paths /\ e.cycle = c.cycle /\ e.dry = c.dry
               /\ e.div = c.div /\ e.cur = x /\ e.unhandled = c.unhandled
BY DEF Context

LEMMA FindFields ==
    ASSUME NEW c \in Context, c.paths < MaxSeeds
    PROVE  LET e == [c EXCEPT !.paths = @ + 1, !.dry = 0, !.unhandled = "todo"]
           IN  /\ e \in Context
               /\ e.paths = c.paths + 1 /\ e.cycle = c.cycle /\ e.dry = 0
               /\ e.div = c.div /\ e.cur = c.cur /\ e.unhandled = "todo"
<1> DEFINE p == c.paths + 1
<1>1. p \in 0 .. MaxSeeds /\ 0 \in 0 .. MaxCycles + 1
  BY ContextFields, Consts
<1> HIDE DEF p
<1>2. LET e == [c EXCEPT !.paths = p, !.dry = 0, !.unhandled = "todo"]
      IN  /\ e \in Context
          /\ e.paths = p /\ e.cycle = c.cycle /\ e.dry = 0
          /\ e.div = c.div /\ e.cur = c.cur /\ e.unhandled = "todo"
  BY <1>1 DEF Context
<1> QED BY <1>2 DEF p

LEMMA NextFields ==
    ASSUME NEW c \in Context, NEW x \in {"none", "todo", "done"}
    PROVE  LET e == [c EXCEPT !.cur = x, !.unhandled = "none"]
           IN  /\ e \in Context
               /\ e.paths = c.paths /\ e.cycle = c.cycle /\ e.dry = c.dry
               /\ e.div = c.div /\ e.cur = x /\ e.unhandled = "none"
BY DEF Context

\* One field of a heap is set.
LEMMA HeapFields ==
    ASSUME NEW h \in Heaps, NEW n \in 0 .. MaxSeeds, NEW b \in BOOLEAN
    PROVE  /\ [h EXCEPT !.todo = n] \in Heaps /\ [h EXCEPT !.todo = n].todo = n
           /\ [h EXCEPT !.ranks = b] \in Heaps
           /\ [h EXCEPT !.ranks = b].todo = h.todo
           /\ [h EXCEPT !.bits = b] \in Heaps
           /\ [h EXCEPT !.bits = b].todo = h.todo
BY DEF Heaps

\* The steps that leave every queue alone.
SameTodo == /\ heap' \in [Targets -> Heaps]
            /\ \A t \in Targets : heap'[t].todo = heap[t].todo

LEMMA BitmapEffect ==
    ASSUME TypeOK, NEW t \in Targets, WriteBitmap(t)
    PROVE  SameTodo /\ bitmap_changed' \in BOOLEAN
<1>1. heap \in [Targets -> Heaps] /\ heap[t] \in Heaps
  BY DEF TypeOK, Heaps
<1>2. /\ [heap[t] EXCEPT !.bits = FALSE] \in Heaps
      /\ [heap[t] EXCEPT !.bits = FALSE].todo = heap[t].todo
  <2>1. ASSUME NEW b \in BOOLEAN
        PROVE  /\ [heap[t] EXCEPT !.bits = b] \in Heaps
               /\ [heap[t] EXCEPT !.bits = b].todo = heap[t].todo
    BY <1>1 DEF Heaps
  <2> QED BY <2>1
<1>3. heap' = IF bitmap_changed
              THEN [heap EXCEPT ![t] = [heap[t] EXCEPT !.bits = FALSE]] ELSE heap
  BY DEF WriteBitmap
<1>4. bitmap_changed' \in BOOLEAN
  BY DEF WriteBitmap
<1> HIDE DEF Heaps
<1> QED BY <1>1, <1>2, <1>3, <1>4 DEF SameTodo

LEMMA FilesEffect ==
    ASSUME TypeOK, NEW t \in Targets, NEW c \in Context, WriteFiles(t, c)
    PROVE  /\ disk' \in [Targets -> [stats : 0 .. MaxSeeds, auto : SUBSET Tokens]]
           /\ auto_changed' = FALSE
           /\ disk'[t].auto = IF auto_changed THEN used ELSE disk[t].auto
           /\ \A u \in Targets : u # t => disk'[u].auto = disk[u].auto
<1>1. /\ disk \in [Targets -> [stats : 0 .. MaxSeeds, auto : SUBSET Tokens]]
      /\ used \in SUBSET Tokens /\ c.paths \in 0 .. MaxSeeds
  BY ContextFields DEF TypeOK
<1> DEFINE a == IF auto_changed THEN used ELSE disk[t].auto
<1>2. a \in SUBSET Tokens
  BY <1>1
<1>3. disk' = [disk EXCEPT ![t] = [stats |-> c.paths, auto |-> a]]
      /\ auto_changed' = FALSE
  BY DEF WriteFiles, SaveAuto
<1> HIDE DEF a
<1>4. /\ disk' \in [Targets -> [stats : 0 .. MaxSeeds, auto : SUBSET Tokens]]
      /\ disk'[t].auto = a
      /\ \A u \in Targets : u # t => disk'[u].auto = disk[u].auto
  BY <1>1, <1>2, <1>3
<1> QED BY <1>3, <1>4 DEF a

-----------------------------------------------------------------------------
(* The actions that change contexts or queues.                             *)

\* What main's own bookkeeping is made of.
Flags == /\ bitmap_changed' \in BOOLEAN /\ score_changed' \in BOOLEAN
         /\ auto_changed' \in BOOLEAN /\ use_splicing' \in BOOLEAN
         /\ stop_soon' \in BOOLEAN
         /\ a_extras' \subseteq Tokens /\ used' \subseteq a_extras'
         /\ prev_queued' \in 0 .. MaxSeeds
         /\ seen' \in [Targets -> 0 .. MaxSeeds]

LEMMA ReadEffect ==
    ASSUME TypeOK, ReadTarget
    PROVE  /\ live' \in Context /\ saved' \in [Targets -> Context]
           /\ heap' \in [Targets -> Heaps]
           /\ \E n \in 1 .. MaxSeeds :
                 saved'[i].paths = n /\ heap'[i].todo = n
           /\ saved'[i].cycle = saved[i].cycle /\ saved'[i].dry = saved[i].dry
           /\ saved'[i].cur = saved[i].cur /\ saved'[i].div = saved[i].div
           /\ saved'[i].unhandled \in {"done", saved[i].unhandled}
           /\ \A t \in Targets : t # i =>
                 /\ SameProgress(saved'[t], saved[t]) /\ saved'[t].div = 1
                 /\ heap'[t] = heap[t]
<1>0. saved \in [Targets -> Context] /\ heap \in [Targets -> Heaps] /\ i \in Targets
  BY DEF TypeOK, Heaps
<1>1. PICK n \in 1 .. MaxSeeds :
        LET c == [saved[i] EXCEPT !.paths = n,
                   !.unhandled = IF n > 1 THEN "done" ELSE @]
        IN  /\ live' = c
            /\ saved' = [AllDivsOne EXCEPT ![i] = c]
            /\ heap' = [heap EXCEPT ![i] = [@ EXCEPT !.todo = n]]
  BY DEF ReadTarget, SwitchTarget
<1> DEFINE c == [saved[i] EXCEPT !.paths = n,
                  !.unhandled = IF n > 1 THEN "done" ELSE @]
           h == [heap[i] EXCEPT !.todo = n]
<1>2. /\ c \in Context
      /\ c.paths = n /\ c.cycle = saved[i].cycle /\ c.dry = saved[i].dry
      /\ c.div = saved[i].div /\ c.cur = saved[i].cur
      /\ c.unhandled \in {"done", saved[i].unhandled}
  BY <1>0, ReadFields
<1>3. h \in Heaps /\ h.todo = n
  <2>1. heap[i] \in Heaps /\ n \in 0 .. MaxSeeds
    BY <1>0, Consts
  <2> QED BY <2>1 DEF Heaps
<1>4. /\ AllDivsOne \in [Targets -> Context]
      /\ \A t \in Targets : /\ SameProgress(AllDivsOne[t], saved[t])
                            /\ AllDivsOne[t].div = 1
  <2>1. \A t \in Targets : LET e == [saved[t] EXCEPT !.div = 1]
                           IN  /\ e \in Context /\ SameProgress(e, saved[t])
                               /\ e.div = 1
    BY <1>0, SetDiv DEF SameProgress
  <2> QED BY <2>1 DEF AllDivsOne
<1>5. live' = c /\ saved' = [AllDivsOne EXCEPT ![i] = c] /\ heap' = [heap EXCEPT ![i] = h]
  BY <1>1
<1> HIDE DEF c, h
<1>6. live' \in Context /\ saved' \in [Targets -> Context] /\ saved'[i] = c
  BY <1>0, <1>2, <1>4, <1>5
<1>7. heap' \in [Targets -> Heaps] /\ heap'[i] = h
  BY <1>0, <1>3, <1>5
<1>8. \A t \in Targets : t # i => saved'[t] = AllDivsOne[t] /\ heap'[t] = heap[t]
  BY <1>0, <1>4, <1>5
<1> QED BY <1>2, <1>3, <1>4, <1>6, <1>7, <1>8

LEMMA DryEffect ==
    ASSUME TypeOK, DryRun
    PROVE  /\ live' \in Context /\ saved' \in [Targets -> Context]
           /\ \A t \in Targets : /\ SameProgress(saved'[t], saved[t])
                                 /\ saved[t].div > 0 => saved'[t].div > 0
           /\ SameTodo
           /\ \E c \in Context : WriteFiles(i, c)
           /\ bitmap_changed' \in BOOLEAN /\ score_changed' = FALSE
<1>0. /\ saved \in [Targets -> Context] /\ heap \in [Targets -> Heaps]
      /\ i \in Targets /\ bitmap_changed \in BOOLEAN
  BY DEF TypeOK, Heaps
<1>1. PICK ran, slow \in BOOLEAN :
        /\ LET c == [saved[i] EXCEPT !.div = IF slow THEN 10 ELSE @]
           IN  /\ live' = c
               /\ saved' = [saved EXCEPT ![i] = c]
               /\ WriteFiles(i, c)
        /\ heap' = [heap EXCEPT ![i] = [heap[i] EXCEPT !.bits = heap[i].bits \/ ran]]
        /\ bitmap_changed' = (bitmap_changed \/ ran)
  BY DEF DryRun, SwitchTarget, SaveTarget
<1> DEFINE d == IF slow THEN 10 ELSE saved[i].div
           c == [saved[i] EXCEPT !.div = d]
           b == heap[i].bits \/ ran
           h == [heap[i] EXCEPT !.bits = b]
<1>2. d \in {0, 1, 10} /\ (saved[i].div > 0 => d > 0)
  BY <1>0, ContextFields
<1>3. c \in Context /\ SameProgress(c, saved[i]) /\ c.div = d
  <2>1. saved[i] \in Context
    BY <1>0
  <2> HIDE DEF d
  <2>2. LET e == [saved[i] EXCEPT !.div = d]
        IN  /\ e \in Context
            /\ e.paths = saved[i].paths /\ e.cycle = saved[i].cycle
            /\ e.dry = saved[i].dry /\ e.div = d /\ e.cur = saved[i].cur
            /\ e.unhandled = saved[i].unhandled
    BY <1>2, <2>1, SetDiv
  <2> QED BY <2>2 DEF SameProgress
<1>4. b \in BOOLEAN
  OBVIOUS
<1>5. h \in Heaps /\ h.todo = heap[i].todo
  <2>1. heap[i] \in Heaps
    BY <1>0
  <2> HIDE DEF b
  <2> QED BY <1>4, <2>1 DEF Heaps
<1>6. /\ live' = c /\ saved' = [saved EXCEPT ![i] = c] /\ WriteFiles(i, c)
      /\ heap' = [heap EXCEPT ![i] = h]
  <2>1. live' = c
    BY <1>1
  <2>2. saved' = [saved EXCEPT ![i] = c]
    BY <1>1
  <2>3. WriteFiles(i, c)
    BY <1>1
  <2>4. heap' = [heap EXCEPT ![i] = h]
    BY <1>1
  <2> QED BY <2>1, <2>2, <2>3, <2>4
<1>7. bitmap_changed' \in BOOLEAN /\ score_changed' = FALSE
  BY <1>1 DEF DryRun
<1> HIDE DEF c, d, h, b
<1>8. /\ live' \in Context /\ saved' \in [Targets -> Context]
      /\ saved'[i] = c /\ \A t \in Targets : t # i => saved'[t] = saved[t]
  BY <1>0, <1>3, <1>6
<1>9. \A t \in Targets : /\ SameProgress(saved'[t], saved[t])
                         /\ saved[t].div > 0 => saved'[t].div > 0
  BY <1>2, <1>3, <1>8 DEF SameProgress
<1>10. SameTodo
  BY <1>0, <1>5, <1>6 DEF SameTodo
<1> QED BY <1>3, <1>6, <1>7, <1>8, <1>9, <1>10

LEMMA EnterEffect ==
    ASSUME TypeOK, SavedInv, NEW t \in Targets, Enter(t)
    PROVE  /\ Fits(t, saved[t])
           /\ live' \in Context /\ heap' \in [Targets -> Heaps]
           /\ live'.paths = saved[t].paths /\ live'.div = saved[t].div
           /\ live'.unhandled = saved[t].unhandled /\ live'.dry <= live'.cycle
           /\ \A u \in Targets : u # t => heap'[u].todo = heap[u].todo
           /\ \/ /\ saved[t].cur = "none" /\ live'.cycle = saved[t].cycle + 1
                 /\ heap'[t].todo = saved[t].paths - 1
                 /\ saved[t].cycle < MaxCycles \/ stop_soon
              \/ /\ saved[t].cur = "todo" /\ live'.cycle = saved[t].cycle
                 /\ heap'[t].todo = heap[t].todo - 1
              \/ /\ saved[t].cur = "done" /\ live'.cycle = saved[t].cycle
                 /\ heap'[t].todo = heap[t].todo
<1> DEFINE c == saved[t]
           through == c.cur = "none"
           now == IF through THEN NewCycle(c) ELSE c
           left == IF through THEN c.paths ELSE heap[t].todo
           n == IF now.cur = "todo" THEN left - 1 ELSE left
           h == CullQueue(t, heap)
<1>0. /\ saved \in [Targets -> Context] /\ heap \in [Targets -> Heaps]
      /\ heap[t] \in Heaps /\ c \in Context
  BY DEF TypeOK, Heaps
<1>1. Fits(t, c)
  BY DEF Enter, SavedInv, Past
<1>2. /\ through => c.cycle < MaxCycles \/ stop_soon
      /\ live' = [now EXCEPT !.cur = "done"]
      /\ heap' = [h EXCEPT ![t] = [h[t] EXCEPT !.todo = n]]
  BY DEF Enter, SwitchTarget
<1>3. /\ c.cur \in {"none", "todo", "done"} /\ c.paths \in 1 .. MaxSeeds
      /\ c.cycle \in 0 .. MaxCycles /\ c.dry \in Nat /\ c.dry <= c.cycle
      /\ heap[t].todo \in 0 .. c.paths /\ (c.cur = "todo" => heap[t].todo > 0)
  BY <1>0, <1>1, ContextFields, Consts DEF Fits, Heaps
<1>4. /\ now \in Context /\ now.paths = c.paths /\ now.div = c.div
      /\ now.unhandled = c.unhandled /\ now.dry <= now.cycle
      /\ now.cycle = IF through THEN c.cycle + 1 ELSE c.cycle
      /\ now.cur = IF through THEN "todo" ELSE c.cur
  <2>1. CASE through
    <3>1. c.cycle <= MaxCycles /\ c.dry <= c.cycle
      BY <1>3, Consts
    <3> QED BY <1>0, <2>1, <3>1, CycleFields
  <2>2. CASE ~through
    BY <1>0, <1>3, <2>2
  <2> QED BY <2>1, <2>2
<1>5. /\ live' \in Context /\ live'.paths = c.paths /\ live'.div = c.div
      /\ live'.unhandled = c.unhandled /\ live'.dry <= live'.cycle
      /\ live'.cycle = IF through THEN c.cycle + 1 ELSE c.cycle
  <2> HIDE DEF now, c
  <2> QED BY <1>2, <1>4, CurFields
<1>6. /\ n \in 0 .. MaxSeeds
      /\ n = IF through THEN c.paths - 1
             ELSE IF c.cur = "todo" THEN heap[t].todo - 1 ELSE heap[t].todo
  BY <1>3, <1>4, Consts
<1>7. /\ h \in [Targets -> Heaps] /\ \A u \in Targets : u # t => h[u] = heap[u]
  <2>1. [heap[t] EXCEPT !.ranks = FALSE] \in Heaps
    BY <1>0 DEF Heaps
  <2> HIDE DEF Heaps
  <2> QED BY <1>0, <2>1 DEF CullQueue
<1> HIDE DEF h, n
<1>8. [h[t] EXCEPT !.todo = n] \in Heaps /\ [h[t] EXCEPT !.todo = n].todo = n
  <2>1. h[t] \in Heaps
    BY <1>7
  <2> QED BY <1>6, <2>1 DEF Heaps
<1>9. /\ heap' \in [Targets -> Heaps] /\ heap'[t].todo = n
      /\ \A u \in Targets : u # t => heap'[u].todo = heap[u].todo
  BY <1>2, <1>7, <1>8
<1> QED BY <1>1, <1>2, <1>3, <1>5, <1>6, <1>9

LEMMA FindEffect ==
    ASSUME TypeOK, LiveInv, Find
    PROVE  /\ live' \in Context /\ heap' \in [Targets -> Heaps]
           /\ live'.paths = live.paths + 1 /\ live'.cycle = live.cycle
           /\ live'.dry = 0 /\ live'.div = live.div
           /\ heap'[cur_target].todo = heap[cur_target].todo + 1
           /\ \A u \in Targets : u # cur_target => heap'[u] = heap[u]
           /\ score_changed' \in BOOLEAN
<1>0. /\ live \in Context /\ heap \in [Targets -> Heaps] /\ cur_target \in Targets
      /\ score_changed \in BOOLEAN
  BY DEF TypeOK, Heaps
<1>1. live' \in Context /\ live'.paths = live.paths + 1 /\ live'.cycle = live.cycle
      /\ live'.dry = 0 /\ live'.div = live.div
  BY <1>0, FindFields DEF Find
<1>2. PICK calibrated \in BOOLEAN :
        /\ heap' = [heap EXCEPT ![cur_target] =
                       [todo |-> @.todo + 1, ranks |-> @.ranks \/ calibrated,
                        bits |-> TRUE]]
        /\ score_changed' = (score_changed \/ calibrated)
  BY DEF Find
<1>3. heap[cur_target].todo + 1 \in 0 .. MaxSeeds
  <2>1. /\ heap[cur_target].todo <= live.paths /\ live.paths < MaxSeeds
    BY DEF Find, LiveInv
  <2>2. heap[cur_target].todo \in Nat /\ live.paths \in Nat
    BY <1>0, ContextFields, Consts DEF Heaps
  <2> QED BY <2>1, <2>2, Consts
<1> DEFINE n == heap[cur_target].todo + 1
           r == heap[cur_target].ranks \/ calibrated
           h == [todo |-> n, ranks |-> r, bits |-> TRUE]
<1>4. heap' = [heap EXCEPT ![cur_target] = h]
  BY <1>2
<1>5. h \in Heaps /\ h.todo = n
  <2>1. r \in BOOLEAN
    OBVIOUS
  <2> HIDE DEF n, r
  <2> QED BY <1>3, <2>1 DEF Heaps, n
<1>6. score_changed' \in BOOLEAN
  BY <1>0, <1>2
<1> HIDE DEF h
<1>7. /\ heap' \in [Targets -> Heaps] /\ heap'[cur_target] = h
      /\ \A u \in Targets : u # cur_target => heap'[u] = heap[u]
  BY <1>0, <1>4, <1>5
<1> QED BY <1>1, <1>5, <1>6, <1>7

LEMMA EndFuzzEffect ==
    ASSUME TypeOK, LiveInv, EndFuzz
    PROVE  \/ /\ stop_soon /\ pc' = "save"
              /\ ended' = [saved EXCEPT ![cur_target] = live]
              /\ UNCHANGED <<live, saved>>
           \/ /\ pc' = "select" /\ ended' = ended /\ live' \in Context
              /\ saved' = [saved EXCEPT ![cur_target] = live']
              /\ Fits(cur_target, live')
              /\ live'.paths = live.paths /\ live'.cycle = live.cycle
              /\ live'.div = live.div
<1>1. CASE stop_soon
  BY <1>1 DEF EndFuzz
<1>2. CASE ~stop_soon
  <2> DEFINE x == NextSeed(live, heap[cur_target].todo)
  <2>1. /\ live \in Context /\ heap[cur_target].todo \in Nat
    BY Consts DEF TypeOK
  <2>2. x \in {"none", "todo", "done"}
    BY <2>1, ContextFields DEF NextSeed
  <2>3. /\ x = "none" => heap[cur_target].todo = 0
        /\ x = "todo" => heap[cur_target].todo > 0
    BY <2>1 DEF NextSeed, LiveInv, EndFuzz
  <2>4. /\ pc' = "select" /\ ended' = ended
        /\ live' = [live EXCEPT !.cur = x, !.unhandled = "none"]
        /\ saved' = [saved EXCEPT ![cur_target] = live']
    BY <1>2 DEF EndFuzz, SaveTarget
  <2> HIDE DEF x
  <2>5. /\ live' \in Context
        /\ live'.paths = live.paths /\ live'.cycle = live.cycle /\ live'.dry = live.dry
        /\ live'.div = live.div /\ live'.cur = x /\ live'.unhandled = "none"
    BY <2>1, <2>2, <2>4, NextFields
  <2>6. /\ live.paths > 0 /\ heap[cur_target].todo <= live.paths
        /\ live.cycle > 0 /\ live.dry <= live.cycle /\ live.cycle <= MaxCycles
    BY <1>2 DEF LiveInv, EndFuzz
  <2>7. Fits(cur_target, live')
    BY <2>3, <2>5, <2>6 DEF Fits
  <2> QED BY <2>4, <2>5, <2>7
<1> QED BY <1>1, <1>2

LEMMA RescoreEffect == ASSUME TypeOK, Rescore PROVE SameTodo
<1>1. /\ heap \in [Targets -> Heaps] /\ heap[cur_target] \in Heaps
      /\ heap' = [heap EXCEPT ![cur_target] = [heap[cur_target] EXCEPT !.ranks = TRUE]]
  BY DEF TypeOK, Heaps, Rescore
<1>2. /\ [heap[cur_target] EXCEPT !.ranks = TRUE] \in Heaps
      /\ [heap[cur_target] EXCEPT !.ranks = TRUE].todo = heap[cur_target].todo
  BY <1>1 DEF Heaps
<1> QED BY <1>1, <1>2 DEF SameTodo

\* Saving the files of target i at the end.
LEMMA SaveEffect ==
    ASSUME TypeOK, SaveInFile
    PROVE  /\ live' \in Context /\ saved[i] \in Context
           /\ WriteFiles(i, saved[i])
           /\ SameTodo /\ bitmap_changed' \in BOOLEAN
<1>1. /\ i \in Targets /\ saved[i] \in Context
      /\ live' = saved[i] /\ WriteFiles(i, saved[i]) /\ WriteBitmap(i)
  BY DEF TypeOK, SaveInFile, SwitchTarget
<1> QED BY <1>1, BitmapEffect

-----------------------------------------------------------------------------
(* Each part of the invariant is preserved.                                *)

LEMMA TypeStep == IInv /\ [Next]_vars => TypeOK'
<1> SUFFICES ASSUME IInv, [Next]_vars PROVE TypeOK'
  OBVIOUS
<1>0. TypeOK /\ SavedInv /\ LiveInv /\ LoopInv
  BY DEF IInv
<1> USE Consts
<1>1. CASE ReadTarget
  <2>1. i' \in Targets /\ pc' \in {"read", "start"}
    BY <1>0, <1>1, LoopIndex DEF TypeOK, ReadTarget
  <2>2. /\ live' \in Context /\ saved' \in [Targets -> Context]
        /\ heap' \in [Targets -> Heaps]
    BY <1>0, <1>1, ReadEffect
  <2>3. /\ cur_target' = i
        /\ UNCHANGED <<disk, shared, splice, freed, stop_soon, ended>>
    BY <1>1 DEF ReadTarget
  <2> QED BY <1>0, <2>1, <2>2, <2>3 DEF TypeOK, Heaps, shared, splice
<1>2. CASE StartClock
  <2>1. live' \in Context
    BY <1>0, <1>2, StartFields DEF TypeOK, StartClock
  <2>2. /\ auto_changed' \in BOOLEAN
        /\ a_extras' \subseteq Tokens /\ used' \subseteq a_extras'
    BY <1>2 DEF StartClock, Sorted
  <2> QED BY <1>0, <1>2, <2>1, <2>2 DEF TypeOK, StartClock, splice
<1>3. CASE DryRun
  <2>1. i' \in Targets /\ pc' \in {"dry", "ready"}
    BY <1>0, <1>3, LoopIndex DEF TypeOK, DryRun
  <2>2. /\ live' \in Context /\ saved' \in [Targets -> Context]
        /\ heap' \in [Targets -> Heaps]
        /\ bitmap_changed' \in BOOLEAN /\ score_changed' = FALSE
    BY <1>0, <1>3, DryEffect DEF SameTodo
  <2>3. /\ disk' \in [Targets -> [stats : 0 .. MaxSeeds, auto : SUBSET Tokens]]
        /\ auto_changed' = FALSE
    BY <1>0, <1>3, DryEffect, FilesEffect DEF TypeOK
  <2>4. cur_target' = i /\ UNCHANGED <<a_extras, used, splice, freed, stop_soon, ended>>
    BY <1>3 DEF DryRun
  <2> QED BY <1>0, <2>1, <2>2, <2>3, <2>4 DEF TypeOK, Heaps, splice
<1>4. CASE Ready
  <2>1. /\ pc' \in {"cleanup", "select"} /\ cur_target' \in Targets
        /\ live' \in Context /\ ended' \in [Targets -> Context]
    BY <1>0, <1>4 DEF TypeOK, Ready, SwitchTarget
  <2>2. UNCHANGED <<i, saved, heap, disk, shared, splice, freed, stop_soon>>
    BY <1>4 DEF Ready
  <2> QED BY <1>0, <2>1, <2>2 DEF TypeOK, shared, splice
<1>5. ASSUME NEW t \in Targets, Enter(t) PROVE TypeOK'
  <2>1. live' \in Context /\ heap' \in [Targets -> Heaps]
    BY <1>0, <1>5, EnterEffect
  <2>2. /\ prev_queued' \in 0 .. MaxSeeds /\ use_splicing' \in BOOLEAN
        /\ seen' \in [Targets -> 0 .. MaxSeeds]
    <3>1. saved[t].paths \in 0 .. MaxSeeds
      BY <1>0, <1>5, ContextFields DEF TypeOK
    <3>2. \/ /\ prev_queued' = saved[t].paths
             /\ use_splicing' = (use_splicing \/ saved[t].paths = prev_queued)
             /\ seen' = [seen EXCEPT ![t] = saved[t].paths]
          \/ UNCHANGED splice
      BY <1>5 DEF Enter, SwitchTarget
    <3>3. /\ prev_queued \in 0 .. MaxSeeds /\ use_splicing \in BOOLEAN
          /\ seen \in [Targets -> 0 .. MaxSeeds]
      BY <1>0 DEF TypeOK
    <3> QED BY <3>1, <3>2, <3>3 DEF splice
  <2>3. /\ score_changed' = FALSE /\ cur_target' = t /\ pc' = "fuzz"
        /\ UNCHANGED <<i, saved, disk, bitmap_changed, auto_changed, a_extras, used,
                       freed, stop_soon, ended>>
    BY <1>5 DEF Enter
  <2> QED BY <1>0, <1>5, <2>1, <2>2, <2>3 DEF TypeOK, Heaps
<1>6. CASE Find
  <2>1. /\ live' \in Context /\ heap' \in [Targets -> Heaps]
        /\ score_changed' \in BOOLEAN
    BY <1>0, <1>6, FindEffect
  <2>2. /\ bitmap_changed' = TRUE
        /\ UNCHANGED <<pc, i, cur_target, saved, disk, auto_changed, a_extras, used,
                       splice, freed, stop_soon, ended>>
    BY <1>6 DEF Find
  <2> QED BY <1>0, <2>1, <2>2 DEF TypeOK, Heaps, splice
<1>7. CASE Rescore
  <2>1. heap' \in [Targets -> Heaps]
    BY <1>0, <1>7, RescoreEffect DEF SameTodo
  <2>2. /\ score_changed' = TRUE
        /\ UNCHANGED <<pc, i, cur_target, live, saved, disk, bitmap_changed,
                       auto_changed, a_extras, used, splice, freed, stop_soon, ended>>
    BY <1>7 DEF Rescore
  <2> QED BY <1>0, <2>1, <2>2 DEF TypeOK, Heaps, splice
<1>8. CASE AddToken
  <2>1. auto_changed' = TRUE /\ a_extras' \subseteq Tokens /\ used' \subseteq a_extras'
    <3>1. PICK t \in Tokens : a_extras' \in Added(t)
      BY <1>8 DEF AddToken
    <3>2. a_extras' \subseteq a_extras \union {t}
      BY <3>1 DEF Added
    <3>3. auto_changed' = TRUE /\ used' \in Sorted(a_extras')
      BY <1>8 DEF AddToken
    <3> QED BY <1>0, <3>2, <3>3 DEF TypeOK, Sorted
  <2>2. UNCHANGED <<pc, i, cur_target, live, saved, heap, disk, bitmap_changed,
                    score_changed, splice, freed, stop_soon, ended>>
    BY <1>8 DEF AddToken
  <2> QED BY <1>0, <2>1, <2>2 DEF TypeOK, splice
<1>9. CASE ShowStats
  <2>1. cur_target \in Targets /\ live \in Context
    BY <1>0 DEF TypeOK
  <2>2. heap' \in [Targets -> Heaps] /\ bitmap_changed' \in BOOLEAN
    BY <1>0, <1>9, <2>1, BitmapEffect DEF ShowStats, SameTodo
  <2>3. /\ disk' \in [Targets -> [stats : 0 .. MaxSeeds, auto : SUBSET Tokens]]
        /\ auto_changed' = FALSE
    BY <1>0, <1>9, <2>1, FilesEffect DEF ShowStats
  <2>4. UNCHANGED <<pc, i, cur_target, live, saved, score_changed, a_extras, used,
                    splice, freed, stop_soon, ended>>
    BY <1>9 DEF ShowStats
  <2> QED BY <1>0, <2>2, <2>3, <2>4 DEF TypeOK, Heaps, splice
<1>10. CASE EndFuzz
  <2>1. /\ pc' \in {"save", "select"} /\ live' \in Context
        /\ saved' \in [Targets -> Context] /\ ended' \in [Targets -> Context]
    BY <1>0, <1>10, EndFuzzEffect DEF TypeOK
  <2>2. UNCHANGED <<i, cur_target, heap, disk, shared, splice, freed, stop_soon>>
    BY <1>10 DEF EndFuzz
  <2> QED BY <1>0, <2>1, <2>2 DEF TypeOK, shared, splice
<1>11. CASE SaveInFile
  <2>1. i' \in Targets /\ pc' \in {"save", "cleanup"}
    BY <1>0, <1>11, LoopIndex DEF TypeOK, SaveInFile
  <2>2. /\ live' \in Context /\ heap' \in [Targets -> Heaps]
        /\ bitmap_changed' \in BOOLEAN
    BY <1>0, <1>11, SaveEffect DEF SameTodo
  <2>3. /\ disk' \in [Targets -> [stats : 0 .. MaxSeeds, auto : SUBSET Tokens]]
        /\ auto_changed' = FALSE
    BY <1>0, <1>11, SaveEffect, FilesEffect DEF TypeOK
  <2>4. /\ cur_target' = i
        /\ UNCHANGED <<saved, score_changed, a_extras, used, splice, freed, stop_soon,
                       ended>>
    BY <1>11 DEF SaveInFile
  <2> QED BY <1>0, <2>1, <2>2, <2>3, <2>4 DEF TypeOK, Heaps, splice
<1>12. CASE CleanUp
  <2>1. i' \in Targets /\ pc' \in {"cleanup", "exit"} /\ live' \in Context
    BY <1>0, <1>12, LoopIndex DEF TypeOK, CleanUp, SwitchTarget
  <2>2. freed' \in 0 .. NTargets
    BY <1>0, <1>12 DEF LoopInv, TypeOK, CleanUp, DestroyExtras, Targets
  <2>3. /\ cur_target' = i
        /\ UNCHANGED <<saved, heap, disk, shared, splice, stop_soon, ended>>
    BY <1>12 DEF CleanUp
  <2> QED BY <1>0, <2>1, <2>2, <2>3 DEF TypeOK, shared, splice
<1>13. CASE StopSig
  BY <1>0, <1>13 DEF TypeOK, StopSig, shared, splice
<1>14. CASE UNCHANGED vars
  BY <1>0, <1>14 DEF TypeOK, vars, shared, splice
<1> QED BY <1>1, <1>2, <1>3, <1>4, <1>5, <1>6, <1>7, <1>8, <1>9, <1>10, <1>11,
           <1>12, <1>13, <1>14 DEF Next, Main

\* Steps that leave the arrays, the queues and the place of main alone, or that
\* end main's loop or continue past it.
LEMMA SavedQuiet ==
    ASSUME TypeOK, SavedInv, SameTodo, saved' = saved, cur_target' = cur_target,
           i' = i, pc' = pc \/ (pc = "start" /\ pc' = "dry")
    PROVE  SavedInv'
BY DEF SavedInv, SameTodo, Fits, Early, Past

LEMMA SavedStep == IInv /\ [Next]_vars => SavedInv'
<1> SUFFICES ASSUME IInv, [Next]_vars PROVE SavedInv'
  OBVIOUS
<1>0. TypeOK /\ SavedInv /\ LiveInv /\ LoopInv
  BY DEF IInv
<1>s. heap' = heap => SameTodo
  BY <1>0 DEF TypeOK, SameTodo, Heaps
<1> USE Consts
<1>1. CASE ReadTarget
  <2>0. pc = "read" /\ i \in Targets
    BY <1>0, <1>1 DEF ReadTarget, TypeOK
  <2>1. \/ pc' = "read" /\ i' = i + 1
        \/ pc' = "start" /\ i' = 0 /\ i + 1 = NTargets
    BY <1>0, <1>1, LoopIndex DEF TypeOK, ReadTarget
  <2>2. /\ \A t \in Targets : /\ saved[t].cycle = 0 /\ saved[t].dry = 0
                              /\ saved[t].cur = "none"
        /\ \A t \in Targets : t >= i =>
              saved[t].paths = 0 /\ saved[t].unhandled = "none" /\ heap[t].todo = 0
        /\ \A t \in Targets : t >= i \/ Fits(t, saved[t])
    BY <1>0, <2>0 DEF SavedInv, Early, Past
  <2>3. /\ saved'[i].cycle = 0 /\ saved'[i].dry = 0 /\ saved'[i].cur = "none"
        /\ saved'[i].unhandled # "todo"
        /\ saved'[i].paths > 0 /\ heap'[i].todo <= saved'[i].paths
    <3>1. saved'[i].cycle = 0 /\ saved'[i].dry = 0 /\ saved'[i].cur = "none"
      BY <1>0, <1>1, <2>0, <2>2, ReadEffect
    <3>2. saved'[i].unhandled \in {"done", "none"}
      <4>1. saved[i].unhandled = "none"
        BY <2>0, <2>2 DEF Targets
      <4> QED BY <1>0, <1>1, <4>1, ReadEffect
    <3>3. saved'[i].paths > 0 /\ heap'[i].todo <= saved'[i].paths
      BY <1>0, <1>1, ReadEffect
    <3> QED BY <3>1, <3>2, <3>3
  <2>4. \A t \in Targets : t # i =>
           SameProgress(saved'[t], saved[t]) /\ heap'[t] = heap[t]
    BY <1>0, <1>1, ReadEffect
  <2>5. \A t \in Targets : /\ saved'[t].cycle = 0 /\ saved'[t].dry = 0
                           /\ saved'[t].cur = "none"
    BY <2>2, <2>3, <2>4 DEF SameProgress
  <2>6. ASSUME NEW t \in Targets
        PROVE  \/ t > i
               \/ Fits(t, saved[t])'
    <3>1. CASE t = i
      BY <2>3, <3>1 DEF Fits
    <3>2. CASE t # i /\ ~(t > i)
      <4>1. ~(t >= i)
        BY <2>0, <3>2 DEF Targets
      <4>2. Fits(t, saved[t])
        BY <2>2, <4>1
      <4> QED BY <2>4, <3>2, <4>2 DEF Fits, SameProgress
    <3> QED BY <3>1, <3>2
  <2>7. \A t \in Targets : t > i =>
           /\ saved'[t].paths = 0 /\ saved'[t].unhandled = "none"
           /\ heap'[t].todo = 0
    <3>1. \A t \in Targets : t > i => t # i /\ t >= i
      BY <2>0 DEF Targets
    <3> QED BY <2>2, <2>4, <3>1 DEF SameProgress
  <2>8. CASE pc' = "read" /\ i' = i + 1
    <3>1. \A t \in Targets : (t >= i + 1) <=> (t > i)
      BY <2>0 DEF Targets
    <3> QED BY <2>5, <2>6, <2>7, <2>8, <3>1 DEF SavedInv, Early, Past
  <2>9. CASE pc' = "start" /\ i + 1 = NTargets
    <3>1. \A t \in Targets : ~(t > i)
      BY <2>0, <2>9 DEF Targets
    <3> QED BY <2>5, <2>6, <2>9, <3>1 DEF SavedInv, Early, Past
  <2> QED BY <2>1, <2>8, <2>9
<1>2. CASE StartClock
  BY <1>0, <1>s, <1>2, SavedQuiet DEF StartClock
<1>3. CASE DryRun
  <2>1. pc = "dry" /\ pc' \in {"dry", "ready"}
    BY <1>0, <1>3, LoopIndex DEF TypeOK, DryRun
  <2>2. /\ \A t \in Targets : SameProgress(saved'[t], saved[t])
        /\ \A t \in Targets : heap'[t].todo = heap[t].todo
    BY <1>0, <1>3, DryEffect DEF SameTodo
  <2> QED BY <1>0, <2>1, <2>2 DEF SavedInv, Early, Past, SameProgress, Fits
<1>4. CASE Ready
  <2>1. pc = "ready" /\ pc' \in {"cleanup", "select"} /\ UNCHANGED <<saved, heap>>
    BY <1>4 DEF Ready
  <2> QED BY <1>0, <2>1 DEF SavedInv, Early, Past, Fits
<1>5. ASSUME NEW t \in Targets, Enter(t) PROVE SavedInv'
  <2>1. /\ pc = "select" /\ pc' = "fuzz" /\ cur_target' = t /\ saved' = saved
    BY <1>5 DEF Enter
  <2>2. \A u \in Targets : u # t => heap'[u].todo = heap[u].todo
    BY <1>0, <1>5, EnterEffect
  <2> QED BY <1>0, <2>1, <2>2 DEF SavedInv, Early, Past, Fits
<1>6. CASE Find
  <2>1. /\ pc = "fuzz" /\ UNCHANGED <<pc, i, cur_target, saved>>
    BY <1>6 DEF Find
  <2>2. \A u \in Targets : u # cur_target => heap'[u] = heap[u]
    BY <1>0, <1>6, FindEffect
  <2> QED BY <1>0, <2>1, <2>2 DEF SavedInv, Early, Past, Fits
<1>7. CASE Rescore
  BY <1>0, <1>7, RescoreEffect, SavedQuiet DEF Rescore
<1>8. CASE AddToken
  BY <1>0, <1>s, <1>8, SavedQuiet DEF AddToken
<1>9. CASE ShowStats
  <2>1. SameTodo
    BY <1>0, <1>9, BitmapEffect DEF ShowStats, TypeOK
  <2> QED BY <1>0, <1>9, <2>1, SavedQuiet DEF ShowStats
<1>10. CASE EndFuzz
  <2>1. /\ pc = "fuzz" /\ UNCHANGED <<heap, cur_target>>
        /\ cur_target \in Targets /\ saved \in [Targets -> Context]
    BY <1>0, <1>10 DEF EndFuzz, TypeOK
  <2>2. CASE pc' = "save"
    BY <2>2 DEF SavedInv, Early, Past
  <2>3. CASE /\ pc' = "select" /\ live' \in Context
             /\ saved' = [saved EXCEPT ![cur_target] = live']
             /\ Fits(cur_target, live')
    <3>1. /\ saved'[cur_target] = live'
          /\ \A t \in Targets : t # cur_target => saved'[t] = saved[t]
      BY <2>1, <2>3
    <3>2. \A t \in Targets : Fits(t, saved'[t])
      BY <1>0, <2>1, <2>3, <3>1 DEF SavedInv, Past
    <3> QED BY <2>1, <2>3, <3>2 DEF SavedInv, Early, Past, Fits
  <2> QED BY <1>0, <1>10, <2>2, <2>3, EndFuzzEffect
<1>11. CASE SaveInFile
  <2>1. pc' \in {"save", "cleanup"}
    BY <1>0, <1>11, LoopIndex DEF TypeOK, SaveInFile
  <2> QED BY <2>1 DEF SavedInv, Early, Past
<1>12. CASE CleanUp
  <2>1. pc' \in {"cleanup", "exit"}
    BY <1>0, <1>12, LoopIndex DEF TypeOK, CleanUp
  <2> QED BY <2>1 DEF SavedInv, Early, Past
<1>13. CASE StopSig
  BY <1>0, <1>s, <1>13, SavedQuiet DEF StopSig
<1>14. CASE UNCHANGED vars
  BY <1>0, <1>s, <1>14, SavedQuiet DEF vars
<1> QED BY <1>1, <1>2, <1>3, <1>4, <1>5, <1>6, <1>7, <1>8, <1>9, <1>10, <1>11,
           <1>12, <1>13, <1>14 DEF Next, Main

LEMMA LiveStep == IInv /\ [Next]_vars => LiveInv'
<1> SUFFICES ASSUME IInv, [Next]_vars, pc' = "fuzz" PROVE LiveInv'
  BY DEF LiveInv
<1>0. TypeOK /\ SavedInv /\ LiveInv
  BY DEF IInv
<1>s. heap' = heap => SameTodo
  BY <1>0 DEF TypeOK, SameTodo, Heaps
<1> USE Consts
\* The steps within fuzz_one that change neither the context nor the queue.
<1>q. ASSUME SameTodo, UNCHANGED <<pc, cur_target, live>>, stop_soon => stop_soon'
      PROVE  LiveInv'
  <2>1. cur_target \in Targets /\ pc = "fuzz"
    BY <1>0, <1>q DEF TypeOK
  <2> QED BY <1>0, <1>q, <2>1 DEF LiveInv, SameTodo
<1>1. CASE ReadTarget
  BY <1>0, <1>1, LoopIndex DEF TypeOK, ReadTarget
<1>2. CASE StartClock
  BY <1>2 DEF StartClock
<1>3. CASE DryRun
  BY <1>0, <1>3, LoopIndex DEF TypeOK, DryRun
<1>4. CASE Ready
  BY <1>4 DEF Ready
<1>5. ASSUME NEW t \in Targets, Enter(t) PROVE LiveInv'
  <2>1. /\ cur_target' = t /\ stop_soon' = stop_soon
    BY <1>5 DEF Enter
  <2>2. Fits(t, saved[t])
    BY <1>0, <1>5, EnterEffect
  <2>3. /\ live'.paths = saved[t].paths /\ live'.unhandled = saved[t].unhandled
        /\ live'.dry <= live'.cycle
        /\ \/ /\ saved[t].cur = "none" /\ live'.cycle = saved[t].cycle + 1
              /\ heap'[t].todo = saved[t].paths - 1
              /\ saved[t].cycle < MaxCycles \/ stop_soon
           \/ /\ saved[t].cur = "todo" /\ live'.cycle = saved[t].cycle
              /\ heap'[t].todo = heap[t].todo - 1
           \/ /\ saved[t].cur = "done" /\ live'.cycle = saved[t].cycle
              /\ heap'[t].todo = heap[t].todo
    BY <1>0, <1>5, EnterEffect
  <2>4. /\ saved[t].paths \in Nat /\ saved[t].cycle \in Nat /\ heap[t].todo \in Nat
    BY <1>0, ContextFields DEF TypeOK
  <2>5. /\ live'.paths > 0 /\ heap'[t].todo <= live'.paths /\ live'.cycle > 0
        /\ live'.unhandled # "todo"
        /\ ~stop_soon => live'.cycle <= MaxCycles
    BY <2>2, <2>3, <2>4 DEF Fits
  <2> QED BY <2>1, <2>3, <2>5 DEF LiveInv
<1>6. CASE Find
  <2>1. /\ pc = "fuzz" /\ cur_target' = cur_target /\ stop_soon' = stop_soon
    BY <1>6 DEF Find
  <2>2. /\ live'.paths = live.paths + 1 /\ live'.cycle = live.cycle
        /\ live'.dry = 0
        /\ heap'[cur_target].todo = heap[cur_target].todo + 1
    BY <1>0, <1>6, FindEffect
  <2>3. live.paths \in Nat /\ live.cycle \in Nat /\ heap[cur_target].todo \in Nat
    BY <1>0, ContextFields DEF TypeOK
  <2> QED BY <1>0, <2>1, <2>2, <2>3 DEF LiveInv
<1>7. CASE Rescore
  BY <1>0, <1>7, <1>q, RescoreEffect DEF Rescore
<1>8. CASE AddToken
  BY <1>8, <1>q, <1>s DEF AddToken
<1>9. CASE ShowStats
  <2>1. SameTodo
    BY <1>0, <1>9, BitmapEffect DEF ShowStats, TypeOK
  <2> QED BY <1>9, <1>q, <2>1 DEF ShowStats
<1>10. CASE EndFuzz
  BY <1>10 DEF EndFuzz
<1>11. CASE SaveInFile
  BY <1>0, <1>11, LoopIndex DEF TypeOK, SaveInFile
<1>12. CASE CleanUp
  BY <1>0, <1>12, LoopIndex DEF TypeOK, CleanUp
<1>13. CASE StopSig
  BY <1>13, <1>q, <1>s DEF StopSig
<1>14. CASE UNCHANGED vars
  BY <1>14, <1>q, <1>s DEF vars
<1> QED BY <1>1, <1>2, <1>3, <1>4, <1>5, <1>6, <1>7, <1>8, <1>9, <1>10, <1>11,
           <1>12, <1>13, <1>14 DEF Next, Main

LEMMA DivStep == IInv /\ [Next]_vars => DivInv'
<1> SUFFICES ASSUME IInv, [Next]_vars, NTargets > 1 PROVE DivInv'
  BY DEF DivInv
<1>0. TypeOK /\ SavedInv /\ LiveInv /\ LoopInv /\ DivInv
  BY DEF IInv
<1>q. ASSUME UNCHANGED <<pc, i, live, saved>> PROVE DivInv'
  BY <1>0, <1>q DEF DivInv
<1> USE Consts
<1>1. CASE ReadTarget
  <2>1. \/ pc' = "read" /\ i' = i + 1
        \/ pc' = "start" /\ i' = 0 /\ i + 1 = NTargets
    BY <1>0, <1>1, LoopIndex DEF TypeOK, ReadTarget
  <2>2. /\ saved'[i].div = saved[i].div
        /\ \A t \in Targets : t # i => saved'[t].div = 1
    BY <1>0, <1>1, ReadEffect
  <2>3. pc = "read" /\ i \in Nat /\ i \in Targets
    BY <1>0, <1>1 DEF ReadTarget, TypeOK, Targets
  <2>4. CASE i = 0
    BY <2>1, <2>2, <2>3, <2>4 DEF DivInv
  <2>5. CASE i = 1 \/ i > 1
    <3>1. saved[i].div > 0
      BY <1>0, <2>3, <2>5 DEF DivInv
    <3>2. \A t \in Targets : saved'[t].div > 0
      BY <2>2, <3>1
    <3> QED BY <2>1, <3>2 DEF DivInv
  <2> QED BY <2>3, <2>4, <2>5
<1>2. CASE StartClock
  BY <1>0, <1>2 DEF StartClock, DivInv
<1>3. CASE DryRun
  <2>1. pc = "dry" /\ pc' \in {"dry", "ready"}
    BY <1>0, <1>3, LoopIndex DEF TypeOK, DryRun
  <2>2. \A t \in Targets : saved[t].div > 0 => saved'[t].div > 0
    BY <1>0, <1>3, DryEffect
  <2> QED BY <1>0, <2>1, <2>2 DEF DivInv
<1>4. CASE Ready
  BY <1>0, <1>4 DEF Ready, DivInv
<1>5. ASSUME NEW t \in Targets, Enter(t) PROVE DivInv'
  <2>1. pc = "select" /\ pc' = "fuzz" /\ saved' = saved /\ i' = i
    BY <1>5 DEF Enter
  <2>2. live'.div = saved[t].div
    BY <1>0, <1>5, EnterEffect
  <2> QED BY <1>0, <2>1, <2>2 DEF DivInv
<1>6. CASE Find
  <2>1. /\ pc = "fuzz" /\ UNCHANGED <<pc, i, saved>>
    BY <1>6 DEF Find
  <2>2. live'.div = live.div
    BY <1>0, <1>6, FindEffect
  <2> QED BY <1>0, <2>1, <2>2 DEF DivInv
<1>7. CASE Rescore
  BY <1>7, <1>q DEF Rescore
<1>8. CASE AddToken
  BY <1>8, <1>q DEF AddToken
<1>9. CASE ShowStats
  BY <1>9, <1>q DEF ShowStats
<1>10. CASE EndFuzz
  <2>1. pc = "fuzz" /\ i' = i
    BY <1>10 DEF EndFuzz
  <2>2. pc' # "fuzz" /\ pc' # "read"
    BY <1>10 DEF EndFuzz
  <2>3. \A t \in Targets : saved'[t].div > 0
    <3>1. /\ \A t \in Targets : saved[t].div > 0
          /\ live.div > 0
      BY <1>0, <2>1 DEF DivInv
    <3>2. /\ saved \in [Targets -> Context] /\ cur_target \in Targets
      BY <1>0 DEF TypeOK
    <3> QED BY <1>0, <1>10, <3>1, <3>2, EndFuzzEffect
  <2> QED BY <2>2, <2>3 DEF DivInv
<1>11. CASE SaveInFile
  <2>1. pc = "save" /\ pc' \in {"save", "cleanup"} /\ saved' = saved
    BY <1>0, <1>11, LoopIndex DEF TypeOK, SaveInFile
  <2> QED BY <1>0, <2>1 DEF DivInv
<1>12. CASE CleanUp
  <2>1. pc = "cleanup" /\ pc' \in {"cleanup", "exit"} /\ saved' = saved
    BY <1>0, <1>12, LoopIndex DEF TypeOK, CleanUp
  <2> QED BY <1>0, <2>1 DEF DivInv
<1>13. CASE StopSig
  BY <1>13, <1>q DEF StopSig
<1>14. CASE UNCHANGED vars
  BY <1>14, <1>q DEF vars
<1> QED BY <1>1, <1>2, <1>3, <1>4, <1>5, <1>6, <1>7, <1>8, <1>9, <1>10, <1>11,
           <1>12, <1>13, <1>14 DEF Next, Main

LEMMA LoopStep == IInv /\ [Next]_vars => LoopInv'
<1> SUFFICES ASSUME IInv, [Next]_vars PROVE LoopInv'
  OBVIOUS
<1>0. TypeOK /\ LoopInv
  BY DEF IInv
<1>q. ASSUME UNCHANGED <<pc, i, freed>> PROVE LoopInv'
  BY <1>0, <1>q DEF LoopInv, Past
<1> USE Consts
<1>1. CASE ReadTarget
  <2>1. /\ pc' \in {"read", "start"} /\ (pc' = "start" => i' = 0)
    BY <1>0, <1>1, LoopIndex DEF TypeOK, ReadTarget
  <2>2. pc = "read" /\ freed' = freed
    BY <1>1 DEF ReadTarget
  <2> QED BY <1>0, <2>1, <2>2 DEF LoopInv, Past
<1>2. CASE StartClock
  BY <1>0, <1>2 DEF StartClock, LoopInv, Past
<1>3. CASE DryRun
  <2>1. /\ pc' \in {"dry", "ready"} /\ (pc' = "ready" => i' = 0)
    BY <1>0, <1>3, LoopIndex DEF TypeOK, DryRun
  <2>2. pc = "dry" /\ freed' = freed
    BY <1>3 DEF DryRun
  <2> QED BY <1>0, <2>1, <2>2 DEF LoopInv, Past
<1>4. CASE Ready
  BY <1>0, <1>4 DEF Ready, LoopInv, Past
<1>5. ASSUME NEW t \in Targets, Enter(t) PROVE LoopInv'
  BY <1>0, <1>5 DEF Enter, LoopInv, Past
<1>6. CASE Find
  BY <1>6, <1>q DEF Find
<1>7. CASE Rescore
  BY <1>7, <1>q DEF Rescore
<1>8. CASE AddToken
  BY <1>8, <1>q DEF AddToken
<1>9. CASE ShowStats
  BY <1>9, <1>q DEF ShowStats
<1>10. CASE EndFuzz
  BY <1>0, <1>10 DEF EndFuzz, LoopInv, Past
<1>11. CASE SaveInFile
  <2>1. \/ pc' = "save"
        \/ pc' = "cleanup" /\ i' = 0
    BY <1>0, <1>11, LoopIndex DEF TypeOK, SaveInFile
  <2>2. pc = "save" /\ freed' = freed
    BY <1>11 DEF SaveInFile
  <2> QED BY <1>0, <2>1, <2>2 DEF LoopInv, Past
<1>12. CASE CleanUp
  <2>1. \/ pc' = "cleanup" /\ i' = i + 1
        \/ pc' = "exit" /\ i' = 0 /\ i + 1 = NTargets
    BY <1>0, <1>12, LoopIndex DEF TypeOK, CleanUp
  <2>2. pc = "cleanup" /\ freed' = freed + 1
    BY <1>12 DEF CleanUp, DestroyExtras
  <2> QED BY <1>0, <2>1, <2>2 DEF LoopInv, Past
<1>13. CASE StopSig
  BY <1>13, <1>q DEF StopSig
<1>14. CASE UNCHANGED vars
  BY <1>14, <1>q DEF vars
<1> QED BY <1>1, <1>2, <1>3, <1>4, <1>5, <1>6, <1>7, <1>8, <1>9, <1>10, <1>11,
           <1>12, <1>13, <1>14 DEF Next, Main

\* Writing the files of one target leaves the tokens in a directory.
LEMMA AutoWritten ==
    ASSUME TypeOK, AutoInv, used' = used, NEW t \in Targets,
           NEW c \in Context, WriteFiles(t, c)
    PROVE  ~auto_changed' /\ \E u \in Targets : disk'[u].auto = used'
<1>1. /\ auto_changed' = FALSE
      /\ disk'[t].auto = IF auto_changed THEN used ELSE disk[t].auto
      /\ \A u \in Targets : u # t => disk'[u].auto = disk[u].auto
  BY FilesEffect
<1>2. CASE auto_changed
  BY <1>1, <1>2
<1>3. CASE ~auto_changed
  <2>1. PICK u \in Targets : disk[u].auto = used
    BY <1>3 DEF AutoInv
  <2>2. disk'[u].auto = used
    BY <1>1, <1>3, <2>1
  <2> QED BY <1>1, <2>2
<1> QED BY <1>2, <1>3

LEMMA AutoStep == IInv /\ [Next]_vars => AutoInv'
<1> SUFFICES ASSUME IInv, [Next]_vars PROVE AutoInv'
  OBVIOUS
<1>0. TypeOK /\ SavedInv /\ AutoInv /\ LoopInv
  BY DEF IInv
\* Steps that leave the dictionary and the files alone.
<1>q. ASSUME UNCHANGED <<disk, auto_changed, used>>,
             \/ pc' \notin {"save", "cleanup"}
             \/ UNCHANGED <<pc, i, ended>>,
             pc' \in {"read", "start"} => pc \in {"read", "start"}
      PROVE  AutoInv'
  BY <1>0, <1>q DEF AutoInv, FilesSaved
<1> USE Consts
<1>1. CASE ReadTarget
  <2>1. pc' \in {"read", "start"}
    BY <1>0, <1>1, LoopIndex DEF TypeOK, ReadTarget
  <2> QED BY <1>1, <1>q, <2>1 DEF ReadTarget, shared
<1>2. CASE StartClock
  <2>1. /\ pc = "start" /\ pc' = "dry" /\ disk' = disk
        /\ ~auto_changed' => used' = {}
    BY <1>2 DEF StartClock, Sorted
  <2> QED BY <1>0, <2>1 DEF AutoInv, FilesSaved
<1>3. CASE DryRun
  <2>1. i \in Targets /\ used' = used
    BY <1>0, <1>3 DEF DryRun, TypeOK
  <2>2. ~auto_changed' /\ \E u \in Targets : disk'[u].auto = used'
    BY <1>0, <1>3, <2>1, DryEffect, AutoWritten
  <2>3. pc' \in {"dry", "ready"}
    BY <1>0, <1>3, LoopIndex DEF TypeOK, DryRun
  <2> QED BY <2>2, <2>3 DEF AutoInv
<1>4. CASE Ready
  <2>1. /\ pc = "ready" /\ pc' \in {"cleanup", "select"}
        /\ UNCHANGED <<saved, disk, auto_changed, used>>
    BY <1>4 DEF Ready, shared
  <2>2. pc' = "cleanup" => ended' = saved
    BY <1>4 DEF Ready
  <2>3. \A t \in Targets : saved[t].cycle = 0
    BY <1>0, <2>1 DEF SavedInv, Early
  <2>4. ~FilesSaved'
    BY <2>2, <2>3 DEF FilesSaved
  <2> QED BY <1>0, <2>1, <2>4 DEF AutoInv
<1>5. ASSUME NEW t \in Targets, Enter(t) PROVE AutoInv'
  BY <1>5, <1>q DEF Enter
<1>6. CASE Find
  BY <1>6, <1>q DEF Find
<1>7. CASE Rescore
  BY <1>7, <1>q DEF Rescore
<1>8. CASE AddToken
  <2>1. auto_changed' = TRUE /\ pc' = "fuzz"
    BY <1>8 DEF AddToken
  <2> QED BY <2>1 DEF AutoInv, FilesSaved
<1>9. CASE ShowStats
  <2>1. /\ cur_target \in Targets /\ live \in Context /\ used' = used
        /\ WriteFiles(cur_target, live)
    BY <1>0, <1>9 DEF ShowStats, TypeOK
  <2>2. ~auto_changed' /\ \E u \in Targets : disk'[u].auto = used'
    BY <1>0, <2>1, AutoWritten
  <2>3. pc' = "fuzz"
    BY <1>9 DEF ShowStats
  <2> QED BY <2>2, <2>3 DEF AutoInv
<1>10. CASE EndFuzz
  <2>1. /\ pc' \in {"save", "select"} /\ i' = i
        /\ UNCHANGED <<disk, auto_changed, used>>
    BY <1>10 DEF EndFuzz, shared
  <2>2. i = 0
    BY <1>0, <1>10 DEF EndFuzz, LoopInv
  <2> QED BY <1>0, <2>1, <2>2 DEF AutoInv, FilesSaved
<1>11. CASE SaveInFile
  <2>1. i \in Targets /\ used' = used
    BY <1>0, <1>11 DEF SaveInFile, TypeOK
  <2>2. ~auto_changed' /\ \E u \in Targets : disk'[u].auto = used'
    BY <1>0, <1>11, <2>1, SaveEffect, AutoWritten
  <2>3. pc' \in {"save", "cleanup"}
    BY <1>0, <1>11, LoopIndex DEF TypeOK, SaveInFile
  <2> QED BY <2>2, <2>3 DEF AutoInv
<1>12. CASE CleanUp
  <2>1. pc = "cleanup" /\ UNCHANGED <<disk, auto_changed, used, ended>>
    BY <1>12 DEF CleanUp, shared
  <2>2. pc' \in {"cleanup", "exit"}
    BY <1>0, <1>12, LoopIndex DEF TypeOK, CleanUp
  <2> QED BY <1>0, <2>1, <2>2 DEF AutoInv, FilesSaved
<1>13. CASE StopSig
  BY <1>13, <1>q DEF StopSig, shared
<1>14. CASE UNCHANGED vars
  BY <1>14, <1>q DEF vars, shared
<1> QED BY <1>1, <1>2, <1>3, <1>4, <1>5, <1>6, <1>7, <1>8, <1>9, <1>10, <1>11,
           <1>12, <1>13, <1>14 DEF Next, Main

LEMMA InvInit == Init => IInv
<1> SUFFICES ASSUME Init PROVE IInv
  OBVIOUS
<1>1. pc = "read" /\ i = 0 /\ freed = 0 /\ used = {} /\ ~auto_changed
  BY DEF Init
<1>2. \A t \in Targets : saved[t] = NoContext /\ heap[t].todo = 0 /\ disk[t].auto = {}
  BY DEF Init
<1>3. \A t \in Targets : t >= i
  BY <1>1, Consts DEF Targets
<1>4. SavedInv
  BY <1>1, <1>2, <1>3, Zeros DEF SavedInv, Early, Past
<1>5. LiveInv /\ DivInv /\ LoopInv
  BY <1>1 DEF LiveInv, DivInv, LoopInv, Past
<1>6. AutoInv
  BY <1>1, <1>2, Consts DEF AutoInv, FilesSaved
<1> QED BY <1>4, <1>5, <1>6, TypeInit DEF IInv

\* The invariant is inductive: it holds at the start and every step keeps it.
THEOREM InvInductive == Spec => []IInv
<1>1. IInv /\ [Next]_vars => IInv'
  BY TypeStep, SavedStep, LiveStep, DivStep, LoopStep, AutoStep DEF IInv
<1> QED BY <1>1, InvInit, PTL DEF Spec

-----------------------------------------------------------------------------
(* What follows.                                                           *)

\* The globals and the all_* arrays keep their types, for any number of
\* targets: no context is ever one that no target could be in.
THEOREM TypeCorrect == Spec => []TypeOK
<1>1. IInv => TypeOK
  BY DEF IInv
<1> QED BY <1>1, InvInductive, PTL

\* With two targets or more, fuzz_one never divides by a zero havoc_div. (With
\* one target it does: the run multi_havoc.)
THEOREM HavocDivCorrect ==
    ASSUME NTargets > 1
    PROVE  Spec => []HavocDivPositive
<1>1. IInv => HavocDivPositive
  BY DEF IInv, DivInv, HavocDivPositive
<1> QED BY <1>1, InvInductive, PTL

\* After an orderly stop the files of one target are exactly the tokens in use,
\* although the flag that says what is still to be written belongs to no target.
THEOREM AutoCorrect == Spec => []AutoSurvives
<1>1. IInv => AutoSurvives
  BY DEF IInv, AutoInv, AutoSurvives
<1> QED BY <1>1, InvInductive, PTL

-----------------------------------------------------------------------------
(* The targets are sessions of their own.                                  *)

sess == [t \in Targets |-> SessionOf(t)]

\* A step that no session notices.
LEMMA Unnoticed ==
    ASSUME \A t \in Targets : /\ ContextOf(t)'.paths = ContextOf(t).paths
                              /\ ContextOf(t)'.cycle = ContextOf(t).cycle
                              /\ heap'[t].todo = heap[t].todo
    PROVE  sess' = sess
<1>1. \A t \in Targets : SessionOf(t)' = SessionOf(t)
  BY DEF SessionOf
<1> QED BY <1>1 DEF sess

\* A step that only session t notices.
LEMMA Noticed ==
    ASSUME NEW t \in Targets,
           \A u \in Targets : u # t =>
                /\ ContextOf(u)'.paths = ContextOf(u).paths
                /\ ContextOf(u)'.cycle = ContextOf(u).cycle
                /\ heap'[u].todo = heap[u].todo
    PROVE  sess' = [sess EXCEPT ![t] = [paths |-> ContextOf(t)'.paths,
                                        cycle |-> ContextOf(t)'.cycle,
                                        todo |-> heap'[t].todo]]
<1>1. \A u \in Targets : u # t => SessionOf(u)' = SessionOf(u)
  BY DEF SessionOf
<1>2. SessionOf(t)' = [paths |-> ContextOf(t)'.paths,
                       cycle |-> ContextOf(t)'.cycle,
                       todo |-> heap'[t].todo]
  BY DEF SessionOf
<1> QED BY <1>1, <1>2 DEF sess

LEMMA ImportStep ==
    ASSUME IInv, ReadTarget, NEW t \in Targets, t = i
    PROVE  S!Import(t)
<1>0. TypeOK /\ SavedInv
  BY DEF IInv
<1>1. pc = "read"
  BY DEF ReadTarget
<1>2. pc' \in {"read", "start"}
  BY <1>0, LoopIndex DEF TypeOK, ReadTarget
<1>3. /\ \A u \in Targets : ContextOf(u) = saved[u] /\ ContextOf(u)' = saved'[u]
  BY <1>1, <1>2 DEF ContextOf
<1>4. saved[t].paths = 0 /\ saved[t].cycle = 0 /\ heap[t].todo = 0
  BY <1>0, <1>1 DEF SavedInv, Early, Targets
<1>5. PICK n \in 1 .. MaxSeeds : saved'[t].paths = n /\ heap'[t].todo = n
  BY <1>0, ReadEffect
<1>6. saved'[t].cycle = 0
  BY <1>0, <1>4, ReadEffect
<1>7. \A u \in Targets : u # t =>
         /\ saved'[u].paths = saved[u].paths /\ saved'[u].cycle = saved[u].cycle
         /\ heap'[u].todo = heap[u].todo
  BY <1>0, ReadEffect DEF SameProgress
<1>8. sess' = [sess EXCEPT ![t] = [paths |-> saved'[t].paths,
                                   cycle |-> saved'[t].cycle,
                                   todo |-> heap'[t].todo]]
  BY <1>3, <1>7, Noticed
<1>9. sess[t] = S!Idle
  BY <1>3, <1>4 DEF sess, SessionOf, S!Idle
<1>10. sess[t] = S!Idle
       /\ \E k \in 1 .. MaxSeeds :
             sess' = [sess EXCEPT ![t] = [paths |-> k, cycle |-> 0, todo |-> k]]
  BY <1>5, <1>6, <1>8, <1>9
<1> QED BY <1>10 DEF S!Import, sess

LEMMA TakeStep ==
    ASSUME IInv, NEW t \in Targets, Enter(t)
    PROVE  S!Take(t) \/ sess' = sess
<1>0. TypeOK /\ SavedInv /\ LoopInv
  BY DEF IInv
<1>1. pc = "select" /\ pc' = "fuzz" /\ cur_target' = t /\ saved' = saved
  BY DEF Enter
<1>2. /\ \A u \in Targets : ContextOf(u) = saved[u]
      /\ \A u \in Targets : u # t => ContextOf(u)' = saved[u]
      /\ ContextOf(t)' = live'
  BY <1>1 DEF ContextOf
<1>3. \A u \in Targets : u # t => heap'[u].todo = heap[u].todo
  BY <1>0, EnterEffect
<1>4. Fits(t, saved[t]) /\ live'.paths = saved[t].paths
  BY <1>0, EnterEffect
<1>5. sess' = [sess EXCEPT ![t] = [paths |-> live'.paths, cycle |-> live'.cycle,
                                   todo |-> heap'[t].todo]]
  BY <1>2, <1>3, Noticed
<1>6. sess[t] = [paths |-> saved[t].paths, cycle |-> saved[t].cycle,
                 todo |-> heap[t].todo]
  BY <1>2 DEF sess, SessionOf
<1>7. CASE /\ saved[t].cur = "none" /\ live'.cycle = saved[t].cycle + 1
           /\ heap'[t].todo = saved[t].paths - 1
  <2>1. /\ saved[t].paths > 0 /\ saved[t].cycle <= MaxCycles
        /\ heap[t].todo = 0 \/ saved[t].cycle = 0
    BY <1>4, <1>7 DEF Fits
  <2>2. /\ sess[t].paths > 0
        /\ sess[t].todo = 0 \/ sess[t].cycle = 0
        /\ sess[t].cycle <= MaxCycles
        /\ sess' = [sess EXCEPT ![t] = [paths |-> sess[t].paths,
                                        cycle |-> sess[t].cycle + 1,
                                        todo |-> sess[t].paths - 1]]
    BY <1>4, <1>5, <1>6, <1>7, <2>1
  <2> QED BY <2>2 DEF S!Take, sess
<1>8. CASE /\ saved[t].cur = "todo" /\ live'.cycle = saved[t].cycle
           /\ heap'[t].todo = heap[t].todo - 1
  <2>1. saved[t].cycle > 0 /\ heap[t].todo > 0 /\ saved[t].paths > 0
    BY <1>4, <1>8 DEF Fits
  <2>2. /\ sess[t].paths > 0 /\ sess[t].cycle > 0 /\ sess[t].todo > 0
        /\ sess' = [sess EXCEPT ![t] = [paths |-> sess[t].paths,
                                        cycle |-> sess[t].cycle,
                                        todo |-> sess[t].todo - 1]]
    BY <1>4, <1>5, <1>6, <1>8, <2>1
  <2> QED BY <2>2 DEF S!Take, sess
<1>9. CASE /\ saved[t].cur = "done" /\ live'.cycle = saved[t].cycle
           /\ heap'[t].todo = heap[t].todo
  <2>1. sess' = [sess EXCEPT ![t] = sess[t]]
    BY <1>4, <1>5, <1>6, <1>9
  <2> QED BY <2>1 DEF sess
<1> QED BY <1>0, <1>7, <1>8, <1>9, EnterEffect

LEMMA FindStep ==
    ASSUME IInv, Find, NEW t \in Targets, t = cur_target
    PROVE  S!Find(t)
<1>0. TypeOK /\ LiveInv
  BY DEF IInv
<1>1. /\ pc = "fuzz" /\ live.paths < MaxSeeds
      /\ UNCHANGED <<pc, cur_target, saved>>
  BY DEF Find
<1>2. /\ live'.paths = live.paths + 1 /\ live'.cycle = live.cycle
      /\ heap'[t].todo = heap[t].todo + 1
      /\ \A u \in Targets : u # t => heap'[u] = heap[u]
  BY <1>0, FindEffect
<1>3. /\ ContextOf(t) = live /\ ContextOf(t)' = live'
      /\ \A u \in Targets : u # t => ContextOf(u)' = ContextOf(u)
  BY <1>1 DEF ContextOf
<1>4. sess' = [sess EXCEPT ![t] = [paths |-> live'.paths, cycle |-> live'.cycle,
                                   todo |-> heap'[t].todo]]
  BY <1>2, <1>3, Noticed
<1>5. sess[t] = [paths |-> live.paths, cycle |-> live.cycle, todo |-> heap[t].todo]
  BY <1>3 DEF sess, SessionOf
<1>6. live.cycle > 0
  BY <1>0, <1>1 DEF LiveInv
<1>7. /\ sess[t].cycle > 0 /\ sess[t].paths < MaxSeeds
      /\ sess' = [sess EXCEPT ![t] = [paths |-> sess[t].paths + 1,
                                      cycle |-> sess[t].cycle,
                                      todo |-> sess[t].todo + 1]]
  BY <1>1, <1>2, <1>4, <1>5, <1>6
<1> QED BY <1>7 DEF S!Find, sess

LEMMA SessionStep == IInv /\ [Next]_vars => S!Next \/ sess' = sess
<1> SUFFICES ASSUME IInv, [Next]_vars PROVE S!Next \/ sess' = sess
  OBVIOUS
<1>0. /\ TypeOK /\ SavedInv /\ LiveInv
      /\ cur_target \in Targets /\ i \in Targets
      /\ saved \in [Targets -> Context]
  BY DEF IInv, TypeOK
<1>s. heap' = heap => SameTodo
  BY <1>0 DEF TypeOK, SameTodo, Heaps
<1>q. ASSUME SameTodo, UNCHANGED <<pc, cur_target, live, saved, ended>>
      PROVE  sess' = sess
  <2>1. \A t \in Targets : ContextOf(t)' = ContextOf(t)
    BY <1>q DEF ContextOf
  <2> QED BY <1>q, <2>1, Unnoticed DEF SameTodo
<1>1. CASE ReadTarget
  <2>1. PICK t \in Targets : t = i
    BY <1>0
  <2> QED BY <1>1, <2>1, ImportStep DEF S!Next, S!Targets, Targets
<1>2. CASE StartClock
  <2>1. \A t \in Targets : ContextOf(t)' = ContextOf(t) /\ heap'[t] = heap[t]
    BY <1>2 DEF StartClock, ContextOf
  <2> QED BY <2>1, Unnoticed
<1>3. CASE DryRun
  <2>1. pc = "dry" /\ pc' \in {"dry", "ready"}
    BY <1>0, <1>3, LoopIndex DEF TypeOK, DryRun
  <2>2. /\ \A t \in Targets : SameProgress(saved'[t], saved[t])
        /\ \A t \in Targets : heap'[t].todo = heap[t].todo
    BY <1>0, <1>3, DryEffect DEF SameTodo
  <2>3. \A t \in Targets : ContextOf(t) = saved[t] /\ ContextOf(t)' = saved'[t]
    BY <2>1 DEF ContextOf
  <2> QED BY <2>2, <2>3, Unnoticed DEF SameProgress
<1>4. CASE Ready
  <2>1. \A t \in Targets : ContextOf(t)' = ContextOf(t) /\ heap'[t] = heap[t]
    BY <1>4 DEF Ready, ContextOf
  <2> QED BY <2>1, Unnoticed
<1>5. ASSUME NEW t \in Targets, Enter(t) PROVE S!Next \/ sess' = sess
  BY <1>5, TakeStep DEF S!Next, S!Targets, Targets
<1>6. CASE Find
  <2>1. PICK t \in Targets : t = cur_target
    BY <1>0
  <2> QED BY <1>6, <2>1, FindStep DEF S!Next, S!Targets, Targets
<1>7. CASE Rescore
  BY <1>0, <1>7, <1>q, RescoreEffect DEF Rescore
<1>8. CASE AddToken
  BY <1>8, <1>q, <1>s DEF AddToken
<1>9. CASE ShowStats
  <2>1. SameTodo
    BY <1>0, <1>9, BitmapEffect DEF ShowStats
  <2> QED BY <1>9, <1>q, <2>1 DEF ShowStats
<1>10. CASE EndFuzz
  <2>1. pc = "fuzz" /\ UNCHANGED <<cur_target, heap>>
    BY <1>10 DEF EndFuzz
  <2>2. ASSUME NEW t \in Targets
        PROVE  /\ ContextOf(t)'.paths = ContextOf(t).paths
               /\ ContextOf(t)'.cycle = ContextOf(t).cycle
    <3>1. CASE /\ pc' = "save" /\ ended' = [saved EXCEPT ![cur_target] = live]
      BY <1>0, <2>1, <3>1 DEF ContextOf
    <3>2. CASE /\ pc' = "select"
               /\ saved' = [saved EXCEPT ![cur_target] = live']
               /\ live'.paths = live.paths /\ live'.cycle = live.cycle
      BY <1>0, <2>1, <3>2 DEF ContextOf
    <3> QED BY <1>0, <1>10, <3>1, <3>2, EndFuzzEffect
  <2> QED BY <2>1, <2>2, Unnoticed
<1>11. CASE SaveInFile
  <2>1. pc = "save" /\ pc' \in {"save", "cleanup"} /\ ended' = ended
    BY <1>0, <1>11, LoopIndex DEF TypeOK, SaveInFile
  <2>2. \A t \in Targets : ContextOf(t)' = ContextOf(t)
    BY <2>1 DEF ContextOf
  <2>3. SameTodo
    BY <1>0, <1>11, SaveEffect
  <2> QED BY <2>2, <2>3, Unnoticed DEF SameTodo
<1>12. CASE CleanUp
  <2>1. pc = "cleanup" /\ pc' \in {"cleanup", "exit"} /\ UNCHANGED <<ended, heap>>
    BY <1>0, <1>12, LoopIndex DEF TypeOK, CleanUp
  <2>2. \A t \in Targets : ContextOf(t)' = ContextOf(t)
    BY <2>1 DEF ContextOf
  <2> QED BY <2>1, <2>2, Unnoticed
<1>13. CASE StopSig
  BY <1>13, <1>q, <1>s DEF StopSig
<1>14. CASE UNCHANGED vars
  BY <1>14, <1>q, <1>s DEF vars
<1> QED BY <1>1, <1>2, <1>3, <1>4, <1>5, <1>6, <1>7, <1>8, <1>9, <1>10, <1>11,
           <1>12, <1>13, <1>14 DEF Next, Main

LEMMA SessionInit == Init => S!Init
<1> SUFFICES ASSUME Init PROVE S!Init
  OBVIOUS
<1>1. \A t \in Targets : ContextOf(t) = NoContext /\ heap[t].todo = 0
  BY DEF Init, ContextOf
<1>2. \A t \in Targets : SessionOf(t) = S!Idle
  BY <1>1, Zeros DEF SessionOf, S!Idle
<1> QED BY <1>2 DEF S!Init, S!Targets, Targets

\* However main interleaves the targets, and although they share the globals,
\* each goes through its own queue as if it were fuzzed alone.
THEOREM Isolation == Spec => Refinement
<1>1. IInv /\ [Next]_vars => [S!Next]_sess
  BY SessionStep
<1> QED BY <1>1, InvInductive, SessionInit, PTL DEF Spec, Refinement, S!Spec, sess

\* The three facts together, as the run shared_tokens checks them, for every
\* number of targets above one.
THEOREM TargetsSoundHolds ==
    ASSUME NTargets > 1
    PROVE  Spec => []TargetsSound
<1>1. TypeOK /\ HavocDivPositive /\ AutoSurvives => TargetsSound
  BY DEF TargetsSound
<1>2. Spec => []HavocDivPositive
  BY HavocDivCorrect
<1> QED BY <1>1, <1>2, TypeCorrect, AutoCorrect, PTL

-----------------------------------------------------------------------------
(* One target: what the flags and prev_queued, which belong to no target,  *)
(* say is then true of it.                                                 *)

\* The flags stand for what is in the queue and the virgin bits, and main's
\* only record of the last cycle is the one of the target.
FlagsTell ==
    \A t \in Targets :
        /\ ~bitmap_changed => ~heap[t].bits
        /\ ~score_changed \/ Early => ~heap[t].ranks
        /\ prev_queued = seen[t]

\* Saved files mean written bitmaps.
FilesTell == FilesSaved => ~bitmap_changed

\* Between two seeds the globals hold what the arrays hold.
LiveStored == pc = "select" => live = saved[cur_target]

\* The strengthened invariant of a session with one target.
SingleInv == FlagsTell /\ FilesTell /\ LiveStored

LEMMA OneTarget ==
    ASSUME NTargets = 1
    PROVE  \A t \in Targets : t = 0
BY DEF Targets

\* What the flags and the heap are when no field of the heap but todo changes.
LEMMA OnlyTodo ==
    ASSUME TypeOK, NEW t \in Targets, NEW n \in 0 .. MaxSeeds,
           heap' = [heap EXCEPT ![t] = [@ EXCEPT !.todo = n]]
    PROVE  \A u \in Targets : /\ heap'[u].bits = heap[u].bits
                              /\ heap'[u].ranks = heap[u].ranks
<1>1. heap \in [Targets -> Heaps] /\ heap[t] \in Heaps
  BY DEF TypeOK, Heaps
<1>2. /\ [heap[t] EXCEPT !.todo = n].bits = heap[t].bits
      /\ [heap[t] EXCEPT !.todo = n].ranks = heap[t].ranks
  BY <1>1 DEF Heaps
<1> QED BY <1>1, <1>2

\* write_bitmap leaves the flag cleared and the file up to date.
LEMMA BitmapWritten ==
    ASSUME NTargets = 1, TypeOK, FlagsTell, NEW t \in Targets, WriteBitmap(t)
    PROVE  \A u \in Targets : /\ ~bitmap_changed' /\ ~heap'[u].bits
                              /\ heap'[u].ranks = heap[u].ranks
<1>1. heap \in [Targets -> Heaps] /\ heap[t] \in Heaps /\ \A u \in Targets : u = t
  BY OneTarget DEF TypeOK, Heaps
<1>2. /\ ~[heap[t] EXCEPT !.bits = FALSE].bits
      /\ [heap[t] EXCEPT !.bits = FALSE].ranks = heap[t].ranks
  BY <1>1 DEF Heaps
<1>3. heap' = (IF bitmap_changed
               THEN [heap EXCEPT ![t] = [heap[t] EXCEPT !.bits = FALSE]] ELSE heap)
      /\ ~bitmap_changed'
  BY DEF WriteBitmap
<1>4. ~bitmap_changed => ~heap[t].bits
  BY DEF FlagsTell
<1>5. CASE bitmap_changed
  BY <1>1, <1>2, <1>3, <1>5
<1>6. CASE ~bitmap_changed
  BY <1>1, <1>3, <1>4, <1>6
<1> QED BY <1>5, <1>6

\* The start of a queue cycle: it is culled for, and counts as dry only after a
\* cycle without finds.
LEMMA EnterSingle ==
    ASSUME NTargets = 1, TypeOK, SavedInv, FlagsTell, NEW t \in Targets, Enter(t)
    PROVE  /\ cur_target' = t /\ ~heap'[t].ranks /\ heap'[t].bits = heap[t].bits
           /\ prev_queued' = seen'[t]
           /\ use_splicing' # use_splicing \/ live'.dry > saved[t].dry
              => saved[t].paths = seen[t]
<1> DEFINE c == saved[t]
           through == c.cur = "none"
           now == IF through THEN NewCycle(c) ELSE c
           left == IF through THEN c.paths ELSE heap[t].todo
           n == IF now.cur = "todo" THEN left - 1 ELSE left
           h == CullQueue(t, heap)
<1>0. /\ saved \in [Targets -> Context] /\ heap \in [Targets -> Heaps]
      /\ heap[t] \in Heaps /\ c \in Context /\ seen \in [Targets -> 0 .. MaxSeeds]
      /\ use_splicing \in BOOLEAN /\ prev_queued = seen[t]
  BY DEF TypeOK, Heaps, FlagsTell
<1>1. Fits(t, c)
  BY DEF Enter, SavedInv, Past
<1>2. /\ live' = [now EXCEPT !.cur = "done"] /\ cur_target' = t
      /\ heap' = [h EXCEPT ![t] = [h[t] EXCEPT !.todo = n]]
      /\ IF through
         THEN /\ prev_queued' = c.paths
              /\ use_splicing' = (use_splicing \/ c.paths = prev_queued)
              /\ seen' = [seen EXCEPT ![t] = c.paths]
         ELSE UNCHANGED splice
  BY DEF Enter, SwitchTarget
<1>3. h \in [Targets -> Heaps] /\ ~h[t].ranks /\ h[t].bits = heap[t].bits
  <2>1. /\ [heap[t] EXCEPT !.ranks = FALSE] \in Heaps
        /\ ~[heap[t] EXCEPT !.ranks = FALSE].ranks
        /\ [heap[t] EXCEPT !.ranks = FALSE].bits = heap[t].bits
    BY <1>0 DEF Heaps
  <2>2. ~score_changed => ~heap[t].ranks
    BY DEF FlagsTell
  <2> HIDE DEF Heaps
  <2>3. CASE score_changed
    BY <1>0, <2>1, <2>3 DEF CullQueue
  <2>4. CASE ~score_changed
    BY <1>0, <2>2, <2>4 DEF CullQueue
  <2> QED BY <2>3, <2>4
<1>4. ~heap'[t].ranks /\ heap'[t].bits = heap[t].bits
  <2> HIDE DEF h, n
  <2>1. h[t] \in Heaps
    BY <1>3
  <2>2. /\ [h[t] EXCEPT !.todo = n].ranks = h[t].ranks
        /\ [h[t] EXCEPT !.todo = n].bits = h[t].bits
    BY <2>1 DEF Heaps
  <2> QED BY <1>2, <1>3, <2>2
<1>5. prev_queued' = seen'[t]
  BY <1>0, <1>2 DEF splice
<1>6. ASSUME use_splicing' # use_splicing PROVE c.paths = seen[t]
  BY <1>0, <1>2, <1>6 DEF splice
<1>7. ASSUME live'.dry > c.dry PROVE c.paths = seen[t]
  <2>1. /\ c.cycle <= MaxCycles /\ c.dry <= c.cycle /\ c.dry \in 0 .. MaxCycles + 1
    BY <1>0, <1>1, ContextFields DEF Fits
  <2>2. CASE through /\ c.paths # prev_queued
    <3>1. now \in Context /\ now.dry = 0
      <4>1. now = [c EXCEPT !.cycle = @ + 1, !.dry = 0, !.cur = "todo"]
        BY <2>2 DEF NewCycle
      <4>2. now.dry = 0
        BY <1>0, <4>1 DEF Context
      <4>3. now \in Context
        BY <1>0, <2>1, <2>2, CycleFields
      <4> QED BY <4>2, <4>3
    <3>2. live'.dry = 0
      <4> HIDE DEF now
      <4> QED BY <1>2, <3>1, CurFields
    <3> QED BY <1>7, <2>1, <3>2
  <2>3. CASE ~through
    <3>1. live'.dry = c.dry
      BY <1>0, <1>2, <2>3, CurFields
    <3> QED BY <1>7, <2>1, <3>1
  <2> QED BY <1>0, <2>2, <2>3
<1> QED BY <1>2, <1>4, <1>5, <1>6, <1>7

LEMMA SingleInit == Init => SingleInv
<1> SUFFICES ASSUME Init PROVE SingleInv
  OBVIOUS
<1>1. pc = "read" /\ prev_queued = 0
  BY DEF Init
<1>2. \A t \in Targets : ~heap[t].bits /\ ~heap[t].ranks /\ seen[t] = 0
  BY DEF Init
<1> QED BY <1>1, <1>2 DEF SingleInv, FlagsTell, FilesTell, FilesSaved, LiveStored

LEMMA FlagsStep ==
    ASSUME NTargets = 1
    PROVE  IInv /\ SingleInv /\ [Next]_vars => FlagsTell' /\ FilesTell'
<1> SUFFICES ASSUME IInv, SingleInv, [Next]_vars PROVE FlagsTell' /\ FilesTell'
  OBVIOUS
<1>0. /\ TypeOK /\ SavedInv /\ LiveInv /\ LoopInv /\ FlagsTell /\ FilesTell
      /\ \A t \in Targets : t = 0
      /\ heap \in [Targets -> Heaps] /\ 0 \in Targets /\ 0 \in 0 .. MaxSeeds
      /\ cur_target \in Targets /\ i \in Targets
      /\ bitmap_changed \in BOOLEAN /\ score_changed \in BOOLEAN
  BY OneTarget, Consts DEF IInv, SingleInv, TypeOK, Heaps
<1>1. \A t \in Targets : /\ ~bitmap_changed => ~heap[t].bits
                         /\ ~score_changed \/ Early => ~heap[t].ranks
                         /\ prev_queued = seen[t]
  BY <1>0 DEF FlagsTell
<1>2. CASE ReadTarget
  <2>1. PICK n \in 1 .. MaxSeeds : heap' = [heap EXCEPT ![i] = [@ EXCEPT !.todo = n]]
    BY <1>2 DEF ReadTarget
  <2>2. n \in 0 .. MaxSeeds
    BY Consts
  <2>3. \A u \in Targets : heap'[u].bits = heap[u].bits /\ heap'[u].ranks = heap[u].ranks
    BY <1>0, <2>1, <2>2, OnlyTodo
  <2>4. /\ pc = "read" /\ pc' \in {"read", "start"}
        /\ UNCHANGED <<bitmap_changed, score_changed, prev_queued, seen>>
    BY <1>0, <1>2, LoopIndex DEF ReadTarget, shared, splice
  <2> QED BY <1>1, <2>3, <2>4 DEF FlagsTell, FilesTell, FilesSaved, Early
<1>3. CASE StartClock
  BY <1>1, <1>3
     DEF StartClock, FlagsTell, FilesTell, FilesSaved, Early, shared, splice
<1>4. CASE DryRun
  <2>1. PICK ran \in BOOLEAN :
           /\ heap' = [heap EXCEPT ![i] = [@ EXCEPT !.bits = heap[i].bits \/ ran]]
           /\ bitmap_changed' = (bitmap_changed \/ ran)
    BY <1>4 DEF DryRun
  <2>2. /\ pc = "dry" /\ pc' \in {"dry", "ready"}
        /\ UNCHANGED <<prev_queued, seen>>
    BY <1>0, <1>4, LoopIndex DEF DryRun, splice
  <2>3. /\ [heap[i] EXCEPT !.bits = heap[i].bits \/ ran].ranks = heap[i].ranks
        /\ [heap[i] EXCEPT !.bits = heap[i].bits \/ ran].bits = (heap[i].bits \/ ran)
    <3>1. heap[i] \in Heaps
      BY <1>0
    <3> QED BY <3>1 DEF Heaps
  <2>4. heap'[i].ranks = heap[i].ranks /\ heap'[i].bits = (heap[i].bits \/ ran)
    BY <1>0, <2>1, <2>3
  <2>5. \A u \in Targets : u = i
    BY <1>0
  <2> QED BY <1>0, <1>1, <2>1, <2>2, <2>4, <2>5
          DEF FlagsTell, FilesTell, FilesSaved, Early
<1>5. CASE Ready
  <2>1. /\ pc = "ready"
        /\ UNCHANGED <<heap, bitmap_changed, score_changed, prev_queued, seen>>
    BY <1>5 DEF Ready, shared, splice
  <2>2. ~FilesSaved'
    BY <1>0, <1>5 DEF Ready, FilesSaved, SavedInv, Early
  <2> QED BY <1>1, <2>1, <2>2 DEF FlagsTell, FilesTell, Early
<1>6. ASSUME NEW t \in Targets, Enter(t) PROVE FlagsTell' /\ FilesTell'
  <2>1. ~heap'[t].ranks /\ heap'[t].bits = heap[t].bits /\ prev_queued' = seen'[t]
    BY <1>0, <1>6, EnterSingle
  <2>2. pc' = "fuzz" /\ bitmap_changed' = bitmap_changed /\ \A u \in Targets : u = t
    BY <1>0, <1>6 DEF Enter
  <2> QED BY <1>1, <2>1, <2>2 DEF FlagsTell, FilesTell, FilesSaved
<1>7. CASE Find
  <2>1. PICK calibrated \in BOOLEAN :
          /\ heap' = [heap EXCEPT ![cur_target] =
                       [todo |-> @.todo + 1, ranks |-> @.ranks \/ calibrated,
                        bits |-> TRUE]]
          /\ score_changed' = (score_changed \/ calibrated)
    BY <1>7 DEF Find
  <2>2. heap'[cur_target].ranks = (heap[cur_target].ranks \/ calibrated)
    BY <1>0, <2>1
  <2>3. /\ pc = "fuzz" /\ pc' = "fuzz" /\ bitmap_changed' = TRUE
        /\ UNCHANGED <<prev_queued, seen>> /\ \A u \in Targets : u = cur_target
    BY <1>0, <1>7 DEF Find, splice
  <2> QED BY <1>1, <2>1, <2>2, <2>3
          DEF FlagsTell, FilesTell, FilesSaved, Early
<1>8. CASE Rescore
  <2>1. /\ pc = "fuzz" /\ pc' = "fuzz" /\ score_changed'
        /\ UNCHANGED <<bitmap_changed, prev_queued, seen>>
        /\ \A u \in Targets : u = cur_target
        /\ heap' = [heap EXCEPT ![cur_target] = [heap[cur_target] EXCEPT !.ranks = TRUE]]
    BY <1>0, <1>8 DEF Rescore, splice
  <2>2. [heap[cur_target] EXCEPT !.ranks = TRUE].bits = heap[cur_target].bits
    <3>1. heap[cur_target] \in Heaps
      BY <1>0
    <3> QED BY <3>1 DEF Heaps
  <2>3. heap'[cur_target].bits = heap[cur_target].bits
    BY <1>0, <2>1, <2>2
  <2> QED BY <1>1, <2>1, <2>3 DEF FlagsTell, FilesTell, FilesSaved, Early
<1>9. CASE AddToken
  BY <1>1, <1>9
     DEF AddToken, FlagsTell, FilesTell, FilesSaved, Early, splice
<1>10. CASE ShowStats
  <2>1. \A u \in Targets : /\ ~bitmap_changed' /\ ~heap'[u].bits
                           /\ heap'[u].ranks = heap[u].ranks
    BY <1>0, <1>10, BitmapWritten DEF ShowStats
  <2>2. /\ pc = "fuzz" /\ pc' = "fuzz"
        /\ UNCHANGED <<score_changed, prev_queued, seen>>
    BY <1>10 DEF ShowStats, splice
  <2> QED BY <1>1, <2>1, <2>2 DEF FlagsTell, FilesTell, FilesSaved, Early
<1>11. CASE EndFuzz
  <2>1. /\ pc = "fuzz" /\ pc' \in {"save", "select"}
        /\ UNCHANGED <<heap, bitmap_changed, score_changed, prev_queued, seen>>
    BY <1>11 DEF EndFuzz, shared, splice
  <2> QED BY <1>1, <2>1 DEF FlagsTell, FilesTell, FilesSaved, Early
<1>12. CASE SaveInFile
  <2>1. \A u \in Targets : /\ ~bitmap_changed' /\ ~heap'[u].bits
                           /\ heap'[u].ranks = heap[u].ranks
    BY <1>0, <1>12, BitmapWritten DEF SaveInFile
  <2>2. /\ pc = "save" /\ pc' \in {"save", "cleanup"}
        /\ UNCHANGED <<score_changed, prev_queued, seen>>
    BY <1>0, <1>12, LoopIndex DEF SaveInFile, splice
  <2>3. ~bitmap_changed'
    BY <1>0, <2>1
  <2> QED BY <1>1, <2>1, <2>2, <2>3 DEF FlagsTell, FilesTell, FilesSaved, Early
<1>13. CASE CleanUp
  <2>1. /\ pc = "cleanup" /\ pc' \in {"cleanup", "exit"}
        /\ UNCHANGED <<heap, bitmap_changed, score_changed, prev_queued, seen, ended>>
    BY <1>0, <1>13, LoopIndex DEF CleanUp, shared, splice
  <2> QED BY <1>0, <1>1, <2>1 DEF FlagsTell, FilesTell, FilesSaved, Early
<1>14. CASE StopSig \/ UNCHANGED vars
  BY <1>0, <1>1, <1>14
     DEF StopSig, vars, FlagsTell, FilesTell, FilesSaved, Early, shared, splice
<1> QED BY <1>2, <1>3, <1>4, <1>5, <1>6, <1>7, <1>8, <1>9, <1>10, <1>11,
           <1>12, <1>13, <1>14 DEF Next, Main

LEMMA StoredStep == IInv /\ LiveStored /\ [Next]_vars => LiveStored'
<1> SUFFICES ASSUME IInv, LiveStored, [Next]_vars, pc' = "select"
             PROVE  live' = saved'[cur_target']
  BY DEF LiveStored
<1>0. /\ cur_target \in Targets /\ i \in Targets /\ 0 \in Targets
      /\ saved \in [Targets -> Context]
  BY Consts DEF IInv, TypeOK
<1>1. Ready \/ EndFuzz \/ StopSig \/ UNCHANGED vars
  <2>1. ASSUME NEW loop, NEW after, LoopOn(loop, after) PROVE pc' \in {loop, after}
    BY <1>0, <2>1, LoopIndex
  <2>2. ~ReadTarget /\ ~DryRun /\ ~SaveInFile /\ ~CleanUp
    <3>1. /\ ~LoopOn("read", "start") /\ ~LoopOn("dry", "ready")
          /\ ~LoopOn("save", "cleanup") /\ ~LoopOn("cleanup", "exit")
      BY <2>1
    <3> QED BY <3>1 DEF ReadTarget, DryRun, SaveInFile, CleanUp
  <2>3. ~StartClock /\ ~(\E t \in Targets : Enter(t))
    BY DEF StartClock, Enter
  <2>4. ~Find /\ ~Rescore /\ ~AddToken /\ ~ShowStats
    BY DEF Find, Rescore, AddToken, ShowStats
  <2> QED BY <2>2, <2>3, <2>4 DEF Next, Main
<1>2. CASE Ready
  BY <1>2 DEF Ready, SwitchTarget
<1>3. CASE EndFuzz
  BY <1>0, <1>3 DEF EndFuzz, SaveTarget
<1>4. CASE StopSig \/ UNCHANGED vars
  BY <1>4 DEF StopSig, vars, LiveStored
<1> QED BY <1>1, <1>2, <1>3, <1>4

\* With one target the strengthening is inductive too, beside IInv.
THEOREM SingleInductive ==
    ASSUME NTargets = 1
    PROVE  Spec => [](IInv /\ SingleInv)
<1>1. SingleInv /\ IInv /\ [Next]_vars => SingleInv'
  BY FlagsStep, StoredStep DEF SingleInv
<1> QED BY <1>1, SingleInit, InvInductive, PTL DEF Spec

\* With one target, fuzz_bitmap is its virgin map once main has saved the files,
\* and the dictionary is destroyed once.
THEOREM SingleSoundHolds ==
    ASSUME NTargets = 1
    PROVE  Spec => []SingleSound
<1>1. IInv /\ SingleInv => SingleSound
  BY DEF IInv, TypeOK, SingleInv, FlagsTell, FilesTell, SingleSound, BitmapsSaved,
         ExtrasFreedOnce
<1> QED BY <1>1, SingleInductive, PTL

\* With one target, a seed is taken up under favored marks computed from the
\* top_rated table of that moment, and only a cycle that found nothing starts
\* splicing or counts as dry.
THEOREM SingleFreshHolds ==
    ASSUME NTargets = 1
    PROVE  Spec => SingleFresh
<1>1. ASSUME IInv, SingleInv, [Next]_vars,
             (pc = "select" /\ pc' = "fuzz") \/ use_splicing' # use_splicing
      PROVE  \E t \in Targets : Enter(t)
  <2>1. Next
    BY <1>1 DEF vars, splice
  <2>2. (i = 0 /\ NTargets = 1) \/ pc \notin {"read", "dry", "save", "cleanup"}
    BY <1>1, OneTarget DEF IInv, TypeOK
  <2>3. ASSUME NEW loop, NEW after, LoopOn(loop, after), i = 0 PROVE pc' = after
    BY <2>3 DEF LoopOn
  <2> QED BY <1>1, <2>1, <2>2, <2>3 DEF Next, Main, ReadTarget, StartClock, DryRun, Ready, Find,
          Rescore, AddToken, ShowStats, EndFuzz, SaveInFile, CleanUp, StopSig, splice
<1>2. ASSUME NEW t \in Targets, IInv, SingleInv, Enter(t)
      PROVE  /\ ~heap'[cur_target'].ranks
             /\ use_splicing' # use_splicing \/ live'.dry > saved[cur_target'].dry
                  => saved[cur_target'].paths = seen[cur_target']
  BY <1>2, EnterSingle DEF IInv, SingleInv
<1>3. ASSUME IInv, SingleInv, [Next]_vars,
             \/ use_splicing' # use_splicing
             \/ pc = "select" /\ live'.dry > saved[cur_target'].dry
      PROVE  saved[cur_target'].paths = seen[cur_target']
  <2>1. CASE \E t \in Targets : Enter(t)
    BY <1>2, <1>3, <2>1
  <2>2. CASE ~\E t \in Targets : Enter(t)
    <3>1. use_splicing' = use_splicing /\ pc = "select"
      BY <1>1, <1>3, <2>2
    <3>2. StopSig \/ UNCHANGED vars
      BY <1>3, <2>2, <3>1 DEF Next, Main, ReadTarget, StartClock, DryRun, Ready,
         Find, Rescore, AddToken, ShowStats, EndFuzz, SaveInFile, CleanUp
    <3> QED BY <1>3, <3>1, <3>2 DEF IInv, TypeOK, Context, SingleInv, LiveStored, StopSig, vars
  <2> QED BY <2>1, <2>2
<1>4. IInv /\ SingleInv /\ [Next]_vars =>
        (pc = "select" /\ pc' = "fuzz" => ~heap'[cur_target'].ranks)
  BY <1>1, <1>2
<1>5. IInv /\ SingleInv /\ [Next]_vars =>
        (use_splicing' # use_splicing
         \/ (pc = "select" /\ live'.dry > saved[cur_target'].dry)
         => saved[cur_target'].paths = seen[cur_target'])
  BY <1>3
<1> QED BY <1>4, <1>5, SingleInductive, PTL
        DEF Spec, SingleFresh, FavoredFresh, DryCyclesOnly
=============================================================================
