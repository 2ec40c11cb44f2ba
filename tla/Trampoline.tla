----------------------------- MODULE Trampoline -----------------------------
(***************************************************************************)
(* The code that afl-as puts into every object file (64 bit): each         *)
(* trampoline calls __afl_maybe_log with its location; the first call sets *)
(* up shared memory and the fork server, and every call adds one to the    *)
(* cell of the step from the location before.  The pointer to the map and  *)
(* the location before are private to an object file (.lcomm), a second    *)
(* pointer is shared by all (.comm).  A location, and a cell of the map,   *)
(* is the set of the bits of its number that are 1.                        *)
(***************************************************************************)
EXTENDS Integers, Sequences, FiniteSets

CONSTANTS Objects, MapWidth,   \* object files; the map has 2^MapWidth cells
          CountMod,            \* values of a cell; 256 in the code
          MaxSteps, MaxRuns    \* bounds: trampolines of a run, runs of the fork server

ASSUME TrampolineAssumption == MapWidth \in Nat \ {0} /\ CountMod \in Nat \ {0, 1}

MapCells == SUBSET (0 .. MapWidth - 1)
Xor(a, b) == (a \ b) \cup (b \ a)
ShiftedRight(a) == {k - 1 : k \in a \ {0}}

VARIABLES
  proc,        \* "program", "server" waiting for a go, "child", "dead"
  mem,         \* of the process that runs: area_ptr, prev_loc, setup_failure per object, global pointer
  serverMem,   \* what the fork server's memory holds while a child runs
  first,       \* the call in which the fork server was started
  trace,       \* the map
  shmId, canAttach, fds,   \* __AFL_SHM_ID is set; shmat works; the fork server's descriptors are open
  stepsRun,    \* the trampolines of this process since the map was cleared
  helloes, getenvs, runCount

tVars == <<proc, mem, serverMem, first, trace, shmId, canAttach, fds, stepsRun, helloes, getenvs, runCount>>

NoCount == [c \in MapCells |-> 0]

TrampolineInit ==
  /\ proc = "program"
  /\ mem = [area |-> [o \in Objects |-> FALSE], prev |-> [o \in Objects |-> {}],
            failure |-> [o \in Objects |-> FALSE], global |-> FALSE]
  /\ serverMem = mem /\ first = <<>> /\ trace = NoCount
  /\ shmId \in BOOLEAN /\ canAttach \in BOOLEAN /\ fds \in BOOLEAN
  /\ stepsRun = <<>> /\ helloes = 0 /\ getenvs = [o \in Objects |-> 0] /\ runCount = 0

\* Mutant: the location is not halved.
NextPrev_Whole(loc) == loc

(* __afl_store: the cell, the location halved for the next time. *)
NextPrev(loc) == ShiftedRight(loc)
Stored(m, o, loc) == [m EXCEPT !.prev = [@ EXCEPT ![o] = NextPrev(loc)]]
Counted(m, o, loc) == [trace EXCEPT ![Xor(loc, m.prev[o])] = (@ + 1) % CountMod]

Store(m, o, loc) == mem' = Stored(m, o, loc) /\ trace' = Counted(m, o, loc)

(* __afl_maybe_log, up to the fork server: an object takes the pointer     *)
(* that another one left; the first attaches the segment, and says hello   *)
(* on the descriptor that only a child of the fuzzer has open.             *)
MaybeLog(o, loc) ==
  LET attached == [mem EXCEPT !.area = [@ EXCEPT ![o] = TRUE], !.global = TRUE]
  IN /\ proc \in {"program", "child"} /\ Len(stepsRun) < MaxSteps
     /\ stepsRun' = Append(stepsRun, <<o, loc>>)
     /\ \/ /\ mem.area[o] \/ (~mem.failure[o] /\ mem.global)
           /\ Store([mem EXCEPT !.area = [@ EXCEPT ![o] = TRUE]], o, loc)
           /\ UNCHANGED <<proc, first, helloes, getenvs>>
        \/ /\ ~mem.area[o] /\ mem.failure[o]
           /\ UNCHANGED <<proc, mem, trace, first, helloes, getenvs>>
        \/ /\ ~mem.area[o] /\ ~mem.failure[o] /\ ~mem.global
           /\ getenvs' = [getenvs EXCEPT ![o] = @ + 1]
           /\ \/ /\ ~shmId \/ ~canAttach
                 /\ mem' = [mem EXCEPT !.failure = [@ EXCEPT ![o] = TRUE]]
                 /\ UNCHANGED <<proc, trace, first, helloes>>
              \/ /\ shmId /\ canAttach /\ fds
                 /\ mem' = attached /\ proc' = "server" /\ first' = <<o, loc>> /\ helloes' = helloes + 1
                 /\ UNCHANGED trace
              \/ /\ shmId /\ canAttach /\ ~fds
                 /\ Store(attached, o, loc)
                 /\ UNCHANGED <<proc, first, helloes>>
     /\ UNCHANGED <<serverMem, shmId, canAttach, fds, runCount>>

(* shmat fails or works as the system lets it. *)
AttachChanges ==
  /\ proc = "program" /\ stepsRun # <<>> /\ ~canAttach /\ canAttach' = TRUE
  /\ UNCHANGED <<proc, mem, serverMem, first, trace, shmId, fds, stepsRun, helloes, getenvs, runCount>>

(* The fuzzer clears the map and says go; the child of fork closes the     *)
(* descriptors and finishes the call the server stopped in.                *)
ForkResume ==
  /\ proc = "server" /\ runCount < MaxRuns
  /\ proc' = "child" /\ runCount' = runCount + 1 /\ serverMem' = mem
  /\ fds' = FALSE /\ stepsRun' = <<first>>
  /\ mem' = Stored(mem, first[1], first[2])
  /\ trace' = [NoCount EXCEPT ![Xor(first[2], mem.prev[first[1]])] = 1]
  /\ UNCHANGED <<first, shmId, canAttach, helloes, getenvs>>

(* The child ends; waitpid returns and the server reports. *)
ChildEnds ==
  /\ proc = "child" /\ proc' = "server" /\ mem' = serverMem /\ fds' = TRUE /\ stepsRun' = <<>>
  /\ UNCHANGED <<serverMem, first, trace, shmId, canAttach, helloes, getenvs, runCount>>

(* __afl_die: a read, a fork or waitpid failed. *)
ServerDies ==
  /\ proc = "server" /\ proc' = "dead"
  /\ UNCHANGED <<mem, serverMem, first, trace, shmId, canAttach, fds, stepsRun, helloes, getenvs, runCount>>

TrampolineNext ==
  \/ \E o \in Objects, loc \in MapCells : MaybeLog(o, loc)
  \/ AttachChanges \/ ForkResume \/ ChildEnds \/ ServerDies
TrampolineSpec == TrampolineInit /\ [][TrampolineNext]_tVars

-----------------------------------------------------------------------------
(* A step of a run, from the location before it in the same object file.   *)
Latest(S) == CHOOSE j \in S : \A k \in S : k <= j
Before(i) ==
  LET earlier == {j \in 1..(i - 1) : stepsRun[j][1] = stepsRun[i][1]}
  IN IF earlier = {} THEN {} ELSE stepsRun[Latest(earlier)][2]
Cell(i) == Xor(stepsRun[i][2], ShiftedRight(Before(i)))
LoggedSteps == {i \in 1..Len(stepsRun) : mem.area[stepsRun[i][1]]}

(* The map of a process is the multiset of the steps it made, counted per  *)
(* object file: the location that the fork server interrupted is counted   *)
(* in every child, nothing of one child reaches the next, an object file   *)
(* that could not attach has no part in it; there and back are two cells.  *)
(* And the set-up runs once: one server, one getenv per object file.       *)
TraceIsSteps ==
  /\ proc \in {"program", "child"} =>
       \A c \in MapCells : trace[c] = Cardinality({i \in LoggedSteps : Cell(i) = c}) % CountMod
  /\ \A i, j \in 1..(Len(stepsRun)) :
       ( /\ i > 1 /\ j > 1 /\ Before(i) # stepsRun[i][2]
         /\ stepsRun[i - 1][1] = stepsRun[i][1] /\ stepsRun[j - 1][1] = stepsRun[j][1]
         /\ stepsRun[j][2] = Before(i) /\ Before(j) = stepsRun[i][2] ) => Cell(i) # Cell(j)
  /\ helloes <= 1 /\ \A o \in Objects : getenvs[o] <= 1
=============================================================================
