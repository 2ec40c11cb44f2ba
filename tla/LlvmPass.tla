------------------------------- MODULE LlvmPass -------------------------------
(***************************************************************************)
(* The instrumentation pass: it reads the selection and the data-flow      *)
(* graph of every target from two folders, file by file in the order of    *)
(* readdir, and puts code into the blocks of the functions that some       *)
(* target selects: the count of a step, and for every target whose graph   *)
(* has a line of the block the store of that node's score.                 *)
(***************************************************************************)
EXTENDS Integers, Sequences, FiniteSets

CONSTANTS
  PassInputs,   \* [select, dfg: the files of the folders; source: the module's name; funcs]
  NodeLimit     \* TRGT_MAP_SIZE

(* The files of a folder have names of their own; a file has lines.        *)
ASSUME PassAssumption ==
  /\ NodeLimit \in Nat \ {0}
  /\ \A in \in PassInputs :
       /\ \A folder \in {in.select, in.dfg} :
            /\ Len(folder) \in Nat /\ DOMAIN folder = 1 .. Len(folder)
            /\ \A j, k \in DOMAIN folder : folder[j].name = folder[k].name => j = k
            /\ \A k \in DOMAIN folder : LET nodes == folder[k].nodes
                                        IN Len(nodes) \in Nat /\ DOMAIN nodes = 1 .. Len(nodes)
       /\ Len(in.funcs) \in Nat /\ DOMAIN in.funcs = 1 .. Len(in.funcs)
       /\ \A f \in DOMAIN in.funcs : \A b \in DOMAIN in.funcs[f].blocks : IsFiniteSet(in.funcs[f].blocks[b])

VARIABLES
  passInput,
  passPc,                                 \* "sizes", "pairs", "functions", "done", "fatal"
  target_file_names,
  instr_targets_vector, dfg_map_vector,   \* per target, numbered from 1 here
  funcIndex, file_name,
  blocks_done                                \* [func, block, stores], a record per instrumented block

passVars == <<passInput, passPc, target_file_names, instr_targets_vector, dfg_map_vector,
              funcIndex, file_name, blocks_done>>

PassInit ==
  /\ passInput \in PassInputs /\ passPc = "sizes"
  /\ target_file_names = <<>> /\ instr_targets_vector = <<>> /\ dfg_map_vector = <<>>
  /\ funcIndex = 1 /\ file_name = passInput.source /\ blocks_done = {}

(* The folders must hold as many files each. *)
CompareSizes ==
  /\ passPc = "sizes"
  /\ passPc' = IF Len(passInput.select) = Len(passInput.dfg) THEN "pairs" ELSE "fatal"
  /\ UNCHANGED <<passInput, target_file_names, instr_targets_vector, dfg_map_vector,
                 funcIndex, file_name, blocks_done>>

(* initDFGNodeMap: a node is numbered by its line of the file; a later     *)
(* mention of the same program line replaces an earlier one.               *)
LastMention(nodes, l) ==
  CHOOSE k \in DOMAIN nodes : nodes[k].line = l /\ \A j \in DOMAIN nodes : nodes[j].line = l => j <= k
NodeMap(nodes) ==
  [l \in {nodes[k].line : k \in DOMAIN nodes} |->
     [idx |-> LastMention(nodes, l) - 1, score |-> nodes[LastMention(nodes, l)].score]]

\* Mutant: the files are paired by their place, whatever they are called.
Paired_ByPlace(i) == TRUE

Paired(i) == passInput.select[i].name = passInput.dfg[i].name

(* A turn of the loop of initialize. *)
ReadPair ==
  LET i == Len(target_file_names) + 1
  IN /\ passPc = "pairs" /\ i <= Len(passInput.select)
     /\ IF Paired(i) /\ Len(passInput.dfg[i].nodes) < NodeLimit
        THEN /\ target_file_names' = Append(target_file_names, passInput.select[i].name)
             /\ instr_targets_vector' = Append(instr_targets_vector, passInput.select[i].funcs)
             /\ dfg_map_vector' = Append(dfg_map_vector, NodeMap(passInput.dfg[i].nodes))
             /\ UNCHANGED passPc
        ELSE /\ passPc' = "fatal"
             /\ UNCHANGED <<target_file_names, instr_targets_vector, dfg_map_vector>>
     /\ UNCHANGED <<passInput, funcIndex, file_name, blocks_done>>

EndOfFolders ==
  /\ passPc = "pairs" /\ Len(target_file_names) = Len(passInput.select)
  /\ passPc' = "functions"
  /\ UNCHANGED <<passInput, target_file_names, instr_targets_vector, dfg_map_vector,
                 funcIndex, file_name, blocks_done>>

-----------------------------------------------------------------------------
(* The targets that select a function of this name in this file. *)
SelectedBy(file, func) ==
  {i \in DOMAIN instr_targets_vector : <<file, func>> \in instr_targets_vector[i]}

(* The stores of a block; its instructions of one line repeat the same. *)
StoreOf(t, line) ==
  [target |-> t, idx |-> dfg_map_vector[t][line].idx, score |-> dfg_map_vector[t][line].score]
LinesIn(t, file, lines) == {l \in lines : <<file, l>> \in DOMAIN dfg_map_vector[t]}
StoresOf(file, lines, targets) ==
  UNION {{StoreOf(t, <<file, l>>) : l \in LinesIn(t, file, lines)} : t \in targets}

(* A function without debug information keeps the file of the one before.  *)
(* Without any target file nothing is selected away, but nothing is put in *)
(* either: all of that is under dfg_scoring.                               *)
RunOnFunction ==
  LET f    == passInput.funcs[funcIndex]
      file == IF f.file = "none" THEN file_name ELSE f.file
      targets == SelectedBy(file, f.name)
  IN /\ passPc = "functions" /\ funcIndex <= Len(passInput.funcs)
     /\ funcIndex' = funcIndex + 1 /\ file_name' = file
     /\ blocks_done' = blocks_done \cup
          {[func |-> funcIndex, block |-> b, stores |-> StoresOf(file, f.blocks[b], targets)] :
             b \in IF targets # {} THEN DOMAIN f.blocks ELSE {}}
     /\ UNCHANGED <<passInput, passPc, target_file_names, instr_targets_vector, dfg_map_vector>>

EndOfModule ==
  /\ passPc = "functions" /\ funcIndex > Len(passInput.funcs)
  /\ passPc' = "done"
  /\ UNCHANGED <<passInput, target_file_names, instr_targets_vector, dfg_map_vector,
                 funcIndex, file_name, blocks_done>>

PassNext == CompareSizes \/ ReadPair \/ EndOfFolders \/ RunOnFunction \/ EndOfModule

PassSpec == PassInit /\ [][PassNext]_passVars

-----------------------------------------------------------------------------
(* A target is what its user gave one name in both folders. *)
Selects(n, file, func) ==
  \E s \in DOMAIN passInput.select :
    passInput.select[s].name = n /\ <<file, func>> \in passInput.select[s].funcs
Graph(n) == (CHOOSE d \in {passInput.dfg[k] : k \in DOMAIN passInput.dfg} : d.name = n).nodes
LinesFor(n, file, func, lines) ==
  {l \in lines : Selects(n, file, func) /\ \E k \in DOMAIN Graph(n) : Graph(n)[k].line = <<file, l>>}

StoredFor(f, b, i) ==
  UNION {{s \in r.stores : s.target = i} : r \in {q \in blocks_done : q.func = f /\ q.block = b}}

(* In whatever order the two folders are listed, every block of a function *)
(* with debug information counts a step exactly if a target selects the    *)
(* function, and stores for each target one score per line of the block    *)
(* that its graph has: the score of the line's node, under the node's own  *)
(* number (src/llvm_mode/afl-llvm-pass.so.cc:117-379).                     *)
ScoresAreTheTargets ==
  passPc = "done" =>
    \A f \in {g \in DOMAIN passInput.funcs : passInput.funcs[g].file # "none"} :
      LET p == passInput.funcs[f]
      IN \A b \in DOMAIN p.blocks :
           /\ (\E r \in blocks_done : r.func = f /\ r.block = b)
                <=> \E d \in DOMAIN passInput.dfg : Selects(passInput.dfg[d].name, p.file, p.name)
           /\ \A i \in DOMAIN target_file_names :
                LET n == target_file_names[i]
                    lines == LinesFor(n, p.file, p.name, p.blocks[b])
                IN /\ Cardinality(StoredFor(f, b, i)) = Cardinality(lines)
                   /\ \A s \in StoredFor(f, b, i) :
                        /\ Graph(n)[s.idx + 1].line \in {<<p.file, l>> : l \in lines}
                        /\ Graph(n)[s.idx + 1].score = s.score

(* Where a store goes.  The pass has the map as a table of pointers, so    *)
(* that target and node each move the address by eight bytes, two cells;   *)
(* the run time and the fuzzer have a row of NodeLimit cells per target.   *)
(* No run checks OwnRows: it does not hold.                                *)
ScoreCell(s) == 2 * (s.target - 1 + s.idx)
Row(i) == NodeLimit * (i - 1) .. NodeLimit * i - 1
OwnRows ==
  \A r \in blocks_done : \A s \in r.stores :
    /\ ScoreCell(s) \in Row(s.target)
    /\ \A q \in blocks_done : \A z \in q.stores :
         ScoreCell(z) = ScoreCell(s) => z.target = s.target /\ z.idx = s.idx
================================================================================
