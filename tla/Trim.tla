--------------------------------- MODULE Trim ---------------------------------
(***************************************************************************)
(* trim_case (src/afl-fuzz.c:4868-5003) with the files it writes           *)
(* (write_to_testcase, write_with_gap, 2841-2900).  A seed is the set of   *)
(* the original offsets it still contains; a run's trace depends on the    *)
(* offsets in needed only, and a run shows which of those are there.  The  *)
(* queue file may be a hard link to a file of the input directory          *)
(* (link_or_copy, 3261).                                                   *)
(***************************************************************************)
EXTENDS Integers, FiniteSets

CONSTANTS
  MaxLen,                          \* length of the longest seed
  TRIM_MIN_BYTES, TRIM_START_STEPS, TRIM_END_STEPS

ASSUME TrimAssumption ==
  /\ MaxLen \in Nat /\ TRIM_MIN_BYTES \in Nat \ {0}
  /\ TRIM_START_STEPS \in Nat \ {0} /\ TRIM_END_STEPS \in Nat \ {0}

VARIABLES
  trimPhase,   \* "pick", "rounds", "walk", "unlink", "create", "write", "done", "fatal"
  needed,      \* offsets the trace of the seed depends on
  in_buf,      \* offsets left in memory
  trim,        \* [remove_len, remove_pos, len_p2, needs_write, whole: its length]
  testcase,    \* content of the file the target reads
  names,       \* inodes of "input" and "queue"; 0 if there is no such file
  inode        \* contents of the inodes

trimVars == <<trimPhase, needed, in_buf, trim, testcase, names, inode>>

NoTrim == [remove_len |-> 0, remove_pos |-> 0, len_p2 |-> 0, needs_write |-> FALSE, whole |-> 0]

TrimInit ==
  /\ trimPhase = "pick" /\ needed = {} /\ in_buf = {} /\ trim = NoTrim
  /\ testcase = {} /\ names = [input |-> 1, queue |-> 1] /\ inode = [n \in 1..2 |-> {}]

next_p2(v) == CHOOSE p \in {2 ^ k : k \in 0..v} :
                /\ p >= v /\ \A q \in {2 ^ k : k \in 0..v} : q >= v => p <= q
AtLeast(a, b) == IF a < b THEN b ELSE a
Trace(content) == content \cap needed

(* The offset at position k of a seed.                                     *)
At(s, k) == CHOOSE x \in s : Cardinality({y \in s : y < x}) = k
Gap(s, pos, n) == {x \in s : LET k == Cardinality({y \in s : y < x})
                             IN k >= pos /\ k < pos + n}

(* A seed of len bytes enters; one shorter than five is left alone.        *)
StartTrim(len, ess, linked) ==
  /\ trimPhase = "pick"
  /\ needed' = ess /\ in_buf' = 0..len - 1
  /\ names' = [input |-> 1, queue |-> IF linked THEN 1 ELSE 2]
  /\ inode' = [n \in 1..2 |-> 0..len - 1]
  /\ trim' = [remove_len |-> AtLeast(next_p2(len) \div TRIM_START_STEPS, TRIM_MIN_BYTES),
              remove_pos |-> 0, len_p2 |-> next_p2(len), needs_write |-> FALSE,
              whole |-> len]
  /\ trimPhase' = IF len < 5 THEN "done" ELSE "rounds"
  /\ UNCHANGED testcase

(* The outer loop: a round with blocks of remove_len.                      *)
RoundGoesOn ==
  trim.remove_len >= AtLeast(trim.len_p2 \div TRIM_END_STEPS, TRIM_MIN_BYTES)

StartRound ==
  /\ trimPhase = "rounds" /\ RoundGoesOn
  /\ trim' = [trim EXCEPT !.remove_pos = trim.remove_len]
  /\ trimPhase' = "walk"
  /\ UNCHANGED <<needed, in_buf, testcase, names, inode>>

\* Mutant: one byte more is dropped than was tried.
TryWithout_More ==
  /\ trimPhase = "walk" /\ trim.remove_pos < Cardinality(in_buf)
  /\ LET rest == in_buf \ Gap(in_buf, trim.remove_pos, trim.remove_len)
     IN /\ testcase' = rest
        /\ IF Trace(rest) = Trace(in_buf)
           THEN /\ in_buf' = in_buf \ Gap(in_buf, trim.remove_pos, trim.remove_len + 1)
                /\ trim' = [trim EXCEPT !.len_p2 = next_p2(Cardinality(rest)),
                                        !.needs_write = TRUE]
           ELSE /\ trim' = [trim EXCEPT !.remove_pos = @ + trim.remove_len]
                /\ UNCHANGED in_buf
  /\ UNCHANGED <<trimPhase, needed, names, inode>>

(* Run without the block at remove_pos; if the trace stays the same, the
   block is dropped, otherwise the next one is tried.                      *)
TryWithout ==
  /\ trimPhase = "walk" /\ trim.remove_pos < Cardinality(in_buf)
  /\ LET rest == in_buf \ Gap(in_buf, trim.remove_pos, trim.remove_len)
     IN /\ testcase' = rest
        /\ IF Trace(rest) = Trace(in_buf)
           THEN /\ in_buf' = rest
                /\ trim' = [trim EXCEPT !.len_p2 = next_p2(Cardinality(rest)),
                                        !.needs_write = TRUE]
           ELSE /\ trim' = [trim EXCEPT !.remove_pos = @ + trim.remove_len]
                /\ UNCHANGED in_buf
  /\ UNCHANGED <<trimPhase, needed, names, inode>>

\* Mutant: the block length is not halved.
EndRound_Same ==
  /\ trimPhase = "walk" /\ trim.remove_pos >= Cardinality(in_buf)
  /\ trimPhase' = "rounds"
  /\ UNCHANGED <<needed, in_buf, trim, testcase, names, inode>>

EndRound ==
  /\ trimPhase = "walk" /\ trim.remove_pos >= Cardinality(in_buf)
  /\ trim' = [trim EXCEPT !.remove_len = @ \div 2]
  /\ trimPhase' = "rounds"
  /\ UNCHANGED <<needed, in_buf, testcase, names, inode>>

(* The file is replaced: unlinked, then created anew.                      *)
EndTrim ==
  /\ trimPhase = "rounds" /\ ~RoundGoesOn
  /\ trimPhase' = IF trim.needs_write THEN "unlink" ELSE "done"
  /\ UNCHANGED <<needed, in_buf, trim, testcase, names, inode>>

UnlinkSeed ==
  /\ trimPhase = "unlink"
  /\ names' = [names EXCEPT !.queue = 0]
  /\ trimPhase' = "create"
  /\ UNCHANGED <<needed, in_buf, trim, testcase, inode>>

(* O_CREAT and O_EXCL: an empty file that was not there, or a fatal error. *)
CreateSeed ==
  /\ trimPhase = "create"
  /\ \/ /\ names.queue = 0 /\ trimPhase' = "write"
        /\ names' = [names EXCEPT !.queue = 2] /\ inode' = [inode EXCEPT ![2] = {}]
     \/ trimPhase' = "fatal" /\ UNCHANGED <<names, inode>>
  /\ UNCHANGED <<needed, in_buf, trim, testcase>>

(* ck_write: a short write is fatal. *)
WriteSeed ==
  /\ trimPhase = "write"
  /\ \E n \in 0 .. Cardinality(in_buf) :
       LET written == Gap(in_buf, 0, n)
       IN /\ inode' = [inode EXCEPT ![names.queue] = written]
          /\ trimPhase' = IF written = in_buf THEN "done" ELSE "fatal"
  /\ UNCHANGED <<needed, in_buf, trim, testcase, names>>

(* Ctrl-C or a failing run: the file keeps what it had.                    *)
AbortTrim ==
  /\ trimPhase = "walk" /\ trim.remove_pos < Cardinality(in_buf)
  /\ testcase' = in_buf \ Gap(in_buf, trim.remove_pos, trim.remove_len)
  /\ trimPhase' = "done"
  /\ UNCHANGED <<needed, in_buf, trim, names, inode>>

NextSeed ==
  /\ trimPhase \in {"done", "fatal"}
  /\ trimPhase' = "pick" /\ needed' = {} /\ in_buf' = {} /\ trim' = NoTrim
  /\ testcase' = {} /\ names' = [input |-> 1, queue |-> 1] /\ inode' = [n \in 1..2 |-> {}]

TrimNext ==
  \/ \E len \in 1..MaxLen : \E ess \in SUBSET (0..len - 1), l \in BOOLEAN : StartTrim(len, ess, l)
  \/ StartRound \/ TryWithout \/ EndRound \/ EndTrim
  \/ UnlinkSeed \/ CreateSeed \/ WriteSeed \/ AbortTrim \/ NextSeed

TrimSpec == TrimInit /\ [][TrimNext]_trimVars /\ WF_trimVars(TrimNext)

(***************************************************************************)
(* Properties.                                                             *)
(***************************************************************************)
(* The queue file has everything that the seed's trace depends on, trimmed *)
(* or not, aborted or not - but for the moments from unlink() to the end   *)
(* of the write, when only the memory has it: a kill or an error there     *)
(* leaves no file, or an empty or shortened one (src/afl-fuzz.c:4984-4991).*)
(* The file of the input directory it may be linked to is never changed.   *)
Replacing == trimPhase \in {"create", "write", "fatal"}
TrimKeepsSeed ==
  trimPhase # "pick" =>
    /\ needed \subseteq in_buf
    /\ ~Replacing => names.queue # 0 /\ needed \subseteq inode[names.queue]
    /\ inode[names.input] = 0 .. trim.whole - 1

(* Trimming comes to an end, although blocks are tried again at the same
   place after one was dropped and the bounds of the loops move.           *)
TrimEnds == (trimPhase = "rounds") ~> (trimPhase \in {"done", "fatal"})
==============================================================================
