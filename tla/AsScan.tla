------------------------------- MODULE AsScan -------------------------------
(***************************************************************************)
(* add_instrumentation of afl-as: one pass over the assembly that the      *)
(* compiler wrote, a few flags of memory, and trampolines put in as the    *)
(* lines go by.  A line is the class of text the scan tells apart.         *)
(***************************************************************************)
EXTENDS Integers, Sequences, FiniteSets

CONSTANT Scans   \* records [kinds, max]: files of so many lines, of these classes

VARIABLES
  scan,
  lines,        \* the input read so far
  before,       \* positions of lines with a trampoline written in front of them
  after,        \* positions of branch instructions with one behind them
  picked,       \* positions where R(100) < inst_ratio held
  instr_ok, skip_csect, skip_next_label, skip_intel, skip_app, instrument_next,
  clang_mode, pass_thru_on, use_64bit

scanVars == <<scan, lines, before, after, picked, instr_ok, skip_csect, skip_next_label, skip_intel,
              skip_app, instrument_next, clang_mode, pass_thru_on, use_64bit>>

(* "branch" is .L0: - or .LBB0_0: for clang -, "local" is any other label  *)
(* with a dot, "jcc" a conditional jump, "insn" any other instruction.     *)
LineClasses == {"text", "data", "p2align", "code32", "code64", "intel_syntax", "att_syntax",
                "#APP", "#NO_APP", "comment", "jcc", "insn", "func", "branch", "local"}
Instructions == {"jcc", "insn"}

ASSUME ScansAssumption == \A s \in Scans : s.kinds \subseteq LineClasses /\ s.max \in Nat

ScanInit ==
  /\ scan \in Scans
  /\ lines = <<>> /\ before = {} /\ after = {} /\ picked = {}
  /\ instr_ok = FALSE /\ skip_csect = FALSE /\ skip_next_label = FALSE
  /\ skip_intel = FALSE /\ skip_app = FALSE /\ instrument_next = FALSE
  /\ clang_mode \in BOOLEAN /\ pass_thru_on \in BOOLEAN /\ use_64bit \in BOOLEAN

(* What a directive leaves of a flag; text and data end the examination of *)
(* their line, the others let it go on.                                    *)
Section(kind, ok) == CASE kind = "text" -> TRUE [] kind = "data" -> FALSE [] OTHER -> ok
\* Mutant: alignments of clang mark jump tables too.
Align_Clang(kind, ok, skip) == skip \/ (kind = "p2align" /\ ok)

Align(kind, ok, skip) == skip \/ (kind = "p2align" /\ ~clang_mode /\ ok)
Csect(kind, skip) == CASE kind = "code32" -> use_64bit [] kind = "code64" -> ~use_64bit [] OTHER -> skip
Toggle(kind, on, off, was) == CASE kind = on -> TRUE [] kind = off -> FALSE [] OTHER -> was

Mood == instr_ok /\ ~skip_csect /\ ~skip_intel /\ ~skip_app

(* The deferred trampoline goes out before the first instruction after a   *)
(* label; then the line itself is examined.  luck is R(100) < inst_ratio.  *)
ReadLine(kind, luck) ==
  LET n    == Len(lines) + 1
      put  == ~pass_thru_on /\ Mood /\ instrument_next /\ kind \in Instructions
      wait == instrument_next /\ ~put
      seen == Mood /\ ~pass_thru_on
  IN /\ Len(lines) < scan.max
     /\ lines' = Append(lines, kind)
     /\ before' = IF put THEN before \cup {n} ELSE before
     /\ picked' = IF luck THEN picked \cup {n} ELSE picked
     /\ after' = IF seen /\ kind = "jcc" /\ luck THEN after \cup {n} ELSE after
     /\ IF pass_thru_on
        THEN UNCHANGED <<instr_ok, skip_csect, skip_next_label, skip_intel, skip_app, instrument_next>>
        ELSE /\ instr_ok' = Section(kind, instr_ok)
             /\ skip_csect' = Csect(kind, skip_csect)
             /\ skip_intel' = Toggle(kind, "intel_syntax", "att_syntax", skip_intel)
             /\ skip_app' = Toggle(kind, "#APP", "#NO_APP", skip_app)
             /\ skip_next_label' =
                  IF seen /\ kind = "branch" /\ luck THEN FALSE
                  ELSE Align(kind, instr_ok, skip_next_label)
             /\ instrument_next' =
                  \/ wait
                  \/ seen /\ kind = "func"
                  \/ seen /\ kind = "branch" /\ luck /\ ~skip_next_label
     /\ UNCHANGED <<scan, clang_mode, pass_thru_on, use_64bit>>

ScanNext ==
  \E kind \in scan.kinds, luck \in BOOLEAN : (luck => kind \in {"jcc", "branch"}) /\ ReadLine(kind, luck)
ScanSpec == ScanInit /\ [][ScanNext]_scanVars

-----------------------------------------------------------------------------
(* The modes read off the text: the last directive of a kind decides. *)
LastOf(kinds, n) ==
  LET at == {i \in 1..(n - 1) : lines[i] \in kinds}
  IN IF at = {} THEN "none" ELSE lines[CHOOSE i \in at : \A j \in at : j <= i]
Native(n) ==
  /\ LastOf({"text", "data"}, n) = "text"
  /\ LastOf({"code32", "code64"}, n) # (IF use_64bit THEN "code32" ELSE "code64")
  /\ LastOf({"intel_syntax", "att_syntax"}, n) # "intel_syntax"
  /\ LastOf({"#APP", "#NO_APP"}, n) # "#APP"

(* The label that an alignment in front of it keeps from being a target:   *)
(* the next branch label that the ratio picked.                            *)
PickedBranch(n) == lines[n] = "branch" /\ n \in picked /\ Native(n)
IsAlign(n) == lines[n] = "p2align" /\ ~clang_mode /\ LastOf({"text", "data"}, n) = "text"
JumpTable(n) ==
  \E a \in 1..(n - 1) : IsAlign(a) /\ \A m \in (a + 1)..(n - 1) : ~PickedBranch(m)

(* An instruction that control enters from a label. *)
Entered(n) ==
  /\ lines[n] \in Instructions /\ Native(n)
  /\ \E l \in 1..(n - 1) :
       /\ Native(l) /\ (lines[l] = "func" \/ (PickedBranch(l) /\ ~JumpTable(l)))
       /\ \A m \in (l + 1)..(n - 1) : ~(lines[m] \in Instructions /\ Native(m))

(* add_instrumentation keeps six flags and writes as it reads; judged by   *)
(* the whole file, the trampolines are exactly where they belong: in front *)
(* of the first instruction behind every function and every chosen branch  *)
(* label but a jump table's, behind every chosen conditional jump, all of  *)
(* it only in .text, in the word size and the syntax of the payload and    *)
(* outside the programmer's own assembly; and a pass-through has none.     *)
TrampolinesPlaced ==
  /\ pass_thru_on => before = {} /\ after = {}
  /\ ~pass_thru_on =>
       /\ before = {n \in 1..Len(lines) : Entered(n)}
       /\ after = {n \in 1..Len(lines) : lines[n] = "jcc" /\ n \in picked /\ Native(n)}
=============================================================================
