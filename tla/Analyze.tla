------------------------------- MODULE Analyze -------------------------------
(***************************************************************************)
(* afl-analyze (src/afl-analyze.c): changes every byte of a file in four   *)
(* ways, compares the checksums of the runs with that of the original, and *)
(* reports runs of bytes that answer alike.  One action per run of the     *)
(* program, which may be late or interrupted at any of them.               *)
(***************************************************************************)
EXTENDS Integers, Sequences, FiniteSets, FiniteSetsExt

CONSTANTS AnalyzeFiles,    \* input files: sequences of bytes
          Parsers,         \* [magic, tags, hang] : places the program looks at;
                           \* its magic fields do not overlap
          MaxLate,         \* runs that are late though the program does not hang
          MaxAutoExtra     \* MAX_AUTO_EXTRA: longer fixed runs are suspect

ASSUME AnalyzeAssumption ==
  /\ AnalyzeFiles \subseteq Seq(0 .. 255) \ {<<>>}
  /\ \A p \in Parsers : /\ DOMAIN p.magic \subseteq Nat \ {0}
                       /\ \A g, h \in DOMAIN p.magic : g # h => p.magic[g] \cap p.magic[h] = {}
  /\ MaxLate \in Nat /\ MaxAutoExtra \in Nat \ (0 .. 5)

VARIABLES
  anStage,       \* "off", "walk", "dump", "reported", "aborted"
  parser, anFile,
  bytes,         \* in_data
  here, change,  \* i, and the change of this byte that is run next
  orig_cksum, cks, prev_cks,
  b_data, seq_bit,
  exec_hangs,
  report         \* the runs that dump_hex printed: [from, len, rtype]

analyzeVars == <<anStage, parser, anFile, bytes, here, change, orig_cksum, cks, prev_cks,
                 b_data, seq_bit, exec_hangs, report>>

RespNone == 0
RespMinor == 1
RespVariable == 2
RespFixed == 3
RespLen == 4
RespCksum == 5
RespSuspect == 6

(* A checksum stands for the path taken: the field at which the program    *)
(* stopped (0: none of them), or the class of every tag byte.  HangCksum   *)
(* is the 0 that run_target returns when the run timed out.                *)
Cksum(field, path) == [field |-> field, path |-> path]
HangCksum == Cksum(-1, <<>>)

(* The program stops at the first of its magic fields that is not what the *)
(* original has; otherwise its path depends on the class of the tag bytes. *)
(* A value of 240 or more at the place "hang" makes it hang.               *)
Broken(p, f) == {g \in DOMAIN p.magic : \E i \in p.magic[g] : f[i] # anFile[i]}
HangsOn(p, f) == \E i \in p.hang : f[i] >= 240
Checksum(p, f) ==
  CASE HangsOn(p, f) -> HangCksum
    [] ~HangsOn(p, f) /\ Broken(p, f) # {} ->
         Cksum(CHOOSE g \in Broken(p, f) : \A h \in Broken(p, f) : g <= h, <<>>)
    [] OTHER -> Cksum(0, [i \in p.tags |-> f[i] \div 64])

FlipLowest(v) == IF v % 2 = 0 THEN v + 1 ELSE v - 1
(* What the byte holds when each of the four runs is made: the code        *)
(* changes it in place, from what the run before left there.               *)
NextValue(v, k) ==
  CASE k = 1 -> 255 - v                            \* ^= 0xff
    [] k = 2 -> FlipLowest(255 - v)                \* ^= 0xfe
    [] k = 3 -> (FlipLowest(v) + 256 - 16) % 256   \* (^ 0x01) - 0x10
    [] k = 4 -> (v + 32) % 256                     \* += 0x20
\* Mutant: the last change of a byte is not undone.
UndoLast_Not(v) == v

UndoLast(v) == (v + 256 - 16) % 256                \* -= 0x10

AnalyzeInit ==
  /\ anStage = "off" /\ parser \in Parsers /\ anFile \in AnalyzeFiles
  /\ \A g \in DOMAIN parser.magic : parser.magic[g] \subseteq DOMAIN anFile
  /\ parser.tags \cup parser.hang \subseteq DOMAIN anFile
  /\ bytes = anFile /\ here = 1 /\ change = 1
  /\ orig_cksum = HangCksum
  /\ cks = [k \in 1 .. 4 |-> HangCksum] /\ prev_cks = [k \in 1 .. 4 |-> HangCksum]
  /\ b_data = <<>> /\ seq_bit = 0 /\ exec_hangs = 0 /\ report = <<>>

(* The dry run in main: a program that hangs on the file ends the tool. *)
DryRunFile ==
  /\ anStage = "off"
  /\ orig_cksum' = Checksum(parser, bytes)
  /\ anStage' = IF orig_cksum' = HangCksum THEN "aborted" ELSE "walk"
  /\ exec_hangs' = IF orig_cksum' = HangCksum THEN 1 ELSE 0
  /\ UNCHANGED <<parser, anFile, bytes, here, change, cks, prev_cks, b_data, seq_bit, report>>

Probe(late) ==
  /\ anStage = "walk" /\ here <= Len(bytes) /\ change <= 4
  /\ late => exec_hangs < MaxLate
  /\ bytes' = [bytes EXCEPT ![here] = NextValue(@, change)]
  /\ cks' = [cks EXCEPT ![change] = IF late THEN HangCksum ELSE Checksum(parser, bytes')]
  /\ exec_hangs' = exec_hangs + (IF cks'[change] = HangCksum THEN 1 ELSE 0)
  /\ change' = change + 1
  /\ UNCHANGED <<anStage, parser, anFile, here, orig_cksum, prev_cks, b_data, seq_bit, report>>

Answer(c) ==
  LET same == {k \in 1 .. 4 : c[k] = orig_cksum}
  IN CASE same = 1 .. 4 -> RespNone
       [] same \notin {1 .. 4, {}} -> RespMinor
       [] same = {} /\ (\A k \in 2 .. 4 : c[k] = c[1]) -> RespFixed
       [] OTHER -> RespVariable

(* The high bit of b_data changes when all four checksums differ from      *)
(* those of the byte before.                                               *)
ClassifyByte ==
  /\ anStage = "walk" /\ here <= Len(bytes) /\ change = 5
  /\ bytes' = [bytes EXCEPT ![here] = UndoLast(@)]
  /\ seq_bit' = IF \A k \in 1 .. 4 : prev_cks[k] # cks[k] THEN 1 - seq_bit ELSE seq_bit
  /\ b_data' = Append(b_data, [resp |-> Answer(cks), bit |-> seq_bit'])
  /\ prev_cks' = cks /\ here' = here + 1 /\ change' = 1
  /\ UNCHANGED <<anStage, parser, anFile, orig_cksum, cks, exec_hangs, report>>

StartDump ==
  /\ anStage = "walk" /\ here > Len(bytes)
  /\ anStage' = "dump" /\ here' = 1
  /\ UNCHANGED <<parser, anFile, bytes, change, orig_cksum, cks, prev_cks, b_data, seq_bit, exec_hangs, report>>

RunLength(i) ==
  CHOOSE n \in 1 .. Len(bytes) - i + 1 :
    /\ \A j \in i .. i + n - 1 : b_data[j].bit = b_data[i].bit
    /\ i + n <= Len(bytes) => b_data[i + n].bit # b_data[i].bit

(* Values of two and four bytes, in both byte orders. *)
Little(i, n) == FoldSet(LAMBDA k, v : v + bytes[i + k] * 256 ^ k, 0, 0 .. n - 1)
Swapped(i, n) == FoldSet(LAMBDA k, v : v + bytes[i + k] * 256 ^ (n - 1 - k), 0, 0 .. n - 1)
Distance(a, b) == IF a > b THEN a - b ELSE b - a

Refined(i, n, rtype) ==
  LET small == n \in {2, 4} /\ Little(i, n) # 0
               /\ (Little(i, n) <= Len(bytes) \/ Swapped(i, n) <= Len(bytes))
      uniform == \/ n = 2 /\ Little(i, n) # 0 /\ Distance(bytes[i], bytes[i + 1]) > 32
                 \/ n = 4 /\ \E k \in 1 .. 3 : bytes[i] \div 128 # bytes[i + k] \div 128
  IN CASE rtype # RespFixed -> rtype
       [] rtype = RespFixed /\ small -> RespLen
       [] rtype = RespFixed /\ ~small /\ uniform -> RespCksum
       [] rtype = RespFixed /\ n \notin {2, 4} /\ n >= MaxAutoExtra -> RespSuspect
       [] OTHER -> rtype

DumpRun ==
  /\ anStage = "dump" /\ here <= Len(bytes)
  /\ LET n == RunLength(here)
         rtype == Max({b_data[j].resp : j \in here .. here + n - 1})
     IN /\ report' = Append(report, [from |-> here, len |-> n, rtype |-> Refined(here, n, rtype)])
        /\ here' = here + n
  /\ UNCHANGED <<anStage, parser, anFile, bytes, change, orig_cksum, cks, prev_cks, b_data, seq_bit, exec_hangs>>

EndDump ==
  /\ anStage = "dump" /\ here > Len(bytes)
  /\ anStage' = "reported"
  /\ UNCHANGED <<parser, anFile, bytes, here, change, orig_cksum, cks, prev_cks, b_data, seq_bit, exec_hangs, report>>

(* Ctrl-C: the run under way is killed and the tool exits. *)
AbortAnalysis ==
  /\ anStage = "walk" /\ change <= 4
  /\ anStage' = "aborted"
  /\ UNCHANGED <<parser, anFile, bytes, here, change, orig_cksum, cks, prev_cks, b_data, seq_bit, exec_hangs, report>>

AnalyzeNext ==
  \/ DryRunFile \/ (\E late \in BOOLEAN : Probe(late)) \/ ClassifyByte
  \/ StartDump \/ DumpRun \/ EndDump \/ AbortAnalysis
AnalyzeSpec == AnalyzeInit /\ [][AnalyzeNext]_analyzeVars

-----------------------------------------------------------------------------
RunOf(i) == CHOOSE r \in DOMAIN report : i >= report[r].from /\ i < report[r].from + report[r].len
Ignored(i) ==
  /\ \A g \in DOMAIN parser.magic : i \notin parser.magic[g]
  /\ i \notin parser.tags \cup parser.hang

(* The four changes are undone before the next byte is changed: what the   *)
(* checksums of a byte mean is what changing that byte alone does.         *)
OneByteAtATime ==
  \A i \in DOMAIN bytes : bytes[i] # anFile[i] => anStage \in {"walk", "aborted"} /\ i = here /\ change > 1

(* Bytes that the program does not look at are reported as no-op blocks,   *)
(* and bytes of two different magic fields never as one block - except     *)
(* when runs timed out, of which the tool warns.                           *)
FieldsToldApart ==
  anStage = "reported" /\ exec_hangs = 0 =>
    /\ \A i \in DOMAIN anFile : Ignored(i) => b_data[i].resp = RespNone /\ report[RunOf(i)].rtype < RespLen
    /\ \A g, h \in DOMAIN parser.magic : g # h =>
         \A i \in parser.magic[g], j \in parser.magic[h] : RunOf(i) # RunOf(j)

(* Every byte of the file is printed once, in order. *)
EveryByteShown ==
  anStage = "reported" =>
    /\ Len(report) > 0 /\ report[1].from = 1
    /\ \A r \in DOMAIN report :
         report[r].from + report[r].len = (IF r < Len(report) THEN report[r + 1].from ELSE Len(anFile) + 1)

(* The analysis is right: one byte at a time, fields told apart, every byte
   shown (src/afl-analyze.c:407-650).                                      *)
AnalyzeRight == OneByteAtATime /\ FieldsToldApart /\ EveryByteShown
=============================================================================
