--------------------------------- MODULE Tmin ---------------------------------
(***************************************************************************)
(* afl-tmin (src/afl-tmin.c): shrinks and simplifies a file as long as     *)
(* the program behaves as it did with the original.  One action per run of *)
(* the program; Ctrl-C may come at any of them and writes what there is.   *)
(***************************************************************************)
EXTENDS Integers, Sequences, FiniteSets

CONSTANTS Originals,    \* input files
          Programs,     \* [kind, pattern] : what the program looks at
          SetSteps, SetMinSize, StartSteps    \* TMIN_SET_STEPS, TMIN_SET_MIN_SIZE, TRIM_START_STEPS

KB == 1024
MB == KB * KB
TMIN_MAX_FILE == 10 * MB

ASSUME TminAssumption ==
  /\ Originals \subseteq Seq(STRING)
  /\ \A f \in Originals : f # <<>> /\ Len(f) < TMIN_MAX_FILE
  /\ Programs \subseteq [kind : {"sub", "even", "crash", "hang"}, pattern : Seq(STRING)]
  /\ {SetSteps, SetMinSize, StartSteps} \subseteq Nat \ {0}

VARIABLES
  tminStage,    \* "off", "dry", "normalize", "delete", "alphabet", "chars", "done", "failed"
  program, original,
  in_data, tmp_buf,
  orig_run,     \* how the original ran
  exact_mode,   \* AFL_TMIN_EXACT
  at, blockLen, \* del_pos or set_pos or i, and del_len or set_len
  prev_del, changed_any, cur_pass,
  alphabet,     \* symbols of alpha_map still to try
  out_file,     \* what was written, or <<"nothing">>
  rejected      \* files that were run and refused since the block length was set

tminVars == <<tminStage, program, original, in_data, tmp_buf, orig_run, exact_mode, at, blockLen,
              prev_del, changed_any, cur_pass, alphabet, out_file, rejected>>

Zero == "0"
NotWritten == <<"nothing">>
SymbolsOf(f) == {f[i] : i \in DOMAIN f}

(* How the program runs on a file: it hangs, crashes, or ends normally,    *)
(* with a trace.  The kinds are examples that disagree about what matters: *)
(* a subsequence, a count, or the byte at a place.                         *)
Holds(f, pair) == \E i, j \in DOMAIN f : i < j /\ f[i] = pair[1] /\ f[j] = pair[2]
Times(f, s) == Cardinality({i \in DOMAIN f : f[i] = s})
Ran(p, f) ==
  CASE p.kind = "sub" -> [end |-> "exit", trace |-> IF Holds(f, p.pattern) THEN 1 ELSE 0]
    [] p.kind = "even" -> [end |-> "exit", trace |-> Times(f, p.pattern[1]) % 2]
    [] p.kind = "crash" -> [end |-> IF Holds(f, p.pattern) THEN "crash" ELSE "exit",
                            trace |-> Len(f) % 2]
    [] p.kind = "hang" -> [end |-> IF Len(f) < 2 THEN "hang" ELSE "exit",
                           trace |-> IF f = <<>> \/ f[1] = Zero THEN 1 ELSE 0]

(* run_target's verdict: crash mode is entered when the original crashes;  *)
(* then every crash will do, unless the trace must match as well.          *)
Kept(f) ==
  LET r == Ran(program, f)
  IN CASE r.end = "hang" -> FALSE
       [] r.end = "crash" -> orig_run.end = "crash" /\ (exact_mode => r.trace = orig_run.trace)
       [] OTHER -> orig_run.end = "exit" /\ r.trace = orig_run.trace

SmallPowers == {1, 2, 4, 8, 16, 32, 64, 128, 256, 512}
Powers == UNION {{p, KB * p, MB * p} : p \in SmallPowers}
next_pow2(v) == CHOOSE r \in Powers : r >= v /\ \A q \in Powers : q >= v => r <= q
AtMost(a, b) == IF a < b THEN a ELSE b
AtLeastOf(a, b) == IF a > b THEN a ELSE b

Blanked(f, from, n) ==
  [i \in DOMAIN f |-> IF i > from /\ i <= from + n THEN Zero ELSE f[i]]
Without(f, from, n) == SubSeq(f, 1, from) \o SubSeq(f, from + n + 1, Len(f))

TminInit ==
  /\ tminStage = "off" /\ program \in Programs /\ original \in Originals
  /\ in_data = original /\ tmp_buf = original /\ orig_run = [end |-> "none", trace |-> 0]
  /\ exact_mode \in BOOLEAN
  /\ at = 0 /\ blockLen = 1 /\ prev_del = TRUE /\ changed_any = FALSE /\ cur_pass = 0
  /\ alphabet = {} /\ out_file = NotWritten /\ rejected = {}

Inputs == <<program, original, exact_mode>>

(* The dry run; the files the program reads and the trace map are set up   *)
(* before.  A hang ends the tool, and so does an empty trace.              *)
DryRunOriginal ==
  /\ tminStage = "off"
  /\ orig_run' = Ran(program, original)
  /\ tminStage' = IF orig_run'.end = "hang" THEN "failed" ELSE "normalize"
  /\ blockLen' = AtLeastOf(next_pow2(Len(original) \div SetSteps), SetMinSize)
  /\ UNCHANGED <<Inputs, in_data, tmp_buf, at, prev_del, changed_any, cur_pass, alphabet, out_file, rejected>>

Same == <<Inputs, orig_run, out_file>>

(* Stage 0: blocks of other bytes are overwritten with '0'. *)
Normalize ==
  /\ tminStage = "normalize" /\ at < Len(in_data)
  /\ LET n == AtMost(blockLen, Len(in_data) - at)
         try == Blanked(in_data, at, n)
     IN in_data' = IF try # in_data /\ Kept(try) THEN try ELSE in_data
  /\ at' = at + blockLen
  /\ UNCHANGED <<Same, tminStage, tmp_buf, blockLen, prev_del, changed_any, cur_pass, alphabet, rejected>>

BlockPass(n, stage) ==
  /\ tminStage' = stage /\ at' = 0 /\ prev_del' = TRUE /\ rejected' = {}
  /\ blockLen' = n

StartPass ==
  /\ BlockPass(next_pow2(Len(in_data) \div StartSteps), "delete")
  /\ changed_any' = FALSE /\ cur_pass' = cur_pass + 1

EndNormalize ==
  /\ tminStage = "normalize" /\ at >= Len(in_data)
  /\ StartPass
  /\ UNCHANGED <<Same, in_data, tmp_buf, alphabet>>

\* Mutant: a block is passed over even if the one before it was removed.
Repeats_Always ==
  /\ at >= blockLen /\ at + blockLen < Len(in_data)
  /\ \A i \in 1 .. blockLen : in_data[at - blockLen + i] = in_data[at + i]

(* Stage 1.  A block equal to the one before it, which could not be        *)
(* removed, is passed over.                                                *)
Repeats ==
  /\ ~prev_del /\ at + blockLen < Len(in_data)
  /\ \A i \in 1 .. blockLen : in_data[at - blockLen + i] = in_data[at + i]

SkipBlock ==
  /\ tminStage = "delete" /\ at < Len(in_data) /\ Repeats
  /\ at' = at + blockLen
  /\ UNCHANGED <<Same, tminStage, in_data, tmp_buf, blockLen, prev_del, changed_any, cur_pass, alphabet, rejected>>

DeleteBlockTry ==
  /\ tminStage = "delete" /\ at < Len(in_data) /\ ~Repeats
  /\ tmp_buf' = Without(in_data, at, blockLen)
  /\ IF Kept(tmp_buf')
     THEN in_data' = tmp_buf' /\ prev_del' = TRUE /\ changed_any' = TRUE /\ UNCHANGED <<at, rejected>>
     ELSE /\ at' = at + blockLen /\ prev_del' = FALSE /\ rejected' = rejected \cup {tmp_buf'}
          /\ UNCHANGED <<in_data, changed_any>>
  /\ UNCHANGED <<Same, tminStage, blockLen, cur_pass, alphabet>>

EndDelete ==
  /\ tminStage = "delete" /\ at >= Len(in_data)
  /\ IF blockLen > 1 /\ in_data # <<>>
     THEN BlockPass(blockLen \div 2, "delete") /\ UNCHANGED <<tmp_buf, alphabet, cur_pass, changed_any>>
     ELSE IF cur_pass > 1 /\ ~changed_any
     THEN tminStage' = "done" /\ UNCHANGED <<at, blockLen, prev_del, tmp_buf, alphabet, cur_pass, changed_any, rejected>>
     ELSE /\ BlockPass(1, "alphabet") /\ alphabet' = SymbolsOf(in_data) \ {Zero}
          /\ UNCHANGED <<tmp_buf, cur_pass, changed_any>>
  /\ UNCHANGED <<Same, in_data>>

(* Stage 2: every symbol that the file had when the stage began. *)
ReplaceSymbol(s) ==
  /\ tminStage = "alphabet" /\ s \in alphabet
  /\ alphabet' = alphabet \ {s}
  /\ tmp_buf' = [i \in DOMAIN in_data |-> IF in_data[i] = s THEN Zero ELSE in_data[i]]
  /\ IF Kept(tmp_buf') THEN in_data' = tmp_buf' /\ changed_any' = TRUE
                       ELSE UNCHANGED <<in_data, changed_any>>
  /\ UNCHANGED <<Same, tminStage, at, blockLen, prev_del, cur_pass, rejected>>

EndAlphabet ==
  /\ tminStage = "alphabet" /\ alphabet = {}
  /\ tminStage' = "chars" /\ at' = 0 /\ tmp_buf' = in_data
  /\ UNCHANGED <<Same, in_data, blockLen, prev_del, changed_any, cur_pass, alphabet, rejected>>

(* Stage 3: byte by byte in tmp_buf, which follows in_data. *)
ReplaceByte ==
  /\ tminStage = "chars" /\ at < Len(in_data)
  /\ at' = at + 1
  /\ LET try == [tmp_buf EXCEPT ![at + 1] = Zero]
     IN IF tmp_buf[at + 1] # Zero /\ Kept(try)
        THEN tmp_buf' = try /\ in_data' = [in_data EXCEPT ![at + 1] = Zero] /\ changed_any' = TRUE
        ELSE UNCHANGED <<tmp_buf, in_data, changed_any>>
  /\ UNCHANGED <<Same, tminStage, blockLen, prev_del, cur_pass, alphabet, rejected>>

EndChars ==
  /\ tminStage = "chars" /\ at >= Len(in_data)
  /\ IF changed_any THEN StartPass
     ELSE tminStage' = "done" /\ UNCHANGED <<at, blockLen, prev_del, changed_any, cur_pass, rejected>>
  /\ UNCHANGED <<Same, in_data, tmp_buf, alphabet>>

WriteOutput ==
  /\ tminStage = "done" /\ out_file = NotWritten
  /\ out_file' = in_data
  /\ UNCHANGED <<Inputs, orig_run, tminStage, in_data, tmp_buf, at, blockLen, prev_del, changed_any,
                 cur_pass, alphabet, rejected>>

(* handle_stop_sig: the run under way ends, in_data is written. *)
StopTmin ==
  /\ tminStage \in {"normalize", "delete", "alphabet", "chars"}
  /\ out_file' = in_data /\ tminStage' = "failed"
  /\ UNCHANGED <<Inputs, orig_run, in_data, tmp_buf, at, blockLen, prev_del, changed_any, cur_pass,
                 alphabet, rejected>>

Minimize ==
  \/ DryRunOriginal \/ Normalize \/ EndNormalize \/ SkipBlock \/ DeleteBlockTry \/ EndDelete
  \/ (\E s \in alphabet : ReplaceSymbol(s)) \/ EndAlphabet \/ ReplaceByte \/ EndChars \/ WriteOutput
TminNext == Minimize \/ StopTmin
TminSpec == TminInit /\ [][TminNext]_tminVars /\ WF_tminVars(Minimize)

-----------------------------------------------------------------------------
(* What is written, at the end or after Ctrl-C, makes the program behave   *)
(* as the original did, and is not longer; a block is passed over only     *)
(* when removing it gives a file that was refused already.                 *)
OutputBehaves ==
  /\ out_file # NotWritten => Kept(out_file) /\ Len(out_file) <= Len(original)
  /\ tminStage = "delete" /\ at < Len(in_data) /\ Repeats => Without(in_data, at, blockLen) \in rejected

(* No single byte of the result can be removed. *)
DeletionMinimal ==
  tminStage = "done" =>
    \A i \in DOMAIN in_data : ~Kept(Without(in_data, i - 1, 1))

(* The passes come to an end. *)
TminEnds == <>(tminStage \in {"done", "failed"})

(* Minimization is right: it keeps the behaviour, and what it leaves cannot
   lose a byte (src/afl-tmin.c:423-645).                                   *)
TminRight == OutputBehaves /\ DeletionMinimal
=============================================================================
