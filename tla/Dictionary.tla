------------------------------ MODULE Dictionary ------------------------------
(***************************************************************************)
(* The dictionaries: the user's tokens (load_extras, load_extras_file) and *)
(* the tokens found while fuzzing (maybe_add_auto), which are saved in the *)
(* output directory and loaded again by the next session (save_auto,       *)
(* load_auto, destroy_extras; src/afl-fuzz.c:1862-2319).                   *)
(*                                                                         *)
(* A token is [word, cap, len]: words with the same text up to case have   *)
(* the same "word"; cap tells their spellings apart.                       *)
(***************************************************************************)
EXTENDS Integers, Sequences, FiniteSets, SequencesExt

CONSTANTS
  FoundTokens,     \* tokens that flip1 can hand over
  DictLines,       \* lines of a dictionary file: [kind, level, token]
  MAX_AUTO_EXTRAS, USE_AUTO_EXTRAS,
  MaxHits          \* bound on hit_cnt

ASSUME DictionaryAssumption ==
  /\ USE_AUTO_EXTRAS \in Nat \ {0} /\ MAX_AUTO_EXTRAS \in Nat
  /\ MAX_AUTO_EXTRAS >= USE_AUTO_EXTRAS /\ MaxHits \in Nat
  /\ \A t \in FoundTokens : t.len \in Nat
  /\ IsFiniteSet(DictLines) /\ \A l \in DictLines : l.token.len \in Nat

VARIABLES
  dictPhase,       \* "start", "loaded", "fuzz", "dead"
  extras,          \* the user's tokens
  a_extras,        \* sequence of [tok, hit, early]: early: found before extras was loaded
  auto_changed,
  autoFiles        \* the files auto_000000, ... of the output directory

dictVars == <<dictPhase, extras, a_extras, auto_changed, autoFiles>>

DictInit == /\ dictPhase = "start" /\ extras = <<>> /\ a_extras = <<>>
            /\ auto_changed = FALSE /\ autoFiles = <<>>

Fewer(a, b) == IF a < b THEN a ELSE b
memcmp_nocase(t, u) == t.len = u.len /\ t.word = u.word

(* What qsort may return: an order of the same elements in which no element
   comes before one it should follow; equal ones stand in any order.       *)
Reordered(s) == {[i \in DOMAIN s |-> s[p[i]]] : p \in
                   {q \in [DOMAIN s -> DOMAIN s] : \A i, j \in DOMAIN s : q[i] = q[j] => i = j}}
ByLen(s)  == {r \in Reordered(s) : \A i, j \in DOMAIN r : i < j => r[i].len <= r[j].len}
ByUse(s)  == {r \in Reordered(s) : \A i, j \in DOMAIN r : i < j => r[i].hit >= r[j].hit}
TopByLen(s) ==
  LET n == Fewer(USE_AUTO_EXTRAS, Len(s))
      tops == {r \in Reordered(SubSeq(s, 1, n)) :
                 \A i, j \in DOMAIN r : i < j => r[i].tok.len <= r[j].tok.len}
  IN {r \o SubSeq(s, n + 1, Len(s)) : r \in tops}
\* Mutant: the tokens in use are left in the order of their hits.
sort_a_extras_ByUse(s) == ByUse(s)

sort_a_extras(s) == UNION {TopByLen(u) : u \in ByUse(s)}

(* maybe_add_auto: all tables that can result from token t.  The user's
   tokens are searched from the first of at least that length on, as they
   are sorted.                                                             *)
Known(t) ==
  \E i \in DOMAIN extras :
    /\ memcmp_nocase(extras[i], t)
    /\ \A j \in DOMAIN extras : j < i /\ extras[j].len >= t.len =>
         \A k \in j..i : extras[k].len = t.len

Added(table, t, early) ==
  LET same == {i \in DOMAIN table : memcmp_nocase(table[i].tok, t)}
      new  == [tok |-> t, hit |-> 0, early |-> early]
  IN IF same # {}
     THEN LET i == CHOOSE k \in same : \A m \in same : k <= m
          IN sort_a_extras([table EXCEPT ![i].hit = Fewer(@ + 1, MaxHits)])
     ELSE IF Len(table) < MAX_AUTO_EXTRAS
     THEN sort_a_extras(Append(table, new))
     ELSE UNION {sort_a_extras([table EXCEPT ![i + 1] = new]) :
                 i \in (MAX_AUTO_EXTRAS \div 2) ..
                       (MAX_AUTO_EXTRAS \div 2 + (MAX_AUTO_EXTRAS + 1) \div 2 - 1)}

(* load_auto: the files are read in order up to the first one missing; a
   restarted session has them in its input directory.                      *)
LoadedFrom(files) ==
  LET tables[n \in 0..Len(files)] ==
        IF n = 0 THEN {<<>>} ELSE UNION {Added(t, files[n], TRUE) : t \in tables[n - 1]}
  IN tables[Len(files)]

LoadAuto ==
  /\ dictPhase = "start"
  /\ a_extras' \in LoadedFrom(autoFiles)
  /\ auto_changed' = (autoFiles # <<>>)
  /\ dictPhase' = "loaded"
  /\ UNCHANGED <<extras, autoFiles>>

(* The end of load_extras: a dictionary without a usable token ends the
   fuzzer, as does whatever was found wrong with it; otherwise it is sorted. *)
Loaded(used, bad) ==
  /\ dictPhase = "loaded"
  /\ IF bad \/ used = {}
     THEN dictPhase' = "dead" /\ UNCHANGED extras
     ELSE /\ dictPhase' = "fuzz"
          /\ extras' \in ByLen(SetToSeq({l.token : l \in used}))
  /\ UNCHANGED <<a_extras, auto_changed, autoFiles>>

(* load_extras_file: lines above the level are left out before their text is
   looked at, malformed ones are noticed first.                            *)
LoadExtras(lines, level) ==
  Loaded({l \in lines : l.kind = "token" /\ l.level <= level},
         \E l \in lines : l.kind = "malformed" \/ (l.kind = "long" /\ l.level <= level))

(* A directory: every regular file that is not empty is a token.           *)
LoadExtrasDir(files) ==
  Loaded({f \in files : f.kind = "token"}, \E f \in files : f.kind = "long")

NoExtras == dictPhase = "loaded" /\ dictPhase' = "fuzz"
            /\ UNCHANGED <<extras, a_extras, auto_changed, autoFiles>>

maybe_add_auto(t) ==
  /\ dictPhase = "fuzz" /\ ~Known(t)
  /\ a_extras' \in Added(a_extras, t, FALSE)
  /\ auto_changed' = TRUE
  /\ UNCHANGED <<dictPhase, extras, autoFiles>>

save_auto ==
  /\ dictPhase = "fuzz" /\ auto_changed
  /\ auto_changed' = FALSE
  /\ autoFiles' = [i \in 1..Fewer(USE_AUTO_EXTRAS, Len(a_extras)) |-> a_extras[i].tok]
  /\ UNCHANGED <<dictPhase, extras, a_extras>>

(* The session ends, killed or with destroy_extras; another one goes on
   from its output directory.                                              *)
EndSession ==
  /\ dictPhase = "fuzz"
  /\ dictPhase' = "start" /\ extras' = <<>> /\ a_extras' = <<>>
  /\ auto_changed' = FALSE
  /\ UNCHANGED autoFiles

DictNext ==
  \/ LoadAuto \/ NoExtras \/ save_auto \/ EndSession
  \/ \E ls \in SUBSET DictLines, lev \in {0, 1} : LoadExtras(ls, lev)
  \/ \E fs \in SUBSET DictLines : LoadExtrasDir(fs)
  \/ \E t \in FoundTokens : maybe_add_auto(t)

DictSpec == DictInit /\ [][DictNext]_dictVars

(***************************************************************************)
(* Properties.                                                             *)
(***************************************************************************)
(* The tokens used by the stages and saved are the ones hit most, ordered by
   length as the token stages need it; no token is there twice in another
   spelling, and none found after the dictionary was read repeats one of the
   user's.                                                                 *)
AutoTableRight ==
  LET n == Fewer(USE_AUTO_EXTRAS, Len(a_extras))
  IN /\ \A i \in 1..n : \A j \in n + 1 .. Len(a_extras) : a_extras[i].hit >= a_extras[j].hit
     /\ \A i, j \in 1..n : i < j => a_extras[i].tok.len <= a_extras[j].tok.len
     /\ \A i, j \in DOMAIN a_extras : i # j => ~memcmp_nocase(a_extras[i].tok, a_extras[j].tok)
     /\ \A i \in DOMAIN a_extras : ~a_extras[i].early =>
          \A j \in DOMAIN extras : ~memcmp_nocase(extras[j], a_extras[i].tok)

(* What a session saved the next one has: no saved token is lost or changed
   by a restart.                                                           *)
RestartKeepsTokens ==
  dictPhase = "loaded" => {a_extras[i].tok : i \in DOMAIN a_extras} = ToSet(autoFiles)

(* The table of auto tokens is right at all times, and so is what is left
   of it by a restart (src/afl-fuzz.c:2016-2300).                          *)
DictionaryRight == AutoTableRight /\ RestartKeepsTokens
==============================================================================
