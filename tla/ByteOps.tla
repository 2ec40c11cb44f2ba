------------------------------- MODULE ByteOps -------------------------------
(***************************************************************************)
(* Which values the deterministic stages leave out because an earlier stage *)
(* has produced them (could_be_bitflip, could_be_arith, could_be_interest; *)
(* src/afl-fuzz.c:5205-5380), on bytes and on words of two bytes, compared *)
(* with the values those stages do produce.  A word is the sequence of its *)
(* bytes in the order of the file; a difference of two words is the set of *)
(* bits, numbered as in the little-endian integer, in which they differ.   *)
(***************************************************************************)
EXTENDS Integers, Sequences, FiniteSets

CONSTANTS
  ARITH_LIMIT,     \* ARITH_MAX
  INTERESTING_8,   \* the bytes, as unsigned values
  INTERESTING_16,  \* the words, as unsigned values (they include the bytes)
  ByteSample,      \* bytes tried on their own
  WordSample       \* words tried

WordSize == 256 * 256
ASSUME ByteOpsAssumption ==
  /\ ARITH_LIMIT \in 0..255
  /\ INTERESTING_8 \subseteq 0..255 /\ INTERESTING_16 \subseteq 0 .. WordSize - 1
  /\ ByteSample \subseteq 0..255 /\ WordSample \subseteq 0 .. WordSize - 1

VARIABLE word      \* the bytes that the stages look at: one or two of them

ByteOpsInit == word = <<>>

PickByte(b)  == word' = <<b>>
PickWord(v)  == word' = <<v % 256, v \div 256>>

ByteOpsNext == (\E b \in ByteSample : PickByte(b)) \/ (\E v \in WordSample : PickWord(v))
ByteOpsSpec == ByteOpsInit /\ [][ByteOpsNext]_word

LE(v) == <<v % 256, v \div 256>>
BE(v) == <<v \div 256, v % 256>>
ValueLE(w) == IF Len(w) = 1 THEN w[1] ELSE w[1] + 256 * w[2]
ValueBE(w) == IF Len(w) = 1 THEN w[1] ELSE w[2] + 256 * w[1]
Plus(a, b, size) == (a + b) % size

Weight == <<1, 2, 4, 8, 16, 32, 64, 128>>
BitSet(byte) == {k \in 0..7 : (byte \div Weight[k + 1]) % 2 = 1}
XorByte(a, b) ==
  UNION { {8 * (i - 1) + k : k \in (BitSet(a[i]) \ BitSet(b[i])) \cup (BitSet(b[i]) \ BitSet(a[i]))}
          : i \in 1..Len(a) }

(***************************************************************************)
(* The code's tests.                                                       *)
(***************************************************************************)
could_be_bitflip(diff) ==
  \/ diff = {}
  \/ \E sh \in diff :
       /\ \A b \in diff : sh <= b
       /\ \/ {b - sh : b \in diff} \in {0..0, 0..1, 0..3}
          \/ sh % 8 = 0 /\ {b - sh : b \in diff} \in {0..7, 0..15, 0..31}

\* Mutant: the arithmetic stages are taken to go one step further.
Near_Wide(a, b, size) == Plus(a, size - b, size) <= ARITH_LIMIT + 1
                      \/ Plus(b, size - a, size) <= ARITH_LIMIT + 1

Near(a, b, size) == Plus(a, size - b, size) <= ARITH_LIMIT
                 \/ Plus(b, size - a, size) <= ARITH_LIMIT

could_be_arith(old, new) ==
  \/ old = new
  \/ \E i \in 1..Len(old) :
       /\ \A k \in 1..Len(old) \ {i} : old[k] = new[k]
       /\ Near(old[i], new[i], 256)
  \/ /\ Len(old) = 2
     /\ Near(ValueLE(old), ValueLE(new), WordSize) \/ Near(ValueBE(old), ValueBE(new), WordSize)

could_be_interest(old, new, checkLE) ==
  \/ old = new
  \/ \E i \in 1..Len(old), v \in INTERESTING_8 : new = [old EXCEPT ![i] = v]
  \/ Len(old) = 2 /\ checkLE /\ \E v \in INTERESTING_16 : new = LE(v)

(***************************************************************************)
(* What the stages produce, from the loops of fuzz_one: walking bits go    *)
(* through the file from the highest bit of each byte to the lowest.       *)
(***************************************************************************)
FileBit(f) == 8 * (f \div 8) + (7 - (f % 8))
Walk(a, l) == {FileBit(f) : f \in a .. a + l - 1}
Flips(w) ==
  LET n == 8 * Len(w)
  IN {Walk(p[1], p[2]) : p \in {q \in (0 .. n - 1) \X {1, 2, 4} : q[1] + q[2] <= n}}
     \cup {0..7} \cup (IF Len(w) = 2 THEN {8..15, 0..15} ELSE {})
Flipped(w, v) == XorByte(w, v) \in Flips(w)

Steps == (1..ARITH_LIMIT)
Added8(w) == UNION { {[w EXCEPT ![i] = Plus(w[i], j, 256)],
                      [w EXCEPT ![i] = Plus(w[i], 256 - j, 256)]} : i \in 1..Len(w), j \in Steps }

(* The words of arith 16/8 with value j, and the condition under which each
   is run: a carry or borrow into the other byte, and no bit flip.         *)
ArithLoop16(w, j) ==
  { [v |-> LE(Plus(ValueLE(w), j, WordSize)),         moves |-> w[1] + j > 255],
    [v |-> LE(Plus(ValueLE(w), WordSize - j, WordSize)), moves |-> w[1] < j],
    [v |-> BE(Plus(ValueBE(w), j, WordSize)),         moves |-> w[2] + j > 255],
    [v |-> BE(Plus(ValueBE(w), WordSize - j, WordSize)), moves |-> w[2] < j] }
RunsArith(w, c) == c.moves /\ ~could_be_bitflip(XorByte(w, c.v))
Added16(w) == {c.v : c \in {d \in UNION {ArithLoop16(w, j) : j \in Steps} : RunsArith(w, d)}}

(* The interesting values, and which of them are run.                      *)
RunsInt8(w, i, x) ==
  LET v == [w EXCEPT ![i] = x]
  IN ~could_be_bitflip(XorByte(w, v)) /\ ~could_be_arith(<<w[i]>>, <<x>>)
RunsInt16(w, v, be) ==
  /\ ~could_be_bitflip(XorByte(w, v)) /\ ~could_be_arith(w, v)
  /\ ~could_be_interest(w, v, be)
Set8(w) == {[w EXCEPT ![p[1]] = p[2]] :
              p \in {q \in (1..Len(w)) \X INTERESTING_8 : RunsInt8(w, q[1], q[2])}}
Set16LE(w) == {LE(x) : x \in {y \in INTERESTING_16 : RunsInt16(w, LE(y), FALSE)}}

(***************************************************************************)
(* Properties.                                                             *)
(***************************************************************************)
(* A bit pattern over the border of two bytes is consecutive in the integer *)
(* but not in the file: could_be_bitflip takes it for a flip although no   *)
(* stage produces it.  These values are lost; they are the only ones.      *)
Straddles(d) == (\E b \in d : b < 8) /\ (\E b \in d : b > 7) /\ d # 0..15
Lost(w, v) == Straddles(XorByte(w, v)) /\ could_be_bitflip(XorByte(w, v))

Earlier8(w, v)  == Flipped(w, v) \/ v \in Added8(w)
Earlier16(w, v) == Earlier8(w, v) \/ v \in Added16(w) \/ v \in Set8(w) \/ v = w

(* On one byte the tests are exact for flips; and every value a stage skips,
   on a byte or a word, was run by an earlier stage or by an earlier step of
   the same one, except the values over the border of two bytes.           *)
SkipsAreRepeats ==
  /\ Len(word) = 1 =>
       /\ \A x \in 0..255 \ {word[1]} : could_be_bitflip(XorByte(word, <<x>>)) => Flipped(word, <<x>>)
       /\ \A x \in INTERESTING_8 : ~RunsInt8(word, 1, x) => Earlier8(word, <<x>>) \/ <<x>> = word
  /\ Len(word) = 2 =>
       /\ \A j \in Steps : \A c \in ArithLoop16(word, j) :
            ~RunsArith(word, c) => Earlier8(word, c.v) \/ Lost(word, c.v)
       /\ \A x \in INTERESTING_16 :
            /\ ~RunsInt16(word, LE(x), FALSE) => Earlier16(word, LE(x)) \/ Lost(word, LE(x))
            /\ ~RunsInt16(word, BE(x), TRUE) =>
                 Earlier16(word, BE(x)) \/ BE(x) \in Set16LE(word) \/ Lost(word, BE(x))
==============================================================================
