------------------------------ MODULE JobsProof -----------------------------
(***************************************************************************)
(* Proofs about the parts that prepare or check one thing and end:         *)
(* trimming a seed, afl-tmin, afl-analyze, a run under afl-showmap, the CPU *)
(* check of afl-gotcpu, the build of an instrumented program, the scan of  *)
(* its assembly and the command line it is started with.  Each has an      *)
(* invariant that says where its control can be and what its state means   *)
(* there; the property the runs check follows from it.                     *)
(***************************************************************************)
EXTENDS Trim, Tmin, ToolRun, Build, Launch, AsScan, Analyze,
        FiniteSetTheorems, SequenceTheorems, WellFoundedInduction, TLAPS

-----------------------------------------------------------------------------
(* Trimming.                                                               *)

Original == 0 .. trim.whole - 1

(* The seed in memory keeps what the trace depends on; the file does too,  *)
(* and it is linked to the input only as long as it was not replaced.      *)
Faithful ==
  /\ names \in [input : {1}, queue : {0, 1, 2}]
  /\ DOMAIN inode = {1, 2}
  /\ DOMAIN trim = {"remove_len", "remove_pos", "len_p2", "needs_write", "whole"}
  /\ trimPhase # "pick" =>
       /\ inode[1] = Original /\ needed \subseteq Original /\ needed \subseteq in_buf
       /\ trimPhase = "write" => names.queue = 2
       /\ ~Replacing => names.queue # 0 /\ needed \subseteq inode[names.queue]

-----------------------------------------------------------------------------
LEMMA TrimInitInv == TrimInit => Faithful
  BY DEF TrimInit, Faithful, NoTrim, Replacing

(* A seed that enters, whatever its trace depends on. *)
LEMMA StartKeeps ==
  ASSUME NEW len \in 1 .. MaxLen, NEW ess \in SUBSET (0 .. len - 1), NEW l \in BOOLEAN,
         Faithful, StartTrim(len, ess, l)
  PROVE  Faithful'
<1>1. /\ needed' = ess /\ in_buf' = 0 .. len - 1
      /\ names' = [input |-> 1, queue |-> IF l THEN 1 ELSE 2]
      /\ inode' = [n \in 1..2 |-> 0 .. len - 1]
      /\ trimPhase' \in {"done", "rounds"}
  BY DEF StartTrim
<1>2. trim'.whole = len
      /\ DOMAIN trim' = {"remove_len", "remove_pos", "len_p2", "needs_write", "whole"}
  BY DEF StartTrim
<1>3. DOMAIN inode' = {1, 2} /\ inode'[1] = 0 .. len - 1 /\ inode'[2] = 0 .. len - 1
  BY <1>1
<1> QED BY <1>1, <1>2, <1>3 DEF Faithful, Original, Replacing

(* A block is dropped only if the trace stays what it was. *)
LEMMA TryKeeps == Faithful /\ TryWithout => Faithful'
<1> SUFFICES ASSUME Faithful, TryWithout PROVE Faithful'
  OBVIOUS
<1> DEFINE rest == in_buf \ Gap(in_buf, trim.remove_pos, trim.remove_len)
<1>1. /\ trimPhase = "walk" /\ UNCHANGED <<trimPhase, needed, names, inode>>
      /\ \/ in_buf' = rest /\ Trace(rest) = Trace(in_buf)
         \/ in_buf' = in_buf
  BY DEF TryWithout
<1>2. trim'.whole = trim.whole /\ DOMAIN trim' = DOMAIN trim
  BY DEF TryWithout, Faithful
<1> HIDE DEF rest
<1>3. needed \subseteq in_buf'
  BY <1>1 DEF Faithful, Trace
<1> QED BY <1>1, <1>2, <1>3 DEF Faithful, Original, Replacing

(* The file is replaced by a new one, never written through a link. *)
LEMMA ReplaceKeeps == Faithful /\ (UnlinkSeed \/ CreateSeed \/ WriteSeed) => Faithful'
<1> USE DEF Replacing
<1>1. ASSUME Faithful, UnlinkSeed PROVE Faithful'
  BY <1>1 DEF UnlinkSeed, Faithful, Original, Replacing
<1>2. ASSUME Faithful, CreateSeed PROVE Faithful'
  <2>1. /\ names' \in [input : {1}, queue : {0, 1, 2}]
        /\ trimPhase = "create" /\ trimPhase' \in {"write", "fatal"}
        /\ trimPhase' = "write" => names'.queue = 2
        /\ inode'[1] = inode[1] /\ DOMAIN inode' = {1, 2}
    BY <1>2 DEF CreateSeed, Faithful
  <2> QED BY <1>2, <2>1 DEF CreateSeed, Faithful, Original, Replacing
<1>3. ASSUME Faithful, WriteSeed PROVE Faithful'
  <2>1. PICK n : /\ inode' = [inode EXCEPT ![2] = Gap(in_buf, 0, n)]
                 /\ trimPhase' = IF Gap(in_buf, 0, n) = in_buf THEN "done" ELSE "fatal"
    BY <1>3 DEF WriteSeed, Faithful
  <2>2. /\ names.queue = 2 /\ UNCHANGED <<needed, in_buf, trim, names>>
        /\ inode'[1] = inode[1] /\ inode'[2] = Gap(in_buf, 0, n) /\ DOMAIN inode' = {1, 2}
    BY <1>3, <2>1 DEF WriteSeed, Faithful
  <2> QED BY <1>3, <2>1, <2>2 DEF WriteSeed, Faithful, Original, Replacing
<1> QED BY <1>1, <1>2, <1>3

(* The other steps change neither the seed nor its files. *)
LEMMA RoundsKeep ==
  Faithful /\ (StartRound \/ EndRound \/ EndTrim \/ AbortTrim \/ NextSeed) => Faithful'
<1> SUFFICES ASSUME Faithful, StartRound \/ EndRound \/ EndTrim \/ AbortTrim \/ NextSeed
             PROVE  Faithful'
  OBVIOUS
<1>1. CASE StartRound
  BY <1>1 DEF StartRound, Faithful, Original, Replacing
<1>2. CASE EndRound
  BY <1>2 DEF EndRound, Faithful, Original, Replacing
<1>3. CASE EndTrim
  BY <1>3 DEF EndTrim, Faithful, Original, Replacing
<1>4. CASE AbortTrim
  BY <1>4 DEF AbortTrim, Faithful, Original, Replacing
<1>5. CASE NextSeed
  BY <1>5 DEF NextSeed, NoTrim, Faithful, Original, Replacing
<1> QED BY <1>1, <1>2, <1>3, <1>4, <1>5

(* The invariant is inductive. *)
LEMMA TrimStepInv == Faithful /\ [TrimNext]_trimVars => Faithful'
<1> SUFFICES ASSUME Faithful, [TrimNext]_trimVars PROVE Faithful'
  OBVIOUS
<1>1. ASSUME NEW len \in 1 .. MaxLen, NEW ess \in SUBSET (0 .. len - 1), NEW l \in BOOLEAN,
             StartTrim(len, ess, l)
      PROVE  Faithful'
  BY <1>1, StartKeeps
<1>2. CASE TryWithout
  BY <1>2, TryKeeps
<1>3. CASE UnlinkSeed \/ CreateSeed \/ WriteSeed
  BY <1>3, ReplaceKeeps
<1>4. CASE StartRound \/ EndRound \/ EndTrim \/ AbortTrim \/ NextSeed
  BY <1>4, RoundsKeep
<1>5. CASE UNCHANGED trimVars
  BY <1>5 DEF trimVars, Faithful, Original, Replacing
<1> QED BY <1>1, <1>2, <1>3, <1>4, <1>5 DEF TrimNext

(* TrimKeepsSeed: trim_case (src/afl-fuzz.c:4868-5003) leaves in the queue *)
(* file all that the trace depends on, at every moment but while the file  *)
(* is replaced, when the memory has it, and never writes into the file of  *)
(* the input directory that it may be a link to.                           *)
THEOREM TrimKeepsSeedHolds == TrimSpec => []TrimKeepsSeed
<1>1. TrimInit => Faithful
  BY TrimInitInv
<1>2. Faithful /\ [TrimNext]_trimVars => Faithful'
  BY TrimStepInv
<1>3. Faithful => TrimKeepsSeed
  BY DEF Faithful, Original, Replacing, TrimKeepsSeed
<1> QED BY <1>1, <1>2, <1>3, PTL DEF TrimSpec

-----------------------------------------------------------------------------
(* afl-tmin: what it writes is never longer and behaves as the original.   *)

\* What a byte of a file can be.
ByteKinds == STRING \cup {Zero}

LEMMA FilesOfBytes ==
  ASSUME NEW f \in Seq(STRING)
  PROVE  f \in Seq(ByteKinds) /\ Len(f) \in Nat
<1>1. Len(f) \in Nat /\ f \in [1 .. Len(f) -> STRING]
  BY LenProperties
<1>2. f \in [1 .. Len(f) -> ByteKinds]
  BY <1>1 DEF ByteKinds
<1> QED BY <1>1, <1>2

\* Sizes as numbers of bytes; how large they are does not matter below.
LEMMA Sizes ==
  /\ KB \in Nat \ {0} /\ MB \in Nat \ {0}
  /\ TMIN_MAX_FILE \in Nat \ {0} /\ TMIN_MAX_FILE < MB * 16
<1>1. KB \in Nat \ {0}
  BY DEF KB
<1>2. MB \in Nat \ {0}
  <2>1. \A x \in Nat \ {0} : x * x \in Nat \ {0}
    OBVIOUS
  <2> QED BY <1>1, <2>1 DEF MB
<1>3. TMIN_MAX_FILE = 10 * MB
  BY DEF TMIN_MAX_FILE
<1> QED BY <1>1, <1>2, <1>3

LEMMA PowersAreNumbers ==
  /\ Powers \subseteq Nat \ {0}
  /\ MB * 16 \in Powers
<1>1. \A p \in SmallPowers : p \in Nat \ {0}
  BY DEF SmallPowers
<1>2. \A x, y \in Nat \ {0} : x * y \in Nat \ {0}
  OBVIOUS
<1>3. \A p \in SmallPowers : KB * p \in Nat \ {0} /\ MB * p \in Nat \ {0}
  BY <1>1, <1>2, Sizes
<1>4. 16 \in SmallPowers
  BY DEF SmallPowers
<1> QED BY <1>1, <1>3, <1>4 DEF Powers

\* A set of numbers has a least one.
LEMMA LeastNumber ==
  ASSUME NEW T \in SUBSET Nat, T # {}
  PROVE  \E x \in T : \A y \in T : x <= y
<1> DEFINE R == OpToRel(<, Nat)
<1>1. IsWellFoundedOn(R, Nat)
  BY NatLessThanWellFounded
<1>2. \A x, y \in Nat : x < y => <<x, y>> \in R
  BY DEF OpToRel
<1> HIDE DEF R
<1>3. PICK x \in T : \A y \in T : ~(<<y, x>> \in R)
  BY <1>1, WFMin
<1>4. ASSUME NEW y \in T PROVE x <= y
  <2>1. x \in Nat /\ y \in Nat
    OBVIOUS
  <2>2. ~(y < x)
    BY <1>2, <1>3, <2>1
  <2> QED BY <2>1, <2>2
<1> QED BY <1>4

LEMMA NextPow2Type ==
  ASSUME NEW v \in 0 .. TMIN_MAX_FILE
  PROVE  next_pow2(v) \in Nat \ {0}
<1> DEFINE T == {r \in Powers : r >= v}
<1>2. MB * 16 \in T
  BY PowersAreNumbers, Sizes
<1>3. T \subseteq Nat
  BY PowersAreNumbers
<1>4. PICK x \in T : \A y \in T : x <= y
  <2> HIDE DEF T
  <2> QED BY <1>2, <1>3, LeastNumber
<1>6. \E r \in Powers : r >= v /\ \A q \in Powers : q >= v => r <= q
  BY <1>4
<1>7. next_pow2(v) \in Powers
  BY <1>6 DEF next_pow2
<1> QED BY <1>7, PowersAreNumbers

\* A block is removed: what the rest is.
LEMMA WithoutBlock ==
  ASSUME NEW f \in Seq(ByteKinds), NEW a \in Nat, a < Len(f), NEW n \in Nat \ {0}
  PROVE  /\ Without(f, a, n) \in Seq(ByteKinds)
         /\ Len(Without(f, a, n)) <= Len(f)
         /\ a + n <= Len(f) =>
              /\ Len(Without(f, a, n)) = Len(f) - n
              /\ \A j \in 1 .. a : Without(f, a, n)[j] = f[j]
              /\ \A j \in a + 1 .. Len(f) - n : Without(f, a, n)[j] = f[j + n]
<1> DEFINE L == Len(f)
           s == SubSeq(f, 1, a)
           m == a + n + 1
           t == SubSeq(f, m, L)
<1>1. L \in Nat /\ \A i \in 1 .. L : f[i] \in ByteKinds
  BY ElementOfSeq, LenProperties
<1> HIDE DEF L
<1>2. a < L
  BY DEF L
<1>3. s \in Seq(ByteKinds) /\ Len(s) = a /\ \A j \in 1 .. a : s[j] = f[j]
  <2>1. \A i \in 1 .. a : f[i] \in ByteKinds
    BY <1>1, <1>2
  <2>2. /\ s \in Seq(ByteKinds) /\ Len(s) = (IF 1 <= a THEN a - 1 + 1 ELSE 0)
        /\ \A j \in 1 .. a - 1 + 1 : s[j] = f[1 + j - 1]
    BY <2>1, SubSeqProperties
  <2> QED BY <2>2
<1>4. /\ t \in Seq(ByteKinds) /\ Len(t) = (IF m <= L THEN L - m + 1 ELSE 0)
      /\ \A j \in 1 .. L - m + 1 : t[j] = f[m + j - 1]
  <2>1. m \in Int /\ L \in Int /\ \A i \in m .. L : f[i] \in ByteKinds
    BY <1>1
  <2> HIDE DEF m
  <2> QED BY <2>1, SubSeqProperties
<1>5. Without(f, a, n) = s \o t
  BY DEF Without, L
<1> HIDE DEF s, t
<1>6. /\ s \o t \in Seq(ByteKinds) /\ Len(s \o t) = Len(s) + Len(t)
      /\ \A j \in 1 .. Len(s) + Len(t) : (s \o t)[j] = IF j <= Len(s) THEN s[j] ELSE t[j - Len(s)]
  BY <1>3, <1>4, ConcatProperties
<1>7. Len(s \o t) <= L
  BY <1>1, <1>2, <1>3, <1>4, <1>6
<1>8. ASSUME a + n <= L
      PROVE  /\ Len(s \o t) = L - n
             /\ \A j \in 1 .. a : (s \o t)[j] = f[j]
             /\ \A j \in a + 1 .. L - n : (s \o t)[j] = f[j + n]
  <2>1. Len(t) = L - a - n
    BY <1>1, <1>4, <1>8
  <2>2. Len(s \o t) = L - n
    BY <1>1, <1>3, <1>6, <2>1
  <2>3. ASSUME NEW j \in 1 .. a PROVE (s \o t)[j] = f[j]
    BY <1>1, <1>3, <1>6, <1>8, <2>1, <2>3
  <2>4. ASSUME NEW j \in a + 1 .. L - n PROVE (s \o t)[j] = f[j + n]
    <3>1. (s \o t)[j] = t[j - a] /\ j - a \in 1 .. L - m + 1
      BY <1>1, <1>3, <1>6, <1>8, <2>1, <2>4
    <3>2. t[j - a] = f[m + (j - a) - 1]
      BY <1>4, <3>1
    <3>3. m + (j - a) - 1 = j + n
      OBVIOUS
    <3> QED BY <3>1, <3>2, <3>3
  <2> QED BY <2>2, <2>3, <2>4
<1> QED BY <1>5, <1>6, <1>7, <1>8 DEF L

\* Two equal blocks in a row: without either of them the file is the same.
LEMMA EqualBlocks ==
  ASSUME NEW f \in Seq(ByteKinds), NEW a \in Nat, NEW n \in Nat \ {0},
         n <= a, a + n <= Len(f),
         \A i \in 1 .. n : f[a - n + i] = f[a + i]
  PROVE  Without(f, a - n, n) = Without(f, a, n)
<1> DEFINE u == Without(f, a - n, n)
           v == Without(f, a, n)
           b == a - n
<1>1. Len(f) \in Nat
  BY LenProperties
<1>2. b \in Nat /\ b < Len(f) /\ b + n <= Len(f)
  BY <1>1
<1>a. CASE a < Len(f)
  <2>1. /\ v \in Seq(ByteKinds) /\ Len(v) = Len(f) - n
        /\ \A j \in 1 .. a : v[j] = f[j]
        /\ \A j \in a + 1 .. Len(f) - n : v[j] = f[j + n]
    BY <1>a, WithoutBlock
  <2>2. /\ Without(f, b, n) \in Seq(ByteKinds) /\ Len(Without(f, b, n)) = Len(f) - n
        /\ \A j \in 1 .. b : Without(f, b, n)[j] = f[j]
        /\ \A j \in b + 1 .. Len(f) - n : Without(f, b, n)[j] = f[j + n]
    <3> HIDE DEF b
    <3> QED BY <1>2, WithoutBlock
  <2>3. ASSUME NEW j \in 1 .. Len(f) - n PROVE u[j] = v[j]
    <3>1. CASE j <= b
      BY <1>1, <2>1, <2>2, <3>1
    <3>2. CASE j > b /\ j <= a
      <4>0. j \in b + 1 .. Len(f) - n /\ j \in 1 .. a
        BY <1>1, <1>2, <3>2
      <4>1. u[j] = f[j + n] /\ v[j] = f[j]
        BY <2>1, <2>2, <4>0
      <4>2. j - b \in 1 .. n /\ a - n + (j - b) = j /\ a + (j - b) = j + n
        BY <3>2
      <4>3. f[a - n + (j - b)] = f[a + (j - b)]
        BY <4>2
      <4> QED BY <4>1, <4>2, <4>3
    <3>3. CASE j > a
      <4>1. j \in a + 1 .. Len(f) - n /\ j \in b + 1 .. Len(f) - n
        BY <1>1, <3>3
      <4> QED BY <2>1, <2>2, <4>1
    <3> QED BY <3>1, <3>2, <3>3
  <2> HIDE DEF v
  <2>4. u \in Seq(ByteKinds) /\ Len(u) = Len(f) - n
    BY <2>2
  <2> HIDE DEF u
  <2> QED BY <2>1, <2>3, <2>4, SeqEqual DEF u, v
<1> QED BY <1>1, <1>a

\* The block that is passed over in the second stage.
LEMMA RepeatedBlock ==
  ASSUME Repeats, in_data \in Seq(ByteKinds), at \in Nat, blockLen \in Nat \ {0},
         blockLen <= at, at + blockLen < Len(in_data), Len(in_data) \in Nat
  PROVE  Without(in_data, at - blockLen, blockLen) = Without(in_data, at, blockLen)
<1>1. \A i \in 1 .. blockLen : in_data[at - blockLen + i] = in_data[at + i]
  BY DEF Repeats
<1>2. at + blockLen <= Len(in_data)
  OBVIOUS
<1> QED BY <1>1, <1>2, EqualBlocks

-----------------------------------------------------------------------------
\* run_target's verdict on file f, as a function of what it depends on.
KeptBy(p, o, e, f) ==
  LET r == Ran(p, f)
  IN CASE r.end = "hang" -> FALSE
       [] r.end = "crash" -> o.end = "crash" /\ (e => r.trace = o.trace)
       [] OTHER -> o.end = "exit" /\ r.trace = o.trace

\* A file with which the program still behaves as with the original, and one
\* that cannot lose a byte.
Good(f) == KeptBy(program, orig_run, exact_mode, f)
Minimal(f) == \A i \in DOMAIN f : ~Good(Without(f, i - 1, 1))

TminTypes ==
  /\ tminStage \in {"off", "dry", "normalize", "delete", "alphabet", "chars", "done", "failed"}
  /\ program \in Programs /\ original \in Originals
  /\ in_data \in Seq(ByteKinds) /\ tmp_buf \in Seq(ByteKinds)
  /\ Len(in_data) <= Len(original)
  /\ at \in Nat /\ blockLen \in Nat \ {0}

\* What the file is, and what is written: it behaves as the original does.
StillBehaves ==
  /\ tminStage = "off" => in_data = original
  /\ tminStage \notin {"off", "failed"} => Good(in_data)
  /\ tminStage = "chars" => tmp_buf = in_data
  /\ out_file # NotWritten =>
        tminStage # "off" /\ Good(out_file) /\ Len(out_file) <= Len(original)

\* What a pass has found out about the blocks it did not remove.
PassedOver ==
  /\ \A f \in rejected : ~Good(f)
  /\ tminStage = "delete" =>
       /\ ~prev_del =>
            blockLen <= at /\ Without(in_data, at - blockLen, blockLen) \in rejected
       /\ blockLen = 1 /\ ~changed_any =>
            \A i \in 1 .. at : i <= Len(in_data) => ~Good(Without(in_data, i - 1, 1))

\* After the last pass that removes blocks.
PassDone ==
  /\ tminStage \in {"alphabet", "chars"} /\ ~changed_any => Minimal(in_data)
  /\ tminStage = "done" => Minimal(in_data)

\* The dry run rejects nothing, so that the set starts empty.
NoneRejected == tminStage = "off" => rejected = {}

\* The strengthened invariant of the minimizer.
TminInv == /\ TminTypes /\ StillBehaves /\ PassedOver /\ PassDone /\ NoneRejected

LEMMA KeptIsGood == \A f : Kept(f) <=> Good(f)
BY DEF Kept, Good, KeptBy

LEMMA SameVerdicts ==
  ASSUME UNCHANGED <<program, orig_run, exact_mode>>
  PROVE  \A f : Good(f)' <=> Good(f)
BY DEF Good

LEMMA RanEnds ==
  ASSUME NEW p \in Programs, NEW f
  PROVE  Ran(p, f).end \in {"exit", "crash", "hang"}
<1>1. p.kind \in {"sub", "even", "crash", "hang"}
  BY TminAssumption
<1>2. CASE p.kind = "sub"
  BY <1>2 DEF Ran
<1>3. CASE p.kind = "even"
  BY <1>3 DEF Ran
<1>4. CASE p.kind = "crash"
  BY <1>4 DEF Ran
<1>5. CASE p.kind = "hang"
  BY <1>5 DEF Ran
<1> QED BY <1>1, <1>2, <1>3, <1>4, <1>5

\* Block lengths: a part of the file, rounded up to a power of two.
LEMMA BlockLength ==
  ASSUME NEW n \in 0 .. TMIN_MAX_FILE, NEW k \in Nat \ {0}
  PROVE  next_pow2(n \div k) \in Nat \ {0}
<1>1. n \div k \in 0 .. TMIN_MAX_FILE
  BY Sizes
<1> QED BY <1>1, NextPow2Type

LEMMA FileLength ==
  ASSUME TminTypes
  PROVE  /\ original \in Seq(ByteKinds) /\ original # <<>>
         /\ Len(original) \in 0 .. TMIN_MAX_FILE /\ Len(in_data) \in 0 .. TMIN_MAX_FILE
<1>1. /\ original \in Seq(ByteKinds) /\ original # <<>> /\ Len(original) < TMIN_MAX_FILE
      /\ Len(original) \in Nat /\ Len(in_data) \in Nat /\ Len(in_data) <= Len(original)
  BY TminAssumption, FilesOfBytes, LenProperties DEF TminTypes
<1> QED BY <1>1, Sizes

LEMMA TminInvInit == TminInit => TminInv
<1> SUFFICES ASSUME TminInit PROVE TminInv
  OBVIOUS
<1>1. original \in Seq(ByteKinds) /\ Len(original) \in Nat
  BY TminAssumption, FilesOfBytes DEF TminInit
<1>2. TminTypes
  BY <1>1 DEF TminInit, TminTypes
<1> QED BY <1>2 DEF TminInit, TminInv, StillBehaves, PassedOver, PassDone, NoneRejected

LEMMA TminDryRun ==
  ASSUME TminInv, DryRunOriginal
  PROVE  TminInv'
<1>0. TminTypes /\ tminStage = "off" /\ in_data = original /\ rejected = {}
      /\ out_file = NotWritten
  BY DEF TminInv, StillBehaves, NoneRejected, DryRunOriginal
<1>1. /\ orig_run' = Ran(program, original)
      /\ tminStage' = IF orig_run'.end = "hang" THEN "failed" ELSE "normalize"
      /\ blockLen' = AtLeastOf(next_pow2(Len(original) \div SetSteps), SetMinSize)
      /\ UNCHANGED <<program, original, exact_mode, in_data, tmp_buf, at, prev_del,
                     changed_any, out_file, rejected>>
  BY DEF DryRunOriginal, Inputs
<1>2. blockLen' \in Nat \ {0}
  <2>1. next_pow2(Len(original) \div SetSteps) \in Nat \ {0} /\ SetMinSize \in Nat \ {0}
    BY <1>0, FileLength, BlockLength, TminAssumption
  <2> QED BY <1>1, <2>1 DEF AtLeastOf
<1>3. tminStage' = "normalize" => Good(in_data)'
  <2>1. Ran(program, original).end \in {"exit", "crash", "hang"}
    BY <1>0, RanEnds DEF TminTypes
  <2> QED BY <1>0, <1>1, <2>1 DEF Good, KeptBy
<1> QED BY <1>0, <1>1, <1>2, <1>3
        DEF TminInv, TminTypes, StillBehaves, PassedOver, PassDone, NoneRejected

\* The parts of the state that only the dry run sets.
LEMMA TminFixed ==
  ASSUME TminInv, TminNext, ~DryRunOriginal
  PROVE  /\ UNCHANGED <<program, original, exact_mode, orig_run>>
         /\ \A f : Good(f)' <=> Good(f)
         /\ tminStage \notin {"off", "failed"}
<1>1. UNCHANGED <<program, original, exact_mode, orig_run>>
  BY DEF TminNext, Minimize, Normalize, EndNormalize, SkipBlock, DeleteBlockTry, EndDelete,
         ReplaceSymbol, EndAlphabet, ReplaceByte, EndChars, WriteOutput, StopTmin, Same, Inputs
<1>2. tminStage \notin {"off", "failed"}
  BY DEF TminNext, Minimize, Normalize, EndNormalize, SkipBlock, DeleteBlockTry, EndDelete,
         ReplaceSymbol, EndAlphabet, ReplaceByte, EndChars, WriteOutput, StopTmin
<1> QED BY <1>1, <1>2, SameVerdicts

LEMMA TminNormalize ==
  ASSUME TminInv, Normalize
  PROVE  TminInv'
<1>0. /\ TminTypes /\ StillBehaves /\ PassedOver /\ tminStage = "normalize"
      /\ UNCHANGED <<program, original, exact_mode, orig_run>>
      /\ \A f : Good(f)' <=> Good(f)
  BY TminFixed DEF TminInv, Normalize, DryRunOriginal, TminNext, Minimize
<1> DEFINE n == AtMost(blockLen, Len(in_data) - at)
           try == Blanked(in_data, at, n)
<1>1. /\ in_data' = (IF try # in_data /\ Kept(try) THEN try ELSE in_data)
      /\ at' = at + blockLen
      /\ UNCHANGED <<tminStage, tmp_buf, blockLen, prev_del, changed_any, rejected, out_file>>
  BY DEF Normalize, Same
<1>2. try \in Seq(ByteKinds) /\ Len(try) = Len(in_data)
  <2>1. /\ in_data \in Seq(ByteKinds) /\ Len(in_data) \in Nat
        /\ \A i \in 1 .. Len(in_data) : in_data[i] \in ByteKinds
        /\ DOMAIN in_data = 1 .. Len(in_data)
    BY <1>0, LenProperties, ElementOfSeq DEF TminTypes
  <2> HIDE DEF n
  <2>2. try \in [1 .. Len(in_data) -> ByteKinds]
    BY <2>1 DEF Blanked, ByteKinds
  <2> HIDE DEF try
  <2> QED BY <2>1, <2>2, LenProperties
<1> HIDE DEF try
<1>3. /\ in_data' \in Seq(ByteKinds) /\ Len(in_data') = Len(in_data) /\ Good(in_data')
  BY <1>0, <1>1, <1>2, KeptIsGood DEF TminTypes, StillBehaves
<1>4. TminTypes'
  BY <1>0, <1>1, <1>3 DEF TminTypes
<1>5. Good(in_data)'
  BY <1>0, <1>3 DEF Good
<1>6. Good(out_file)' <=> Good(out_file)
  BY <1>0, <1>1 DEF Good
<1> QED BY <1>0, <1>1, <1>4, <1>5, <1>6
        DEF TminInv, StillBehaves, PassedOver, PassDone, NoneRejected

\* A new pass starts with nothing known of it.
LEMMA TminStartPass ==
  ASSUME TminInv, tminStage \notin {"off", "failed"}, StartPass,
         UNCHANGED <<Same, in_data, tmp_buf, alphabet>>
  PROVE  TminInv'
<1>0. /\ TminTypes /\ StillBehaves /\ PassedOver
      /\ UNCHANGED <<program, original, exact_mode, orig_run, out_file, in_data, tmp_buf>>
      /\ \A f : Good(f)' <=> Good(f)
  BY SameVerdicts DEF TminInv, Same, Inputs
<1>1. /\ tminStage' = "delete" /\ at' = 0 /\ prev_del' = TRUE /\ rejected' = {}
      /\ blockLen' = next_pow2(Len(in_data) \div StartSteps)
  BY DEF StartPass, BlockPass
<1>2. blockLen' \in Nat \ {0}
  <2>1. Len(in_data) \in 0 .. TMIN_MAX_FILE /\ StartSteps \in Nat \ {0}
    BY <1>0, FileLength, TminAssumption
  <2> QED BY <1>1, <2>1, BlockLength
<1>3. TminTypes'
  BY <1>0, <1>1, <1>2 DEF TminTypes
<1>4. StillBehaves'
  BY <1>0, <1>1 DEF StillBehaves, Good
<1>5. PassedOver'
  BY <1>1 DEF PassedOver
<1> QED BY <1>1, <1>3, <1>4, <1>5 DEF TminInv, PassDone, NoneRejected

LEMMA TminSkip ==
  ASSUME TminInv, SkipBlock
  PROVE  TminInv'
<1>0. /\ TminTypes /\ StillBehaves /\ PassedOver /\ tminStage = "delete"
      /\ UNCHANGED <<program, original, exact_mode, orig_run>>
      /\ \A f : Good(f)' <=> Good(f)
  BY TminFixed DEF TminInv, SkipBlock, DryRunOriginal, TminNext, Minimize
<1>1. /\ Repeats /\ at' = at + blockLen
      /\ UNCHANGED <<tminStage, in_data, tmp_buf, blockLen, prev_del, changed_any, rejected, out_file>>
  BY DEF SkipBlock, Same
<1>2. /\ in_data \in Seq(ByteKinds) /\ at \in Nat /\ blockLen \in Nat \ {0} /\ ~prev_del
      /\ blockLen <= at /\ at + blockLen < Len(in_data) /\ Len(in_data) \in Nat
      /\ Without(in_data, at - blockLen, blockLen) \in rejected
  BY <1>0, <1>1, LenProperties DEF TminTypes, PassedOver, Repeats
<1>3. Without(in_data, at, blockLen) \in rejected
  <2>1. Without(in_data, at - blockLen, blockLen) = Without(in_data, at, blockLen)
    BY <1>1, <1>2, RepeatedBlock
  <2> QED BY <1>2, <2>1
<1>4. TminTypes'
  BY <1>0, <1>1 DEF TminTypes
<1>5. StillBehaves'
  BY <1>0, <1>1 DEF StillBehaves, Good
<1>6. PassedOver'
  <2>1. \A f \in rejected' : ~Good(f)'
    BY <1>0, <1>1 DEF PassedOver
  <2>2. at' - blockLen' = at /\ blockLen' <= at'
    BY <1>1, <1>2
  <2>3. ASSUME blockLen = 1, ~changed_any, NEW j \in 1 .. at', j <= Len(in_data)
        PROVE  ~Good(Without(in_data, j - 1, 1))
    <3>1. CASE j <= at
      BY <1>0, <1>2, <2>3, <3>1 DEF PassedOver
    <3>2. CASE j = at + 1
      <4>1. j - 1 = at
        BY <1>2, <3>2
      <4> QED BY <1>0, <1>3, <2>3, <4>1 DEF PassedOver
    <3> QED BY <1>1, <1>2, <2>3, <3>1, <3>2
  <2>4. ASSUME blockLen' = 1, ~changed_any', NEW j \in 1 .. at', j <= Len(in_data')
        PROVE  ~Good(Without(in_data, j - 1, 1))'
    BY <1>0, <1>1, <2>3, <2>4 DEF Good
  <2> QED BY <1>1, <1>3, <2>1, <2>2, <2>4 DEF PassedOver
<1> QED BY <1>0, <1>1, <1>4, <1>5, <1>6 DEF TminInv, PassDone, NoneRejected

LEMMA TminDelete ==
  ASSUME TminInv, DeleteBlockTry
  PROVE  TminInv'
<1>0. /\ TminTypes /\ StillBehaves /\ PassedOver /\ tminStage = "delete"
      /\ UNCHANGED <<program, original, exact_mode, orig_run>>
      /\ \A f : Good(f)' <=> Good(f)
  BY TminFixed DEF TminInv, DeleteBlockTry, DryRunOriginal, TminNext, Minimize
<1> DEFINE try == Without(in_data, at, blockLen)
<1>1. /\ tmp_buf' = try /\ Len(in_data) \in Nat /\ at \in Nat /\ blockLen \in Nat \ {0}
      /\ at < Len(in_data) /\ in_data \in Seq(ByteKinds) /\ original \in Seq(ByteKinds)
      /\ Len(original) \in Nat /\ Len(in_data) <= Len(original)
      /\ UNCHANGED <<tminStage, blockLen, out_file>>
  BY <1>0, LenProperties, FileLength DEF DeleteBlockTry, Same, TminTypes
<1>2. try \in Seq(ByteKinds) /\ Len(try) <= Len(in_data) /\ Len(try) \in Nat
  BY <1>1, WithoutBlock, LenProperties
<1>3. CASE Kept(try)
  <2>1. /\ in_data' = try /\ prev_del' = TRUE /\ changed_any' = TRUE
        /\ UNCHANGED <<at, rejected>>
    BY <1>1, <1>3 DEF DeleteBlockTry
  <2> HIDE DEF try
  <2>2. TminTypes'
    BY <1>0, <1>1, <1>2, <2>1 DEF TminTypes
  <2>3. Good(in_data)'
    BY <1>0, <1>3, <2>1, KeptIsGood DEF Good
  <2>4. StillBehaves'
    BY <1>0, <1>1, <2>3 DEF StillBehaves, Good
  <2>5. PassedOver'
    BY <1>0, <2>1 DEF PassedOver
  <2> QED BY <1>0, <1>1, <2>1, <2>2, <2>4, <2>5 DEF TminInv, PassDone, NoneRejected
<1>4. CASE ~Kept(try)
  <2>1. /\ at' = at + blockLen /\ prev_del' = FALSE /\ rejected' = rejected \cup {try}
        /\ UNCHANGED <<in_data, changed_any>>
    BY <1>1, <1>4 DEF DeleteBlockTry
  <2>2. ~Good(try)
    BY <1>4, KeptIsGood
  <2>3. TminTypes'
    BY <1>0, <1>1, <1>2, <2>1 DEF TminTypes
  <2>4. StillBehaves'
    BY <1>0, <1>1, <2>1 DEF StillBehaves, Good
  <2>5. \A f \in rejected' : ~Good(f)'
    BY <1>0, <2>1, <2>2 DEF PassedOver
  <2>6. at' - blockLen' = at /\ blockLen' <= at'
    BY <1>1, <2>1
  <2>7. ASSUME blockLen = 1, ~changed_any, NEW j \in 1 .. at', j <= Len(in_data)
        PROVE  ~Good(Without(in_data, j - 1, 1))
    <3>1. CASE j <= at
      BY <1>0, <1>1, <2>7, <3>1 DEF PassedOver
    <3>2. CASE j = at + 1
      <4>1. j - 1 = at
        BY <1>1, <3>2
      <4> QED BY <2>2, <2>7, <4>1
    <3> QED BY <1>1, <2>1, <2>7, <3>1, <3>2
  <2>8. ASSUME blockLen' = 1, ~changed_any', NEW j \in 1 .. at', j <= Len(in_data')
        PROVE  ~Good(Without(in_data, j - 1, 1))'
    BY <1>0, <1>1, <2>1, <2>7, <2>8 DEF Good
  <2>9. PassedOver'
    BY <1>1, <2>1, <2>5, <2>6, <2>8 DEF PassedOver
  <2> QED BY <1>0, <1>1, <2>3, <2>4, <2>9 DEF TminInv, PassDone, NoneRejected
<1> QED BY <1>3, <1>4

LEMMA TminEndDelete ==
  ASSUME TminInv, EndDelete
  PROVE  TminInv'
<1>0. /\ TminTypes /\ StillBehaves /\ PassedOver /\ tminStage = "delete"
      /\ UNCHANGED <<program, original, exact_mode, orig_run, in_data, out_file>>
      /\ \A f : Good(f)' <=> Good(f)
  BY TminFixed DEF TminInv, EndDelete, DryRunOriginal, TminNext, Minimize, Same
<1>1. at >= Len(in_data) /\ blockLen \in Nat \ {0} /\ at \in Nat /\ in_data \in Seq(ByteKinds)
      /\ Len(in_data) \in Nat /\ DOMAIN in_data = 1 .. Len(in_data)
  BY <1>0, LenProperties DEF EndDelete, TminTypes
<1>2. CASE blockLen > 1 /\ in_data # <<>>
  <2>1. /\ tminStage' = "delete" /\ at' = 0 /\ prev_del' = TRUE /\ rejected' = {}
        /\ blockLen' = blockLen \div 2 /\ UNCHANGED <<tmp_buf, changed_any>>
    BY <1>2 DEF EndDelete, BlockPass
  <2>2. blockLen' \in Nat \ {0}
    BY <1>1, <1>2, <2>1
  <2>3. TminTypes'
    BY <1>0, <2>1, <2>2 DEF TminTypes
  <2>4. StillBehaves'
    BY <1>0, <2>1 DEF StillBehaves, Good
  <2>5. PassedOver'
    BY <2>1 DEF PassedOver
  <2> QED BY <2>1, <2>3, <2>4, <2>5 DEF TminInv, PassDone, NoneRejected
<1>3. CASE ~(blockLen > 1 /\ in_data # <<>>)
  <2>1. ~changed_any => Minimal(in_data)
    <3>1. CASE in_data = <<>>
      BY <3>1 DEF Minimal
    <3>2. CASE blockLen = 1
      BY <1>0, <1>1, <3>2 DEF Minimal, PassedOver
    <3> QED BY <1>1, <1>3, <3>1, <3>2
  <2>2. \/ /\ ~changed_any /\ tminStage' = "done"
           /\ UNCHANGED <<at, blockLen, prev_del, tmp_buf, changed_any, rejected>>
        \/ /\ tminStage' = "alphabet" /\ at' = 0 /\ prev_del' = TRUE /\ rejected' = {}
           /\ blockLen' = 1 /\ UNCHANGED <<tmp_buf, changed_any>>
    BY <1>3 DEF EndDelete, BlockPass
  <2>3. TminTypes'
    BY <1>0, <2>2 DEF TminTypes
  <2>4. StillBehaves'
    BY <1>0, <2>2 DEF StillBehaves, Good
  <2>5. PassedOver'
    BY <1>0, <2>2 DEF PassedOver
  <2>6. PassDone'
    BY <1>0, <2>1, <2>2 DEF PassDone, Minimal, Good
  <2> QED BY <2>2, <2>3, <2>4, <2>5, <2>6 DEF TminInv, NoneRejected
<1> QED BY <1>2, <1>3

LEMMA TminSymbol ==
  ASSUME TminInv, NEW s \in alphabet, ReplaceSymbol(s)
  PROVE  TminInv'
<1>0. /\ TminTypes /\ StillBehaves /\ PassedOver /\ PassDone /\ tminStage = "alphabet"
      /\ UNCHANGED <<program, original, exact_mode, orig_run>>
      /\ \A f : Good(f)' <=> Good(f)
  BY TminFixed DEF TminInv, ReplaceSymbol, DryRunOriginal, TminNext, Minimize
<1> DEFINE try == [i \in DOMAIN in_data |-> IF in_data[i] = s THEN Zero ELSE in_data[i]]
<1>1. /\ tmp_buf' = try
      /\ IF Kept(try) THEN in_data' = try /\ changed_any' = TRUE
                      ELSE UNCHANGED <<in_data, changed_any>>
      /\ UNCHANGED <<tminStage, at, blockLen, prev_del, rejected, out_file>>
  BY DEF ReplaceSymbol, Same
<1>2. try \in Seq(ByteKinds) /\ Len(try) = Len(in_data)
  <2>1. /\ in_data \in Seq(ByteKinds) /\ Len(in_data) \in Nat
        /\ \A i \in 1 .. Len(in_data) : in_data[i] \in ByteKinds
        /\ DOMAIN in_data = 1 .. Len(in_data)
    BY <1>0, LenProperties, ElementOfSeq DEF TminTypes
  <2>2. try \in [1 .. Len(in_data) -> ByteKinds]
    BY <2>1 DEF ByteKinds
  <2> HIDE DEF try
  <2> QED BY <2>1, <2>2, LenProperties
<1> HIDE DEF try
<1>3. /\ in_data' \in Seq(ByteKinds) /\ Len(in_data') = Len(in_data) /\ Good(in_data')
      /\ changed_any' \/ (UNCHANGED <<in_data, changed_any>>)
  BY <1>0, <1>1, <1>2, KeptIsGood DEF TminTypes, StillBehaves
<1>4. TminTypes'
  BY <1>0, <1>1, <1>2, <1>3 DEF TminTypes
<1>5. StillBehaves'
  BY <1>0, <1>1, <1>3 DEF StillBehaves, Good
<1>6. PassedOver'
  BY <1>0, <1>1 DEF PassedOver
<1>7. PassDone'
  BY <1>0, <1>1, <1>3 DEF PassDone, Minimal, Good
<1> QED BY <1>0, <1>1, <1>4, <1>5, <1>6, <1>7 DEF TminInv, NoneRejected

LEMMA TminByte ==
  ASSUME TminInv, ReplaceByte
  PROVE  TminInv'
<1>0. /\ TminTypes /\ StillBehaves /\ PassedOver /\ PassDone /\ tminStage = "chars"
      /\ UNCHANGED <<program, original, exact_mode, orig_run>>
      /\ \A f : Good(f)' <=> Good(f)
      /\ tmp_buf = in_data
  BY TminFixed DEF TminInv, ReplaceByte, DryRunOriginal, TminNext, Minimize, StillBehaves
<1> DEFINE try == [in_data EXCEPT ![at + 1] = Zero]
<1>1. /\ at' = at + 1
      /\ \/ Kept(try) /\ tmp_buf' = try /\ in_data' = try /\ changed_any' = TRUE
         \/ UNCHANGED <<tmp_buf, in_data, changed_any>>
      /\ UNCHANGED <<tminStage, blockLen, prev_del, rejected, out_file>>
  BY <1>0 DEF ReplaceByte, Same
<1>2. try \in Seq(ByteKinds) /\ Len(try) = Len(in_data)
  <2>1. /\ in_data \in Seq(ByteKinds) /\ Len(in_data) \in Nat
        /\ in_data \in [1 .. Len(in_data) -> ByteKinds]
        /\ DOMAIN in_data = 1 .. Len(in_data) /\ Zero \in ByteKinds
    BY <1>0, LenProperties DEF TminTypes, ByteKinds
  <2>2. try \in [1 .. Len(in_data) -> ByteKinds]
    BY <2>1
  <2> HIDE DEF try
  <2> QED BY <2>1, <2>2, LenProperties
<1> HIDE DEF try
<1>3. /\ in_data' \in Seq(ByteKinds) /\ Len(in_data') = Len(in_data) /\ Good(in_data')
      /\ (tmp_buf' = in_data' /\ changed_any') \/ (UNCHANGED <<in_data, changed_any>>)
  BY <1>0, <1>1, <1>2, KeptIsGood DEF TminTypes, StillBehaves
<1>4. TminTypes'
  BY <1>0, <1>1, <1>3 DEF TminTypes
<1>5. StillBehaves'
  BY <1>0, <1>1, <1>3 DEF StillBehaves, Good
<1>6. PassedOver'
  BY <1>0, <1>1 DEF PassedOver
<1>7. PassDone'
  BY <1>0, <1>1, <1>3 DEF PassDone, Minimal, Good
<1> QED BY <1>0, <1>1, <1>4, <1>5, <1>6, <1>7 DEF TminInv, NoneRejected

\* The ends of the stages, of the tool and a Ctrl-C: the file stays as it is.
LEMMA TminStageEnds ==
  ASSUME TminInv, EndAlphabet \/ EndChars \/ WriteOutput \/ StopTmin \/ EndNormalize
  PROVE  TminInv'
<1>0. /\ TminTypes /\ StillBehaves /\ PassedOver /\ PassDone
      /\ UNCHANGED <<program, original, exact_mode, orig_run>>
      /\ \A f : Good(f)' <=> Good(f)
      /\ tminStage \notin {"off", "failed"}
  BY TminFixed DEF TminInv, EndAlphabet, EndChars, WriteOutput, StopTmin, EndNormalize,
                   DryRunOriginal, TminNext, Minimize
<1>1. CASE EndAlphabet
  <2>1. /\ tminStage = "alphabet" /\ tminStage' = "chars" /\ at' = 0 /\ tmp_buf' = in_data
        /\ UNCHANGED <<in_data, blockLen, prev_del, changed_any, rejected, out_file>>
    BY <1>1 DEF EndAlphabet, Same
  <2>2. TminTypes' /\ PassedOver'
    BY <1>0, <2>1 DEF TminTypes, PassedOver
  <2>3. StillBehaves' /\ PassDone'
    BY <1>0, <2>1 DEF StillBehaves, PassDone, Minimal, Good
  <2> QED BY <2>1, <2>2, <2>3 DEF TminInv, NoneRejected
<1>2. CASE EndNormalize \/ (EndChars /\ changed_any)
  BY <1>0, <1>2, TminStartPass DEF EndNormalize, EndChars
<1>3. CASE EndChars /\ ~changed_any
  <2>1. /\ tminStage = "chars" /\ tminStage' = "done"
        /\ UNCHANGED <<in_data, tmp_buf, at, blockLen, prev_del, changed_any, rejected, out_file>>
    BY <1>3 DEF EndChars, Same
  <2>2. TminTypes' /\ PassedOver'
    BY <1>0, <2>1 DEF TminTypes, PassedOver
  <2>3. StillBehaves' /\ PassDone'
    BY <1>0, <1>3, <2>1 DEF StillBehaves, PassDone, Minimal, Good
  <2> QED BY <2>1, <2>2, <2>3 DEF TminInv, NoneRejected
<1>4. CASE WriteOutput \/ StopTmin
  <2>1. /\ tminStage # "off" /\ tminStage' \in {tminStage, "failed"} /\ out_file' = in_data
        /\ UNCHANGED <<in_data, tmp_buf, at, blockLen, prev_del, changed_any, rejected>>
    BY <1>4 DEF WriteOutput, StopTmin
  <2>2. TminTypes' /\ PassedOver'
    BY <1>0, <2>1 DEF TminTypes, PassedOver
  <2>3. Good(in_data)' /\ Good(out_file)' /\ Len(out_file') <= Len(original')
    <3>1. Good(in_data) /\ Len(in_data) <= Len(original)
      BY <1>0 DEF StillBehaves, TminTypes
    <3> QED BY <1>0, <2>1, <3>1 DEF Good
  <2>4. StillBehaves' /\ PassDone'
    BY <1>0, <2>1, <2>3 DEF StillBehaves, PassDone, Minimal, Good
  <2> QED BY <1>0, <2>1, <2>2, <2>4 DEF TminInv, NoneRejected
<1> QED BY <1>1, <1>2, <1>3, <1>4

LEMMA TminInvStep == TminInv /\ [TminNext]_tminVars => TminInv'
<1> SUFFICES ASSUME TminInv, [TminNext]_tminVars PROVE TminInv'
  OBVIOUS
<1>1. CASE UNCHANGED tminVars
  BY <1>1 DEF tminVars, TminInv, TminTypes, StillBehaves, PassedOver, PassDone, NoneRejected,
              Minimal, Good
<1> QED BY <1>1, TminDryRun, TminNormalize, TminSkip, TminDelete, TminEndDelete, TminSymbol,
           TminByte, TminStageEnds DEF TminNext, Minimize

\* Whatever the program and the file: what afl-tmin writes makes the program behave
\* as the original did, a block is passed over only if the file without it was
\* refused, and the result cannot lose a byte.
THEOREM TminRightHolds == TminSpec => []TminRight
<1>1. TminInv => TminRight
  <2> SUFFICES ASSUME TminInv PROVE TminRight
    OBVIOUS
  <2>1. OutputBehaves
    <3>1. out_file # NotWritten => Kept(out_file) /\ Len(out_file) <= Len(original)
      BY KeptIsGood DEF TminInv, StillBehaves
    <3>2. ASSUME tminStage = "delete", at < Len(in_data), Repeats
          PROVE  Without(in_data, at, blockLen) \in rejected
      <4>1. /\ in_data \in Seq(ByteKinds) /\ at \in Nat /\ blockLen \in Nat \ {0} /\ ~prev_del
            /\ blockLen <= at /\ at + blockLen < Len(in_data) /\ Len(in_data) \in Nat
            /\ Without(in_data, at - blockLen, blockLen) \in rejected
        BY <3>2, LenProperties DEF TminInv, TminTypes, PassedOver, Repeats
      <4>2. Without(in_data, at - blockLen, blockLen) = Without(in_data, at, blockLen)
        BY <3>2, <4>1, RepeatedBlock
      <4> QED BY <4>1, <4>2
    <3> QED BY <3>1, <3>2 DEF OutputBehaves
  <2>2. DeletionMinimal
    BY KeptIsGood DEF TminInv, PassDone, Minimal, DeletionMinimal
  <2> QED BY <2>1, <2>2 DEF TminRight
<1> QED BY <1>1, TminInvInit, TminInvStep, PTL DEF TminSpec

-----------------------------------------------------------------------------
(* One run of a tool: fork, timer, signal and wait.                        *)

(* Where the process of a run can be, by the step the tool is at. *)
RunChildAt ==
  /\ toolPc \in {"setup", "input", "fork"} => runChild = "none"
  /\ toolPc \in {"pid", "arm", "wait"} => runChild \in {"running", "ended"}
  /\ toolPc \in {"reaped", "disarm", "judge"} => runChild = "reaped"
  /\ toolPc = "exited" => runChild # "running" /\ ~segment /\ ~tempFile
  /\ toolPc \in {"setup", "input", "fork", "pid", "arm", "wait", "reaped", "disarm", "judge", "exited"}

(* When a handler finds a process to kill, and when the timer can go off. *)
HandlersAt ==
  /\ pidKnown => toolPc \in {"arm", "wait", "reaped"}
  /\ runTimer => toolPc \in {"wait", "reaped", "disarm"}

(* How a run that has ended came to its end, and what its trace is worth. *)
RunEnded ==
  runChild \in {"ended", "reaped"} =>
    /\ \/ runEnd = "killed"
       \/ runEnd \in {"exit", "nonzero", "signal"} /\ runTrace = "full"
       \/ runEnd = "noexec" /\ runTrace = "sig"
    /\ runEnd = "killed" => stopSoon \/ (runTimedOut /\ toolPc \notin {"pid", "arm"})

(* Nothing is concluded before the end. *)
NotYet ==
  toolPc # "exited" =>
    /\ tool = "showmap" \/ toolPc = "setup" => result = "none"
    /\ ~runCrashed /\ written = "none"

\* The parts together; the last of them is itself one of the facts to prove.
ToolInv == RunChildAt /\ HandlersAt /\ RunEnded /\ NotYet /\ ResultsAreReal

-----------------------------------------------------------------------------
LEMMA ToolInitInv == ToolInit => ToolInv
  BY DEF ToolInit, ToolInv, RunChildAt, HandlersAt, RunEnded, NotYet, ResultsAreReal

(* The steps of the tool from setup to the end of the wait. *)
LEMMA RunStepsKeep ==
  ASSUME ToolInv,
         SetUpSegment \/ WriteInput \/ ForkRun \/ StorePid \/ ArmTimer \/ WaitRun \/ ClearPid \/ DisarmTimer
  PROVE  ToolInv'
<1> USE DEF ToolInv, RunChildAt, HandlersAt, RunEnded, NotYet, ResultsAreReal, Invoked, Output
<1>1. CASE SetUpSegment
  BY <1>1 DEF SetUpSegment
<1>2. CASE WriteInput
  BY <1>2 DEF WriteInput
<1>3. CASE ForkRun
  BY <1>3 DEF ForkRun
<1>4. CASE StorePid
  BY <1>4 DEF StorePid
<1>5. CASE ArmTimer
  BY <1>5 DEF ArmTimer
<1>6. CASE WaitRun
  BY <1>6 DEF WaitRun
<1>7. CASE ClearPid
  BY <1>7 DEF ClearPid
<1>8. CASE DisarmTimer
  BY <1>8 DEF DisarmTimer
<1> QED BY <1>1, <1>2, <1>3, <1>4, <1>5, <1>6, <1>7, <1>8

(* What is concluded from a run that has been reaped. *)
LEMMA JudgeKeeps ==
  ASSUME ToolInv, JudgeShowmap \/ JudgeRun
  PROVE  ToolInv'
<1> USE DEF ToolInv, RunChildAt, HandlersAt, RunEnded, NotYet, ResultsAreReal, Invoked, LeaveWith, Died
<1>1. CASE JudgeShowmap
  <2>1. CASE runTrace = "sig"
    BY <1>1, <2>1 DEF JudgeShowmap
  <2>2. CASE runTrace # "sig"
    <3> DEFINE crashed == runCrashed \/ (~runTimedOut /\ ~stopSoon /\ Died)
    <3>1. /\ toolPc = "judge" /\ tool = "showmap" /\ toolPc' = "exited"
          /\ ~segment' /\ ~tempFile' /\ (runCrashed' <=> crashed)
          /\ UNCHANGED <<tool, cminCrashes, pidKnown, runChild, runEnd, runTrace, runTimer, runTimedOut, stopSoon>>
      BY <1>1, <2>2 DEF JudgeShowmap
    <3>2. /\ result' \in {"ok", "fault"} => ~runTimedOut
          /\ result' = "fault" => runCrashed'
          /\ written' = "tuples" => ~runTimedOut /\ runCrashed' = cminCrashes
      BY <1>1, <2>2 DEF JudgeShowmap
    <3>3. exitCode' = 0 => ~runTimedOut /\ ~runCrashed'
      BY <1>1, <2>2 DEF JudgeShowmap
    <3> QED BY <2>2, <3>1, <3>2, <3>3
  <2> QED BY <2>1, <2>2
<1>2. CASE JudgeRun
  <2>1. CASE runTrace = "sig" \/ stopSoon
    BY <1>2, <2>1 DEF JudgeRun
  <2>2. CASE ~(runTrace = "sig" \/ stopSoon)
    BY <1>2, <2>2 DEF JudgeRun
  <2> QED BY <2>1, <2>2
<1> QED BY <1>1, <1>2

(* The program and the two signals, between any two steps. *)
LEMMA EventsKeep ==
  ASSUME ToolInv, ProgramStep \/ handle_timeout \/ handle_stop_sig
  PROVE  ToolInv'
<1> USE DEF ToolInv, RunChildAt, HandlersAt, RunEnded, NotYet, ResultsAreReal, Invoked, Output, ToolSame, KillRun
<1>1. CASE ProgramRuns
  BY <1>1 DEF ProgramRuns
<1>2. ASSUME NEW how \in {"exit", "nonzero", "signal"}, ProgramEnds(how) PROVE ToolInv'
  BY <1>2 DEF ProgramEnds
<1>3. CASE ExecFails
  BY <1>3 DEF ExecFails
<1>4. CASE handle_timeout
  BY <1>4 DEF handle_timeout
<1>5. CASE handle_stop_sig
  BY <1>5 DEF handle_stop_sig
<1> QED BY <1>1, <1>2, <1>3, <1>4, <1>5 DEF ProgramStep

LEMMA ToolStepInv == ToolInv /\ [ToolNext]_toolVars => ToolInv'
<1> SUFFICES ASSUME ToolInv, [ToolNext]_toolVars PROVE ToolInv'
  OBVIOUS
<1>1. CASE UNCHANGED toolVars
  BY <1>1 DEF toolVars, ToolInv, RunChildAt, HandlersAt, RunEnded, NotYet, ResultsAreReal
<1> QED BY <1>1, RunStepsKeep, JudgeKeeps, EventsKeep DEF ToolNext, ToolStep

(* RunsRight: wherever SIGALRM and SIGINT strike, only the result of a run *)
(* that ended by itself counts, and nothing is left behind, however many   *)
(* runs are made (src/afl-tmin.c:261-365, src/afl-showmap.c:250-345).      *)
THEOREM RunsRightHolds == ToolSpec => []RunsRight
<1>1. ToolInv => RunsRight
  BY DEF ToolInv, RunChildAt, RunsRight, NothingLeft
<1> QED BY ToolInitInv, ToolStepInv, <1>1, PTL DEF ToolSpec

-----------------------------------------------------------------------------
(* afl-gotcpu.                                                             *)

\* Every CPU's process is off, busy or has an outcome.
CpuTypes ==
  /\ measuring \in [CpuIndex -> {"off", "busy"} \cup Outcomes]
  /\ waited \subseteq CpuIndex
  /\ idle_cpus \in Nat /\ maybe_cpus \in Nat

(* The counts say no more, and no less, than the processes reaped. *)
CountsMatch ==
  /\ \A c \in waited : measuring[c] \in Outcomes
  /\ idle_cpus > 0 <=> \E c \in waited : measuring[c] \in {"available", "killed"}
  /\ maybe_cpus > 0 <=> \E c \in waited : measuring[c] # "overbooked"

VerdictFollows ==
  verdict # "none" =>
    /\ waited = CpuIndex
    /\ verdict = IF idle_cpus > 0 THEN "PASS" ELSE IF maybe_cpus > 0 THEN "CAUTION" ELSE "FAIL"

\* The strengthened invariant of the CPU check.
CpuInv == CpuTypes /\ CountsMatch /\ VerdictFollows

-----------------------------------------------------------------------------
(* What an exit status says of the outcome. *)
LEMMA StatusOf ==
  ASSUME NEW v \in Outcomes
  PROVE  /\ WEXITSTATUS(v) = 0 <=> v \in {"available", "killed"}
         /\ WEXITSTATUS(v) <= 1 <=> v # "overbooked"
  BY DEF Outcomes, WEXITSTATUS

LEMMA CpuInitInv == GotCpuInit => CpuInv
  BY DEF GotCpuInit, CpuInv, CpuTypes, CountsMatch, VerdictFollows, Outcomes

(* A process that is reaped is counted by what it came out as. *)
LEMMA WaitKeeps ==
  ASSUME CpuInv, NEW c \in CpuIndex, WaitMeasurer(c)
  PROVE  CpuInv'
<1>1. /\ measuring[c] \in Outcomes /\ c \notin waited /\ waited' = waited \cup {c}
      /\ UNCHANGED <<measuring, verdict>>
  BY DEF WaitMeasurer
<1>2. /\ idle_cpus' = idle_cpus + (IF WEXITSTATUS(measuring[c]) = 0 THEN 1 ELSE 0)
      /\ maybe_cpus' = maybe_cpus + (IF WEXITSTATUS(measuring[c]) <= 1 THEN 1 ELSE 0)
  BY DEF WaitMeasurer
<1>3. CpuTypes'
  BY <1>1, <1>2 DEF CpuInv, CpuTypes
<1>4. CountsMatch'
  <2>1. \A d \in waited' : measuring'[d] \in Outcomes
    BY <1>1 DEF CpuInv, CountsMatch
  <2>2. idle_cpus' > 0 <=> idle_cpus > 0 \/ measuring[c] \in {"available", "killed"}
    BY <1>1, <1>2, StatusOf DEF CpuInv, CpuTypes
  <2>3. maybe_cpus' > 0 <=> maybe_cpus > 0 \/ measuring[c] # "overbooked"
    BY <1>1, <1>2, StatusOf DEF CpuInv, CpuTypes
  <2> QED BY <1>1, <2>1, <2>2, <2>3 DEF CpuInv, CountsMatch
<1>5. VerdictFollows'
  BY <1>1 DEF CpuInv, VerdictFollows
<1> QED BY <1>3, <1>4, <1>5 DEF CpuInv

LEMMA CpuStepInv == CpuInv /\ [GotCpuNext]_gotcpuVars => CpuInv'
<1> SUFFICES ASSUME CpuInv, [GotCpuNext]_gotcpuVars PROVE CpuInv'
  OBVIOUS
<1>1. ASSUME NEW c \in CpuIndex, NEW v \in {"busy"} \cup Outcomes,
             measuring[c] \in {"off", "busy"}, measuring' = [measuring EXCEPT ![c] = v],
             UNCHANGED <<idle_cpus, maybe_cpus, waited, verdict>>
      PROVE  CpuInv'
  <2>1. c \notin waited
    BY <1>1 DEF CpuInv, CountsMatch, Outcomes
  <2>2. \A d \in waited : measuring'[d] = measuring[d]
    BY <1>1, <2>1 DEF CpuInv, CpuTypes
  <2>3. CountsMatch'
    BY <1>1, <2>2 DEF CpuInv, CountsMatch
  <2> QED BY <1>1, <2>3 DEF CpuInv, CpuTypes, VerdictFollows
<1>2. ASSUME NEW c \in CpuIndex, ForkMeasurer(c) PROVE CpuInv'
  BY <1>1, <1>2 DEF ForkMeasurer
<1>3. ASSUME NEW c \in CpuIndex, NEW v \in Outcomes, measure_preemption(c, v) PROVE CpuInv'
  BY <1>1, <1>3 DEF measure_preemption
<1>4. ASSUME NEW c \in CpuIndex, WaitMeasurer(c) PROVE CpuInv'
  BY <1>4, WaitKeeps
<1>5. CASE SayVerdict
  BY <1>5 DEF SayVerdict, CpuInv, CpuTypes, CountsMatch, VerdictFollows
<1>6. CASE UNCHANGED gotcpuVars
  BY <1>6 DEF gotcpuVars, CpuInv, CpuTypes, CountsMatch, VerdictFollows
<1> QED BY <1>2, <1>3, <1>4, <1>5, <1>6 DEF GotCpuNext

(* VerdictSound: whatever the number of cores, the outcomes and the order  *)
(* in which waitpid reaps, the verdict is what the outcomes say            *)
(* (src/afl-gotcpu.c:175-255).                                             *)
THEOREM VerdictSoundHolds == GotCpuSpec => []VerdictSound
<1>1. CpuInv => VerdictSound
  <2> SUFFICES ASSUME CpuInv PROVE VerdictSound
    OBVIOUS
  <2>1. \A c \in waited : measuring[c] \in Outcomes
    BY DEF CpuInv, CountsMatch
  <2>2. verdict = "FAIL" => \A c \in CpuIndex : measuring[c] = "overbooked"
    BY DEF CpuInv, CpuTypes, CountsMatch, VerdictFollows
  <2>3. verdict = "PASS" => \E c \in CpuIndex : measuring[c] \in {"available", "killed"}
    BY DEF CpuInv, CpuTypes, CountsMatch, VerdictFollows
  <2>4. verdict = "CAUTION" => \E c \in CpuIndex : measuring[c] \in {"caution", "failed"}
    BY <2>1 DEF CpuInv, CpuTypes, CountsMatch, VerdictFollows, Outcomes
  <2> QED BY <2>2, <2>3, <2>4 DEF VerdictSound
<1> QED BY CpuInitInv, CpuStepInv, <1>1, PTL DEF GotCpuSpec

-----------------------------------------------------------------------------
(* afl-clang-fast, afl-gcc and afl-as.                                     *)

\* The steps of the wrapper and of afl-as, and the variables that ask for a sanitizer.
BuildSteps == {"find", "edit", "compile", "as", "ratio", "loop", "insert", "run", "reap", "done", "fatal"}
SanVars == {"AFL_USE_ASAN", "AFL_USE_MSAN"}

BuildTypes ==
  /\ buildPc \in BuildSteps
  /\ flags \in CompilerFlags /\ userEnv \in BuildEnvs /\ ratio \in Nat /\ inst_ratio \in Nat
  /\ ccArgs = {} \/ buildPc \notin {"find", "edit"}

(* What the wrapper added to the command line: never two sanitizers, nor   *)
(* one with the hardening that it excludes.                                *)
Added == (ccArgs \ flags) \cap Sanitizers
AddedByWrapper ==
  /\ Added \in {{}, {"-fsanitize=address"}, {"-fsanitize=memory"}}
  /\ "-fstack-protector-all" \in ccArgs => Added = {}

(* What the programs tell each other through the environment. *)
Environment ==
  /\ env \cap {"AFL_KEEP_ASSEMBLY", "AFL_HARDEN", "AFL_USE_MSAN"} =
       userEnv \cap {"AFL_KEEP_ASSEMBLY", "AFL_HARDEN", "AFL_USE_MSAN"}
  /\ buildPc \in {"find", "edit"} => env \cap SanVars = userEnv \cap SanVars
  /\ buildPc \notin {"find", "edit", "fatal"} /\ wrapper # "afl-clang-fast" =>
       (env \cap SanVars # {} <=> Sanitized)

(* How often afl-as was started, and what it did. *)
AfterRun ==
  /\ buildPc \in {"find", "edit"} => asRuns = 0
  /\ asRuns \in 0 .. 2 /\ (asRuns = 2 => buildPc \in {"reap", "done"} /\ asStatus = "error")
  /\ buildPc \in {"as", "ratio", "loop", "insert", "run"} => asRuns = 1
  /\ buildPc = "compile" => asRuns = 0
  /\ buildPc \in {"compile", "as", "ratio", "loop", "insert", "run", "reap"} => wrapper # "afl-clang-fast"
  /\ buildPc \notin {"run", "reap", "done"} => inserted = -1 /\ ~asmFile
  /\ buildPc = "loop" => inst_ratio = ratio
  /\ buildPc = "insert" => inst_ratio = IF Sanitized THEN ratio \div 3 ELSE ratio
  /\ inserted >= 0 => inserted = IF Sanitized THEN ratio \div 3 ELSE ratio
  /\ buildPc = "done" /\ asmFile => "AFL_KEEP_ASSEMBLY" \in userEnv

\* The strengthened invariant of the build.
BuildInv == BuildTypes /\ AddedByWrapper /\ Environment /\ AfterRun

-----------------------------------------------------------------------------
LEMMA BuildInitInv == BuildInit => BuildInv
  BY BuildAssumption DEF BuildInit, BuildInv, BuildTypes, BuildSteps, AddedByWrapper, Added, Environment, AfterRun, SanVars

(* find_as and edit_params: the wrapper. *)
LEMMA WrapperKeeps ==
  ASSUME BuildInv, find_as \/ edit_params
  PROVE  BuildInv'
<1> USE BuildAssumption DEF BuildInv, World, AsState, Die
<1>1. CASE find_as
  <2>1. /\ UNCHANGED <<World, env, ccArgs, AsState>> /\ buildPc = "find" /\ buildPc' \in {"edit", "fatal"}
    BY <1>1 DEF find_as
  <2> QED BY <2>1 DEF BuildTypes, BuildSteps, AddedByWrapper, Added, Environment, AfterRun, Sanitized, SanVars
<1>2. CASE edit_params
  <2>1. CASE Clash
    <3>1. UNCHANGED <<World, env, ccArgs, AsState>> /\ buildPc = "edit" /\ buildPc' = "fatal"
      BY <1>2, <2>1 DEF edit_params
    <3> QED BY <3>1 DEF BuildTypes, BuildSteps, AddedByWrapper, Added, Environment, AfterRun, Sanitized, SanVars
  <2>2. CASE ~Clash
    <3>1. /\ UNCHANGED <<World, AsState>> /\ buildPc = "edit"
          /\ buildPc' = IF wrapper = "afl-clang-fast" THEN "done" ELSE "compile"
          /\ ccArgs' = Passed \cup Hardening \cup Sanitizing \cup Helper
          /\ env' = env \cup (IF wrapper = "afl-clang" THEN {"CLANG"} ELSE {})
                        \cup (IF wrapper # "afl-clang-fast" /\ flags \cap Sanitizers # {}
                              THEN {"AFL_USE_ASAN"} ELSE {})
      BY <1>2, <2>2 DEF edit_params
    <3>2. BuildTypes' /\ AfterRun'
      BY <3>1 DEF BuildTypes, BuildSteps, AfterRun
    <3>3. Environment'
      BY <3>1 DEF BuildTypes, Environment, SanVars, Sanitized
    <3>4. ccArgs' \ flags' \subseteq Hardening \cup Sanitizing \cup Helper
      BY <3>1 DEF Passed
    <3>5. /\ "-fstack-protector-all" \notin flags /\ Sanitizers \cap (Hardening \cup Helper) = {}
          /\ "-fstack-protector-all" \notin Sanitizing \cup Helper
      BY DEF BuildTypes, Sanitizers, Hardening, Helper, Sanitizing
    <3>6. Added' \subseteq Sanitizing \cap Sanitizers
      BY <3>1, <3>4, <3>5 DEF Added
    <3>7. Sanitizing \cap Sanitizers \in {{}, {"-fsanitize=address"}, {"-fsanitize=memory"}}
      BY DEF Sanitizing, Sanitizers
    <3>8. "-fstack-protector-all" \in ccArgs' => "AFL_HARDEN" \in env
      BY <3>1, <3>5 DEF Passed, Hardening
    <3>9. "AFL_HARDEN" \in env => Sanitizing = {}
      BY <2>2 DEF Clash, Sanitizing
    <3>10. AddedByWrapper'
      BY <3>6, <3>7, <3>8, <3>9 DEF AddedByWrapper
    <3> QED BY <3>2, <3>3, <3>10
  <2> QED BY <2>1, <2>2
<1> QED BY <1>1, <1>2

(* The compiler, afl-as and the assembler that it starts. *)
LEMMA AssemblerKeeps ==
  ASSUME BuildInv,
         \/ Compile \/ edit_as_params \/ ReadRatio \/ CheckLoop \/ AddInstrumentation \/ ReapAs
         \/ \E status \in {"ok", "error", "killed"} : RunAs(status)
  PROVE  BuildInv'
<1> USE BuildAssumption DEF BuildInv, World, AsState, Die
<1>0. UNCHANGED <<World, ccArgs>> /\ env' \in {env, env \cup {"AS_LOOP"}}
      /\ buildPc \notin {"find", "edit", "fatal", "done"} /\ buildPc' \notin {"find", "edit"}
  BY DEF Compile, edit_as_params, ReadRatio, CheckLoop, AddInstrumentation, ReapAs, RunAs
<1>1. AddedByWrapper'
  BY <1>0 DEF AddedByWrapper, Added
<1>2. Environment'
  BY <1>0 DEF Environment, SanVars, Sanitized, AfterRun
<1>3. BuildTypes' /\ AfterRun'
  <2> USE DEF BuildTypes, BuildSteps, AfterRun, Sanitized
  <2>1. CASE Compile
    BY <2>1 DEF Compile
  <2>2. CASE edit_as_params
    BY <2>2 DEF edit_as_params
  <2>3. CASE ReadRatio
    BY <2>3 DEF ReadRatio
  <2>4. CASE CheckLoop
    BY <2>4 DEF CheckLoop, Environment, SanVars
  <2>5. CASE AddInstrumentation
    BY <2>5 DEF AddInstrumentation
  <2>6. CASE ReapAs
    BY <2>6 DEF ReapAs, Environment
  <2>7. ASSUME NEW status \in {"ok", "error", "killed"}, RunAs(status) PROVE BuildTypes' /\ AfterRun'
    BY <2>7 DEF RunAs
  <2> QED BY <2>1, <2>2, <2>3, <2>4, <2>5, <2>6, <2>7
<1> QED BY <1>1, <1>2, <1>3

LEMMA BuildStepInv == BuildInv /\ [BuildNext]_buildVars => BuildInv'
<1>1. ASSUME BuildInv, UNCHANGED buildVars PROVE BuildInv'
  BY <1>1 DEF buildVars, BuildInv, BuildTypes, BuildSteps, AddedByWrapper, Added, Environment, AfterRun, Sanitized,
     SanVars
<1> QED BY <1>1, WrapperKeeps, AssemblerKeeps DEF BuildNext

(* BuildSound: however the sanitizer was asked for, the wrapper never adds *)
(* two, afl-as thins its trampolines exactly when there is one and never   *)
(* starts itself a third time (llvm_mode/afl-clang-fast.c:96-250,          *)
(* afl-gcc.c:110-330, afl-as.c:100-230, 470-550).                          *)
THEOREM BuildSoundHolds == BuildSpec => []BuildSound
<1>1. BuildInv => BuildSound
  <2> SUFFICES ASSUME BuildInv PROVE BuildSound
    OBVIOUS
  <2>1. Cardinality(Added) = 0 \/ Cardinality(Added) = 1
    BY FS_EmptySet, FS_Singleton DEF BuildInv, AddedByWrapper
  <2>2. Cardinality(Added) <= 1
    BY <2>1
  <2> QED BY <2>2 DEF BuildInv, BuildTypes, AddedByWrapper, Added, AfterRun, BuildSound
<1> QED BY BuildInitInv, BuildStepInv, <1>1, PTL DEF BuildSpec

-----------------------------------------------------------------------------
(* The command line of the program under test.                             *)

\* The steps of a launch, and an argument with what its marks were replaced by.
LaunchSteps == {"options", "environment", "args", "binary", "qemu", "ready", "refused"}
MarkedArgs == [marks : Nat, names : {"none", "dash f", "dash A", "temporary", "cur_input"}]

ArgumentTypes == programArgs \in Seq(MarkedArgs) /\ argIndex \in Nat \ {0}
SearchTypes == searchPath \in Seq(BOOLEAN) /\ pathIndex \in Nat \ {0} /\ programAt \in Nat \cup {-1}

LaunchTypes ==
  /\ launcher \in Launchers /\ launchPc \in LaunchSteps
  /\ inputName \in {"unset", "dash f", "dash A", "temporary", "cur_input"} /\ viaStdin \in BOOLEAN
  /\ ArgumentTypes /\ SearchTypes

(* Where the input file comes from: the order of the steps differs between *)
(* afl-fuzz and the tools.                                                 *)
InputNamed ==
  /\ launchPc \in {"options", "environment"} => Marked = {}
  /\ launchPc = "environment" => launcher # "fuzz"
  /\ \A n \in Marked : programArgs[n].names = inputName /\ inputName # "unset"
  /\ launcher # "fuzz" /\ "f" \notin seen /\ launchPc # "refused" => viaStdin \/ launcher = "showmap"
  /\ launcher = "fuzz" /\ launchPc \in {"options", "args"} =>
       inputName = IF "f" \in seen THEN "dash f" ELSE IF Marked = {} THEN "unset" ELSE "cur_input"
  /\ launcher = "fuzz" /\ launchPc \in {"binary", "qemu", "ready"} =>
       (viaStdin <=> Marked = {} /\ "f" \notin seen)

LimitFollows ==
  launchPc # "refused" =>
    IF "m" \in seen THEN memLimit \in {"none", "megs"}
    ELSE memLimit = (IF "Q" \in seen THEN "qemu" ELSE "default")

(* The search has passed only what is not acceptable. *)
SearchFollows ==
  /\ \A n \in 1 .. pathIndex - 1 : n <= Len(searchPath) /\ ~searchPath[n]
  /\ programAt > 0 => programAt = pathIndex /\ programAt <= Len(searchPath) /\ searchPath[programAt]
  /\ launchPc \in {"qemu", "ready"} \/ (launchPc = "args" /\ launcher # "fuzz") => programAt >= 0

Executed ==
  launchPc = "ready" =>
    \/ "Q" \in seen /\ \E t \in {"AFL_PATH", "own directory", "BIN_PATH"} :
         executed = [path |-> t, argv |-> <<t, "--", "program", "args">>]
    \/ "Q" \notin seen /\ executed = [path |-> "program", argv |-> <<"name", "args">>]

\* The strengthened invariant of the launch.
LaunchInv == LaunchTypes /\ InputNamed /\ LimitFollows /\ SearchFollows /\ Executed

-----------------------------------------------------------------------------
LEMMA LaunchInitInv == LaunchInit => LaunchInv
<1> SUFFICES ASSUME LaunchInit PROVE LaunchInv
  OBVIOUS
<1>1. PICK a \in ArgLists : programArgs = [n \in DOMAIN a |-> [marks |-> a[n], names |-> "none"]]
  BY DEF LaunchInit
<1>2. a \in Seq(Nat)
  BY LaunchAssumption
<1>3. programArgs \in Seq(MarkedArgs) /\ \A n \in DOMAIN programArgs : programArgs[n].names = "none"
  <2>1. Len(a) \in Nat /\ DOMAIN a = 1 .. Len(a) /\ \A n \in 1 .. Len(a) : a[n] \in Nat
    BY <1>2
  <2>2. programArgs \in [1 .. Len(a) -> MarkedArgs]
    BY <1>1, <2>1 DEF MarkedArgs
  <2>3. programArgs \in Seq(MarkedArgs)
    BY <2>1, <2>2
  <2> QED BY <1>1, <2>3
<1>4. LaunchTypes
  <2>1. ArgumentTypes /\ SearchTypes
    BY <1>3, LaunchAssumption DEF LaunchInit, ArgumentTypes, SearchTypes
  <2> QED BY <2>1 DEF LaunchInit, LaunchTypes, LaunchSteps
<1>5. Marked = {}
  BY <1>3 DEF Marked
<1>6. InputNamed
  BY <1>5 DEF LaunchInit, InputNamed
<1>7. LimitFollows /\ SearchFollows /\ Executed
  BY DEF LaunchInit, LimitFollows, SearchFollows, Executed
<1> QED BY <1>4, <1>6, <1>7 DEF LaunchInv

(* An option of the command line. *)
LEMMA OptionKeeps ==
  ASSUME LaunchInv, NEW o, ParseToolOption(o)
  PROVE  LaunchInv'
<1>0. /\ launchPc = "options" /\ launchPc' \in {"options", "refused"} /\ o \in Accepted(launcher)
      /\ UNCHANGED <<launcher, programArgs, argIndex, searchPath, pathIndex, programAt, executed>>
      /\ inputName' \in {inputName, "dash f", "dash A"} /\ viaStdin' \in {viaStdin, viaStdin /\ o # "f"}
  BY DEF ParseToolOption, LimitMemory, UseQemu, NameInput, PlainOption, Program, Arguments
<1>1. LaunchTypes' /\ Marked' = Marked /\ Marked = {}
  <2>1. ArgumentTypes' /\ SearchTypes'
    BY <1>0 DEF LaunchInv, LaunchTypes, ArgumentTypes, SearchTypes
  <2>2. Marked' = Marked /\ Marked = {}
    BY <1>0 DEF LaunchInv, InputNamed, Marked
  <2> QED BY <1>0, <2>1, <2>2 DEF LaunchInv, LaunchTypes, LaunchSteps
<1>2. launchPc' = "options" =>
        /\ seen' \in {seen \cup {o}, seen \cup {o, "q"}}
        /\ o = "m" => memLimit' \in {"none", "megs"}
        /\ o = "Q" => memLimit' = IF "m" \in seen THEN memLimit ELSE "qemu"
        /\ o \notin {"m", "Q"} => memLimit' = memLimit
        /\ o = "f" => inputName' = "dash f"
        /\ o \notin {"f", "A"} => inputName' = inputName
        /\ o # "f" => viaStdin' = viaStdin
  BY <1>0 DEF ParseToolOption, LimitMemory, UseQemu, NameInput, PlainOption, LaunchInv, LaunchTypes
<1>3. launcher = "fuzz" => o # "A"
  BY <1>0 DEF Accepted
<1>4. InputNamed'
  BY <1>0, <1>1, <1>2, <1>3 DEF LaunchInv, InputNamed
<1>5. LimitFollows'
  BY <1>0, <1>2 DEF LaunchInv, LimitFollows
<1>6. SearchFollows' /\ Executed'
  BY <1>0 DEF LaunchInv, SearchFollows, Executed
<1> QED BY <1>1, <1>4, <1>5, <1>6 DEF LaunchInv

(* The end of the command line and the environment. *)
LEMMA EnvironmentKeeps ==
  ASSUME LaunchInv, EndParse \/ set_up_environment
  PROVE  LaunchInv'
<1>0. /\ UNCHANGED <<launcher, seen, memLimit, viaStdin, programArgs, argIndex, searchPath, pathIndex,
                    programAt, executed>>
      /\ launchPc' \in {"args", "environment", "binary", "refused"}
      /\ launchPc \in {"options", "environment"} /\ inputName' \in {inputName, "temporary"}
  BY DEF EndParse, set_up_environment, usage, Line, Input, Program, Arguments
<1>1. LaunchTypes' /\ Marked' = Marked /\ Marked = {}
  <2>1. ArgumentTypes' /\ SearchTypes'
    BY <1>0 DEF LaunchInv, LaunchTypes, ArgumentTypes, SearchTypes
  <2>2. Marked' = Marked /\ Marked = {}
    BY <1>0 DEF LaunchInv, InputNamed, Marked
  <2> QED BY <1>0, <2>1, <2>2 DEF LaunchInv, LaunchTypes, LaunchSteps
<1>2. /\ launcher = "fuzz" => launchPc' \in {"args", "refused"} /\ inputName' = inputName
      /\ launchPc' = "args" => launcher = "fuzz"
  BY DEF EndParse, set_up_environment, usage, Input, LaunchInv, InputNamed
<1>3. InputNamed'
  BY <1>0, <1>1, <1>2 DEF LaunchInv, InputNamed
<1>4. LimitFollows' /\ SearchFollows' /\ Executed'
  BY <1>0, <1>2 DEF LaunchInv, LimitFollows, SearchFollows, Executed
<1> QED BY <1>1, <1>3, <1>4 DEF LaunchInv

(* The search of PATH. *)
LEMMA SearchKeeps ==
  ASSUME LaunchInv, TakeName \/ find_binary
  PROVE  LaunchInv'
<1>0. /\ UNCHANGED <<launcher, seen, memLimit, inputName, viaStdin, programArgs, argIndex, searchPath, executed>>
      /\ launchPc = "binary" /\ launchPc' \in {"qemu", "args", "binary", "refused"}
      /\ launchPc' = "qemu" => launcher = "fuzz"
      /\ launchPc' = "args" => launcher # "fuzz"
  BY DEF TakeName, find_binary, Line, Input, Arguments
<1>1. SearchTypes' /\ SearchFollows'
  <2>9. SearchTypes /\ SearchFollows
    BY DEF LaunchInv, LaunchTypes
  <2>0. Len(searchPath) \in Nat /\ pathIndex \in Nat \ {0} /\ SearchTypes /\ SearchFollows
    BY <2>9 DEF SearchTypes
  <2>1. CASE TakeName
    <3>1. /\ UNCHANGED <<pathIndex, searchPath>> /\ programAt' \in {0, programAt}
          /\ launchPc' # "refused" => programAt' = 0
      BY <1>0, <2>1 DEF TakeName
    <3>2. SearchTypes'
      BY <2>0, <3>1 DEF SearchTypes
    <3>3. (launchPc' = "refused" \/ programAt' = 0) /\ (programAt' = 0 \/ programAt' = programAt)
      BY <3>1
    <3> QED BY <2>0, <3>1, <3>2, <3>3 DEF SearchFollows
  <2>2. CASE find_binary
    <3>1. CASE pathIndex > Len(searchPath)
      <4>1. launchPc' = "refused" /\ UNCHANGED <<pathIndex, programAt, searchPath>>
        BY <1>0, <2>2, <3>1 DEF find_binary
      <4> QED BY <2>0, <4>1 DEF SearchTypes, SearchFollows
    <3>2. CASE pathIndex <= Len(searchPath) /\ searchPath[pathIndex]
      <4>1. programAt' = pathIndex /\ UNCHANGED <<pathIndex, searchPath>>
        BY <1>0, <2>0, <2>2, <3>2 DEF find_binary
      <4> QED BY <2>0, <3>2, <4>1 DEF SearchTypes, SearchFollows
    <3>3. CASE pathIndex <= Len(searchPath) /\ ~searchPath[pathIndex]
      <4>1. pathIndex' = pathIndex + 1 /\ UNCHANGED <<programAt, launchPc, searchPath>>
        BY <1>0, <2>0, <2>2, <3>3 DEF find_binary
      <4>2. \A n \in 1 .. pathIndex' - 1 : n \in 1 .. pathIndex - 1 \/ n = pathIndex
        BY <2>0, <4>1
      <4>3. ~(programAt > 0)
        BY <2>0, <3>3 DEF SearchFollows
      <4> QED BY <1>0, <2>0, <3>3, <4>1, <4>2, <4>3 DEF SearchTypes, SearchFollows
    <3> QED BY <2>0, <3>1, <3>2, <3>3
  <2> QED BY <2>1, <2>2
<1>4. LaunchTypes'
  BY <1>0, <1>1 DEF LaunchInv, LaunchTypes, ArgumentTypes, LaunchSteps
<1>2. InputNamed'
  BY <1>0 DEF LaunchInv, InputNamed, Marked
<1>3. LimitFollows' /\ Executed'
  BY <1>0 DEF LaunchInv, LimitFollows, Executed
<1> QED BY <1>1, <1>2, <1>3, <1>4 DEF LaunchInv

(* An argument of the program: its first mark becomes the name. *)
LEMMA ArgumentKeeps ==
  ASSUME LaunchInv, detect_file_args
  PROVE  LaunchInv'
<1>0. /\ UNCHANGED <<launcher, seen, memLimit, viaStdin, searchPath, pathIndex, programAt, executed>>
      /\ launchPc = "args" /\ launchPc' \in {"args", "refused"}
  BY DEF detect_file_args, Line, Program
<1>1. LimitFollows' /\ SearchFollows' /\ Executed' /\ SearchTypes'
  BY <1>0 DEF LaunchInv, LaunchTypes, SearchTypes, LimitFollows, SearchFollows, Executed
<1>2. ArgumentTypes /\ InputNamed
  BY DEF LaunchInv, LaunchTypes
<1>3. PICK i \in Nat \ {0} : i = argIndex
  BY <1>2 DEF ArgumentTypes
<1>4. i <= Len(programArgs)
  BY <1>3 DEF detect_file_args
<1>5. i \in 1 .. Len(programArgs) /\ DOMAIN programArgs = 1 .. Len(programArgs) /\ programArgs[i] \in MarkedArgs
  BY <1>2, <1>4 DEF ArgumentTypes
<1>6. PICK m \in Nat : m = programArgs[i].marks
  BY <1>5 DEF MarkedArgs
<1>7. CASE m > 0 /\ NameFor = "unset"
  <2>1. UNCHANGED <<inputName, programArgs, argIndex>> /\ launchPc' = "refused"
    BY <1>3, <1>6, <1>7 DEF detect_file_args, Arguments
  <2>2. Marked' = Marked /\ ArgumentTypes'
    BY <1>2, <2>1 DEF Marked, ArgumentTypes
  <2>3. InputNamed'
    BY <1>0, <1>2, <2>1, <2>2 DEF InputNamed
  <2> QED BY <1>0, <1>1, <2>1, <2>2, <2>3 DEF LaunchInv, LaunchTypes, LaunchSteps
<1>8. CASE ~(m > 0 /\ NameFor = "unset")
  <2>1. /\ programArgs' = [programArgs EXCEPT ![i] = Substitute(programArgs[i], NameFor)]
        /\ inputName' = IF m > 0 THEN NameFor ELSE inputName
        /\ argIndex' = i + 1 /\ launchPc' = launchPc
    BY <1>3, <1>6, <1>8 DEF detect_file_args
  <2>2. NameFor \in {"unset", "dash f", "dash A", "temporary", "cur_input"}
    BY DEF NameFor, LaunchInv, LaunchTypes
  <2>3. CASE m = 0
    <3>1. programArgs' = programArgs /\ inputName' = inputName
      BY <1>2, <1>5, <1>6, <2>1, <2>3 DEF Substitute, ArgumentTypes
    <3>4. argIndex' \in Nat \ {0}
      BY <2>1
    <3>2. Marked' = Marked /\ ArgumentTypes'
      BY <1>2, <3>1, <3>4 DEF Marked, ArgumentTypes
    <3>3. InputNamed'
      BY <1>0, <1>2, <2>1, <3>1, <3>2 DEF InputNamed
    <3> QED BY <1>0, <1>1, <3>1, <3>2, <3>3 DEF LaunchInv, LaunchTypes, LaunchSteps
  <2>4. CASE m > 0
    <3> DEFINE new == [marks |-> m - 1, names |-> NameFor]
    <3>1. programArgs' = [programArgs EXCEPT ![i] = new] /\ inputName' = NameFor
      <4>1. Substitute(programArgs[i], NameFor) = new
        BY <1>6, <2>4 DEF Substitute
      <4> QED BY <2>1, <2>4, <4>1
    <3>2. NameFor # "unset" /\ NameFor # "none" /\ new.names = NameFor
      BY <1>8, <2>2, <2>4
    <3>3. m - 1 \in Nat
      BY <2>4
    <3>4. new \in MarkedArgs
      BY <2>2, <3>2, <3>3 DEF MarkedArgs
    <3> HIDE DEF new
    <3>5. ArgumentTypes'
      BY <1>2, <1>5, <2>1, <3>1, <3>4 DEF ArgumentTypes
    <3>6. Marked' = Marked \cup {i} /\ programArgs'[i].names = NameFor
          /\ \A n \in DOMAIN programArgs : n # i => programArgs'[n] = programArgs[n]
      BY <1>2, <1>5, <3>1, <3>2 DEF Marked, ArgumentTypes
    <3>7. inputName # "unset" => NameFor = inputName
      BY DEF NameFor
    <3>8. \A n \in Marked' : programArgs'[n].names = inputName'
      BY <1>2, <3>1, <3>6, <3>7 DEF InputNamed, Marked
    <3>9. launcher = "fuzz" => inputName' = IF "f" \in seen THEN "dash f" ELSE "cur_input"
      BY <1>0, <1>2, <3>1 DEF InputNamed, NameFor
    <3>10. InputNamed'
      BY <1>0, <1>2, <2>1, <3>1, <3>2, <3>6, <3>8, <3>9 DEF InputNamed
    <3> QED BY <1>0, <1>1, <2>2, <3>1, <3>5, <3>10 DEF LaunchInv, LaunchTypes, LaunchSteps
  <2> QED BY <1>6, <2>3, <2>4
<1> QED BY <1>7, <1>8

(* What the program is fed, when all its arguments are known. *)
LEMMA StdioKeeps ==
  ASSUME LaunchInv, setup_all_stdio_file
  PROVE  LaunchInv'
<1>0. /\ UNCHANGED <<launcher, seen, memLimit, programArgs, argIndex, searchPath, pathIndex, programAt, executed>>
      /\ launchPc = "args" /\ launchPc' = IF launcher = "fuzz" THEN "binary" ELSE "qemu"
      /\ launcher = "fuzz" => /\ viaStdin' <=> inputName = "unset"
                              /\ inputName' = IF inputName = "unset" THEN "cur_input" ELSE inputName
      /\ launcher # "fuzz" => UNCHANGED <<inputName, viaStdin>>
  BY DEF setup_all_stdio_file, Line, Program, Arguments
<1>1. LimitFollows' /\ SearchFollows' /\ Executed'
  BY <1>0 DEF LaunchInv, LimitFollows, SearchFollows, Executed
<1>2. SearchTypes' /\ ArgumentTypes' /\ Marked' = Marked
  BY <1>0 DEF LaunchInv, LaunchTypes, SearchTypes, ArgumentTypes, Marked
<1>5. InputNamed
  BY DEF LaunchInv
<1>3. InputNamed'
  <2>1. CASE launcher = "fuzz"
    <3>1. launchPc' = "binary" /\ (viaStdin' <=> inputName = "unset") /\ (inputName # "unset" => inputName' = inputName)
      BY <1>0, <2>1
    <3>2. inputName = "unset" <=> "f" \notin seen /\ Marked = {}
      BY <1>0, <1>5, <2>1 DEF InputNamed
    <3>3. \A n \in Marked' : programArgs'[n].names = inputName' /\ inputName' # "unset"
      BY <1>0, <1>2, <1>5, <3>1 DEF InputNamed
    <3> QED BY <1>0, <1>2, <2>1, <3>1, <3>2, <3>3 DEF InputNamed
  <2>2. CASE launcher # "fuzz"
    BY <1>0, <1>2, <1>5, <2>2 DEF InputNamed
  <2> QED BY <2>1, <2>2
<1>4. viaStdin' \in BOOLEAN
  BY DEF setup_all_stdio_file, LaunchInv, LaunchTypes
<1> QED BY <1>0, <1>1, <1>2, <1>3, <1>4 DEF LaunchInv, LaunchTypes, LaunchSteps

(* The arguments that are executed. *)
LEMMA ArgvKeeps ==
  ASSUME LaunchInv, UseArgv
  PROVE  LaunchInv'
<1>0. /\ UNCHANGED <<launcher, seen, memLimit, inputName, viaStdin, programArgs, argIndex, searchPath,
                    pathIndex, programAt>>
      /\ launchPc = "qemu" /\ launchPc' \in {"refused", "ready"}
  BY DEF UseArgv, get_qemu_argv, Line, Input, Program, Arguments
<1>1. LimitFollows' /\ SearchFollows'
  BY <1>0 DEF LaunchInv, LimitFollows, SearchFollows
<1>2. SearchTypes' /\ ArgumentTypes' /\ Marked' = Marked
  BY <1>0 DEF LaunchInv, LaunchTypes, SearchTypes, ArgumentTypes, Marked
<1>3. InputNamed'
  BY <1>0, <1>2 DEF LaunchInv, InputNamed
<1>4. Executed'
  <2>1. CASE "Q" \in seen
    <3>1. PICK a \in {"unset", "yes", "no"}, own \in BOOLEAN, bin \in BOOLEAN : get_qemu_argv(Tracer(a, own, bin))
      BY <2>1 DEF UseArgv
    <3>2. Tracer(a, own, bin) \in {"AFL_PATH", "nowhere", "own directory", "BIN_PATH"}
      BY DEF Tracer
    <3> QED BY <1>0, <2>1, <3>1, <3>2 DEF get_qemu_argv, Executed
  <2>2. CASE "Q" \notin seen
    BY <1>0, <2>2 DEF UseArgv, Executed
  <2> QED BY <2>1, <2>2
<1> QED BY <1>0, <1>1, <1>2, <1>3, <1>4 DEF LaunchInv, LaunchTypes, LaunchSteps

LEMMA LaunchStepInv == LaunchInv /\ [LaunchNext]_launchVars => LaunchInv'
<1>1. ASSUME LaunchInv, UNCHANGED launchVars PROVE LaunchInv'
  <2>1. SearchTypes' /\ ArgumentTypes' /\ Marked' = Marked
    BY <1>1 DEF launchVars, LaunchInv, LaunchTypes, SearchTypes, ArgumentTypes, Marked
  <2> QED BY <1>1, <2>1 DEF launchVars, LaunchInv, LaunchTypes, InputNamed, LimitFollows, SearchFollows, Executed
<1> QED BY <1>1, OptionKeeps, EnvironmentKeeps, SearchKeeps, ArgumentKeeps, StdioKeeps, ArgvKeeps DEF LaunchNext

(* LaunchAgrees: in every order of the options and for every PATH, the input *)
(* file reaches the program, -m wins over the default of -Q and the program *)
(* is the first acceptable one of PATH (src/afl-tmin.c:989-1130,           *)
(* src/afl-fuzz.c:7296-7345, 8018-8170).                                   *)
THEOREM LaunchAgreesHolds == LaunchSpec => []LaunchAgrees
<1>1. LaunchInv => LaunchAgrees
  <2> SUFFICES ASSUME LaunchInv, launchPc = "ready" PROVE LaunchAgrees
    BY DEF LaunchAgrees
  <2>1. InputReachesProgram
    BY DEF LaunchInv, LaunchTypes, InputNamed, InputReachesProgram, Launchers
  <2>2. IF "m" \in seen THEN memLimit \in {"none", "megs"}
        ELSE memLimit = (IF "Q" \in seen THEN "qemu" ELSE "default")
    BY DEF LaunchInv, LimitFollows
  <2>3. /\ programAt > 0 => searchPath[programAt] /\ \A n \in 1 .. programAt - 1 : ~searchPath[n]
        /\ programAt >= 0
    BY DEF LaunchInv, SearchFollows
  <2>4. /\ "program" \in {executed.path, executed.argv[Len(executed.argv) - 1]}
        /\ ("Q" \in seen) = (executed.argv[1] = executed.path)
    <3>0. 4 - 1 = 3
      OBVIOUS
    <3>1. CASE "Q" \in seen
      <4>1. PICK t \in {"AFL_PATH", "own directory", "BIN_PATH"} :
              executed = [path |-> t, argv |-> <<t, "--", "program", "args">>]
        BY <3>1 DEF LaunchInv, Executed
      <4>2. Len(executed.argv) = 4 /\ executed.argv[3] = "program" /\ executed.argv[1] = executed.path
        BY <4>1
      <4>3. executed.argv[Len(executed.argv) - 1] = "program"
        BY <3>0, <4>2, Zenon
      <4> QED BY <3>1, <4>2, <4>3
    <3>2. CASE "Q" \notin seen
      <4>1. executed = [path |-> "program", argv |-> <<"name", "args">>]
        BY <3>2 DEF LaunchInv, Executed
      <4>2. executed.path = "program" /\ executed.argv[1] = "name"
        BY <4>1
      <4> QED BY <3>2, <4>2
    <3> QED BY <3>1, <3>2
  <2> QED BY <2>1, <2>2, <2>3, <2>4 DEF LaunchAgrees
<1> QED BY LaunchInitInv, LaunchStepInv, <1>1, PTL DEF LaunchSpec

-----------------------------------------------------------------------------
(* afl-as: one pass over the assembly.                                     *)

\* The place of the line that is read next.
NextLine == Len(lines) + 1

\* Some label before line n is still waiting for its trampoline.
Waiting(n) ==
  \E l \in 1..(n - 1) :
    /\ Native(l) /\ (lines[l] = "func" \/ (PickedBranch(l) /\ ~JumpTable(l)))
    /\ \A m \in (l + 1)..(n - 1) : ~(lines[m] \in Instructions /\ Native(m))

ScanTypes ==
  /\ scan \in Scans
  /\ lines \in Seq(LineClasses)
  /\ picked \subseteq 1..Len(lines)

\* The flags are what the text before the next line says.
Modes ==
  /\ instr_ok <=> LastOf({"text", "data"}, NextLine) = "text"
  /\ skip_csect <=>
       LastOf({"code32", "code64"}, NextLine) = (IF use_64bit THEN "code32" ELSE "code64")
  /\ skip_intel <=> LastOf({"intel_syntax", "att_syntax"}, NextLine) = "intel_syntax"
  /\ skip_app <=> LastOf({"#APP", "#NO_APP"}, NextLine) = "#APP"

Labels ==
  /\ skip_next_label <=> JumpTable(NextLine)
  /\ instrument_next <=> Waiting(NextLine)

ScanInv ==
  /\ ScanTypes /\ TrampolinesPlaced
  /\ ~pass_thru_on => Modes /\ Labels

LEMMA NearestBefore ==
  ASSUME NEW n \in Nat, NEW T \in SUBSET (1..n), T # {}
  PROVE  \E x \in T : \A y \in T : y <= x
<1> DEFINE R == OpToRel(<, Nat)
           U == {k \in Nat : \E x \in T : k = n - x}
<1>1. IsWellFoundedOn(R, Nat)
  BY NatLessThanWellFounded
<1>2. \A x, y \in Nat : x < y => <<x, y>> \in R
  BY DEF OpToRel
<1>3. U \in SUBSET Nat /\ U # {} /\ \A x \in T : n - x \in U
  <2>1. \A x \in T : n - x \in Nat /\ x \in 1..n
    OBVIOUS
  <2> QED BY <2>1
<1> HIDE DEF R
<1>4. PICK u \in U : \A y \in U : ~(<<y, u>> \in R)
  <2> HIDE DEF U
  <2> QED BY <1>1, <1>3, WFMin
<1>5. PICK x \in T : u = n - x
  OBVIOUS
<1>6. ASSUME NEW y \in T PROVE y <= x
  <2>1. n - y \in Nat /\ u \in Nat /\ x \in 1..n /\ y \in 1..n /\ n - y \in U
    BY <1>3
  <2>2. ~(n - y < u)
    BY <1>2, <1>4, <2>1
  <2> QED BY <1>5, <2>1, <2>2
<1> QED BY <1>6

\* A line more does not change what came before, and is itself the last of its
\* kinds.
LEMMA LastOfAppended ==
  ASSUME lines \in Seq(LineClasses), NEW kind \in LineClasses, lines' = Append(lines, kind),
         NEW kinds, NEW n, n = NextLine
  PROVE  /\ \A m \in 1..n : LastOf(kinds, m)' = LastOf(kinds, m)
         /\ LastOf(kinds, n + 1)' = IF kind \in kinds THEN kind ELSE LastOf(kinds, n)
<1>0. /\ Len(lines) \in Nat /\ n \in Nat /\ n = Len(lines) + 1
      /\ \A i \in 1..Len(lines) : lines'[i] = lines[i]
      /\ lines'[n] = kind
  BY AppendProperties, LenProperties DEF NextLine
<1> DEFINE Places(m) == {i \in 1..(m - 1) : lines[i] \in kinds}
           Now(m) == {i \in 1..(m - 1) : lines'[i] \in kinds}
           Top(T) == CHOOSE i \in T : \A j \in T : j <= i
<1>1. ASSUME NEW m \in 1..n
      PROVE  /\ Now(m) = Places(m)
             /\ Places(m) # {} => Top(Places(m)) \in Places(m) /\ lines'[Top(Places(m))] = lines[Top(Places(m))]
  <2>1. \A i \in 1..(m - 1) : i \in 1..Len(lines)
    BY <1>0
  <2>2. Now(m) = Places(m)
    BY <1>0, <2>1
  <2>3. Places(m) \in SUBSET (1..(m - 1)) /\ m - 1 \in Nat
    BY <1>0
  <2>4. Places(m) # {} => Top(Places(m)) \in Places(m)
    <3> HIDE DEF Places
    <3> QED BY <2>3, NearestBefore
  <2>5. Places(m) # {} => lines'[Top(Places(m))] = lines[Top(Places(m))]
    <3> HIDE DEF Top
    <3> QED BY <1>0, <2>1, <2>3, <2>4
  <2> QED BY <2>2, <2>4, <2>5
<1>2. \A m : LastOf(kinds, m) = IF Places(m) = {} THEN "none" ELSE lines[Top(Places(m))]
  BY DEF LastOf
<1>3. \A m : LastOf(kinds, m)' = IF Now(m) = {} THEN "none" ELSE lines'[Top(Now(m))]
  BY DEF LastOf
<1>4. ASSUME NEW m \in 1..n PROVE LastOf(kinds, m)' = LastOf(kinds, m)
  <2> HIDE DEF Places, Top, Now
  <2> QED BY <1>1, <1>2, <1>3
<1>5. CASE kind \in kinds
  <2>1. n \in Now(n + 1) /\ \A j \in Now(n + 1) : j <= n /\ j \in Nat
    BY <1>0, <1>5
  <2>2. Top(Now(n + 1)) = n
    <3> HIDE DEF Now
    <3>1. \A i \in Now(n + 1) : (\A j \in Now(n + 1) : j <= i) => i = n
      BY <2>1, <1>0
    <3> QED BY <2>1, <3>1
  <2> HIDE DEF Top, Now
  <2> QED BY <1>0, <1>3, <1>4, <1>5, <2>1, <2>2
<1>6. CASE kind \notin kinds
  <2>1. Now(n + 1) = Now(n)
    BY <1>0, <1>6
  <2>2. n \in 1..n
    BY <1>0
  <2> HIDE DEF Now, Top
  <2> QED BY <1>3, <1>4, <1>6, <2>1, <2>2
<1> QED BY <1>4, <1>5, <1>6

\* One line read, as the proofs below use it.
Reads(kind, luck) ==
  /\ ScanInv /\ ~pass_thru_on /\ ReadLine(kind, luck)
  /\ kind \in LineClasses /\ (luck => kind \in {"jcc", "branch"})

LEMMA ReadFacts ==
  ASSUME NEW kind, NEW luck \in BOOLEAN, Reads(kind, luck), NEW n, n = NextLine
  PROVE  /\ n \in Nat /\ n = Len(lines) + 1 /\ Len(lines) = n - 1 /\ Len(lines') = n /\ NextLine' = n + 1
         /\ lines' \in Seq(LineClasses) /\ lines'[n] = kind
         /\ \A i \in 1..(n - 1) : lines'[i] = lines[i]
         /\ (n \in picked' <=> luck)
         /\ \A i \in 1..(n - 1) : (i \in picked' <=> i \in picked)
         /\ picked' \subseteq 1..n
         /\ clang_mode' = clang_mode /\ use_64bit' = use_64bit /\ scan' = scan
         /\ pass_thru_on' = pass_thru_on
<1>1. lines \in Seq(LineClasses) /\ kind \in LineClasses /\ lines' = Append(lines, kind)
  BY DEF Reads, ScanInv, ScanTypes, ReadLine
<1>2. /\ Len(lines) \in Nat /\ lines' \in Seq(LineClasses) /\ Len(lines') = Len(lines) + 1
      /\ lines'[Len(lines) + 1] = kind /\ \A i \in 1..Len(lines) : lines'[i] = lines[i]
  BY <1>1, AppendProperties, LenProperties
<1>3. /\ n \in Nat /\ n = Len(lines) + 1 /\ Len(lines) = n - 1
      /\ Len(lines') = n /\ NextLine' = n + 1
  BY <1>2 DEF NextLine
<1>4. picked \subseteq 1..(n - 1) /\ picked' = IF luck THEN picked \cup {n} ELSE picked
  BY <1>3 DEF Reads, ScanInv, ScanTypes, ReadLine
<1>5. \A i \in 1..(n - 1) : i # n /\ i \in 1..n
  BY <1>3
<1>6. n \notin 1..(n - 1) /\ n \in 1..n
  BY <1>3
<1>7. /\ (n \in picked' <=> luck)
      /\ \A i \in 1..(n - 1) : (i \in picked' <=> i \in picked)
      /\ picked' \subseteq 1..n
  BY <1>4, <1>5, <1>6
<1>8. UNCHANGED <<scan, clang_mode, pass_thru_on, use_64bit>>
  BY DEF Reads, ReadLine
<1> QED BY <1>2, <1>3, <1>7, <1>8

LEMMA ModesKeep ==
  ASSUME NEW kind, NEW luck \in BOOLEAN, Reads(kind, luck), NEW n, n = NextLine
  PROVE  /\ Modes' /\ (Mood <=> Native(n))
         /\ \A m \in 1..n : (Native(m)' <=> Native(m))
         /\ (instr_ok <=> LastOf({"text", "data"}, n) = "text")
         /\ \A m \in 1..n : LastOf({"text", "data"}, m)' = LastOf({"text", "data"}, m)
<1>1. lines \in Seq(LineClasses) /\ kind \in LineClasses /\ lines' = Append(lines, kind)
  BY DEF Reads, ScanInv, ScanTypes, ReadLine
<1>2. NextLine' = n + 1 /\ (use_64bit' <=> use_64bit)
  BY ReadFacts
<1>3. Modes
  BY DEF Reads, ScanInv
<1> DEFINE K1 == {"text", "data"}
           K2 == {"code32", "code64"}
           K3 == {"intel_syntax", "att_syntax"}
           K4 == {"#APP", "#NO_APP"}
<1>4. ASSUME NEW kinds
      PROVE  /\ \A m \in 1..n : LastOf(kinds, m)' = LastOf(kinds, m)
             /\ LastOf(kinds, n + 1)' = IF kind \in kinds THEN kind ELSE LastOf(kinds, n)
  BY <1>1, LastOfAppended
<1>5. /\ LastOf(K1, n + 1)' = IF kind \in K1 THEN kind ELSE LastOf(K1, n)
      /\ LastOf(K2, n + 1)' = IF kind \in K2 THEN kind ELSE LastOf(K2, n)
      /\ LastOf(K3, n + 1)' = IF kind \in K3 THEN kind ELSE LastOf(K3, n)
      /\ LastOf(K4, n + 1)' = IF kind \in K4 THEN kind ELSE LastOf(K4, n)
  <2> HIDE DEF K1, K2, K3, K4
  <2> QED BY <1>4
<1>6. /\ instr_ok' = Section(kind, instr_ok)
      /\ skip_csect' = Csect(kind, skip_csect)
      /\ skip_intel' = Toggle(kind, "intel_syntax", "att_syntax", skip_intel)
      /\ skip_app' = Toggle(kind, "#APP", "#NO_APP", skip_app)
  BY DEF Reads, ReadLine
<1>7. instr_ok' <=> LastOf(K1, n + 1)' = "text"
  BY <1>3, <1>5, <1>6 DEF Modes, Section
<1>8. skip_csect' <=> LastOf(K2, n + 1)' = (IF use_64bit THEN "code32" ELSE "code64")
  BY <1>3, <1>5, <1>6 DEF Modes, Csect
<1>9. skip_intel' <=> LastOf(K3, n + 1)' = "intel_syntax"
  BY <1>3, <1>5, <1>6 DEF Modes, Toggle
<1>10. skip_app' <=> LastOf(K4, n + 1)' = "#APP"
  BY <1>3, <1>5, <1>6 DEF Modes, Toggle
<1>11. Modes'
  BY <1>2, <1>7, <1>8, <1>9, <1>10 DEF Modes
<1>12. Mood <=> Native(n)
  BY <1>3 DEF Modes, Mood, Native
<1>13. ASSUME NEW m \in 1..n PROVE Native(m)' <=> Native(m)
  BY <1>2, <1>4 DEF Native
<1> QED BY <1>3, <1>4, <1>11, <1>12, <1>13 DEF Modes

LEMMA MarksKeep ==
  ASSUME NEW kind, NEW luck \in BOOLEAN, Reads(kind, luck), NEW n, n = NextLine
  PROVE  /\ \A m \in 1..(n - 1) : (PickedBranch(m)' <=> PickedBranch(m))
         /\ \A m \in 1..(n - 1) : (IsAlign(m)' <=> IsAlign(m))
         /\ \A m \in 1..n : (JumpTable(m)' <=> JumpTable(m))
         /\ PickedBranch(n)' <=> (kind = "branch" /\ luck /\ Mood)
         /\ IsAlign(n)' <=> (kind = "p2align" /\ ~clang_mode /\ instr_ok)
<1>1. /\ n \in Nat /\ n = Len(lines) + 1 /\ lines'[n] = kind
      /\ \A i \in 1..(n - 1) : lines'[i] = lines[i]
      /\ n \in picked' <=> luck
      /\ \A i \in 1..(n - 1) : (i \in picked' <=> i \in picked)
      /\ clang_mode' = clang_mode
  BY ReadFacts
<1>2. /\ \A m \in 1..n : (Native(m)' <=> Native(m))
      /\ Mood <=> Native(n)
      /\ instr_ok <=> LastOf({"text", "data"}, n) = "text"
      /\ \A m \in 1..n : LastOf({"text", "data"}, m)' = LastOf({"text", "data"}, m)
  BY ModesKeep
<1>3. \A m \in 1..(n - 1) : m \in 1..n
  BY <1>1
<1>4. n \in 1..n
  BY <1>1
<1>5. ASSUME NEW m \in 1..(n - 1)
      PROVE  /\ PickedBranch(m)' <=> PickedBranch(m)
             /\ IsAlign(m)' <=> IsAlign(m)
  BY <1>1, <1>2, <1>3 DEF PickedBranch, IsAlign
<1>6. PickedBranch(n)' <=> (kind = "branch" /\ luck /\ Mood)
  BY <1>1, <1>2, <1>4 DEF PickedBranch
<1>7. IsAlign(n)' <=> (kind = "p2align" /\ ~clang_mode /\ instr_ok)
  BY <1>1, <1>2, <1>4 DEF IsAlign
<1>8. ASSUME NEW m \in 1..n PROVE JumpTable(m)' <=> JumpTable(m)
  <2>1. \A a \in 1..(m - 1) : a \in 1..(n - 1) /\ \A k \in (a + 1)..(m - 1) : k \in 1..(n - 1)
    BY <1>1
  <2> QED BY <1>5, <2>1 DEF JumpTable
<1> QED BY <1>5, <1>6, <1>7, <1>8

\* The two flags about labels, as of the line after the one that is read.
LEMMA LabelsKeep ==
  ASSUME NEW kind, NEW luck \in BOOLEAN, Reads(kind, luck)
  PROVE  Labels'
<1>0. PICK n : n = NextLine
  OBVIOUS
<1>1. /\ n \in Nat /\ lines'[n] = kind /\ NextLine' = n + 1
      /\ \A i \in 1..(n - 1) : lines'[i] = lines[i]
      /\ Len(lines) + 1 = n
  BY <1>0, ReadFacts
<1>2. /\ \A m \in 1..n : (Native(m)' <=> Native(m))
      /\ Mood <=> Native(n)
  BY <1>0, ModesKeep
<1>3. /\ \A m \in 1..(n - 1) : (PickedBranch(m)' <=> PickedBranch(m))
      /\ \A m \in 1..(n - 1) : (IsAlign(m)' <=> IsAlign(m))
      /\ \A m \in 1..n : (JumpTable(m)' <=> JumpTable(m))
      /\ PickedBranch(n)' <=> (kind = "branch" /\ luck /\ Mood)
      /\ IsAlign(n)' <=> (kind = "p2align" /\ ~clang_mode /\ instr_ok)
  BY <1>0, MarksKeep
<1>4. /\ skip_next_label <=> JumpTable(n)
      /\ instrument_next <=> Waiting(n)
  BY <1>0 DEF Reads, ScanInv, Labels
<1>5. /\ skip_next_label' = IF Mood /\ ~pass_thru_on /\ kind = "branch" /\ luck THEN FALSE
                            ELSE Align(kind, instr_ok, skip_next_label)
      /\ instrument_next' <=>
           \/ instrument_next /\ ~(~pass_thru_on /\ Mood /\ instrument_next /\ kind \in Instructions)
           \/ Mood /\ ~pass_thru_on /\ kind = "func"
           \/ Mood /\ ~pass_thru_on /\ kind = "branch" /\ luck /\ ~skip_next_label
      /\ ~pass_thru_on
  BY DEF Reads, ReadLine
<1>6. /\ \A a \in 1..(n - 1) : a \in 1..n /\ a # n
      /\ n \in 1..n /\ \A a \in 1..n : a = n \/ a \in 1..(n - 1)
      /\ n - 1 \in Int /\ (n + 1) - 1 = n
  BY <1>1
<1>7. skip_next_label' <=> JumpTable(n + 1)'
  <2>1. JumpTable(n + 1)' <=>
          \E a \in 1..n : IsAlign(a)' /\ \A m \in (a + 1)..n : ~PickedBranch(m)'
    BY <1>6 DEF JumpTable
  <2>2. \A a \in 1..(n - 1) :
          /\ n \in (a + 1)..n
          /\ \A m \in (a + 1)..(n - 1) : m \in 1..(n - 1) /\ m \in (a + 1)..n
          /\ \A m \in (a + 1)..n : m = n \/ m \in (a + 1)..(n - 1)
    BY <1>1
  <2>3. \A m \in (n + 1)..n : FALSE
    BY <1>1
  <2>4. JumpTable(n + 1)' <=>
          \/ IsAlign(n)'
          \/ ~PickedBranch(n)' /\
             \E a \in 1..(n - 1) : IsAlign(a)' /\ \A m \in (a + 1)..(n - 1) : ~PickedBranch(m)'
    <3>1. ASSUME NEW a \in 1..(n - 1)
          PROVE  (\A m \in (a + 1)..n : ~PickedBranch(m)') <=>
                   (~PickedBranch(n)' /\ \A m \in (a + 1)..(n - 1) : ~PickedBranch(m)')
      BY <2>2
    <3> QED BY <1>6, <2>1, <2>3, <3>1
  <2>5. JumpTable(n + 1)' <=> IsAlign(n)' \/ (~PickedBranch(n)' /\ JumpTable(n))
    <3>1. (\E a \in 1..(n - 1) : IsAlign(a)' /\ \A m \in (a + 1)..(n - 1) : ~PickedBranch(m)')
            <=> JumpTable(n)
      <4>1. ASSUME NEW a \in 1..(n - 1)
            PROVE  (\A m \in (a + 1)..(n - 1) : ~PickedBranch(m)') <=>
                     (\A m \in (a + 1)..(n - 1) : ~PickedBranch(m))
        BY <1>3, <2>2
      <4> QED BY <1>3, <4>1 DEF JumpTable
    <3> QED BY <2>4, <3>1
  <2>6. CASE Mood /\ kind = "branch" /\ luck
    BY <1>3, <1>5, <2>5, <2>6
  <2>7. CASE ~(Mood /\ kind = "branch" /\ luck)
    BY <1>3, <1>4, <1>5, <2>5, <2>7 DEF Align
  <2> QED BY <2>6, <2>7
<1>8. instrument_next' <=> Waiting(n + 1)'
  <2> DEFINE Label(l) == Native(l) /\ (lines[l] = "func" \/ (PickedBranch(l) /\ ~JumpTable(l)))
             Insn(m) == lines[m] \in Instructions /\ Native(m)
  <2>1. Waiting(n + 1)' <=> \E l \in 1..n : Label(l)' /\ \A m \in (l + 1)..n : ~Insn(m)'
    BY <1>6 DEF Waiting
  <2>2. \A l \in 1..(n - 1) :
          /\ n \in (l + 1)..n
          /\ \A m \in (l + 1)..(n - 1) : m \in 1..(n - 1) /\ m \in (l + 1)..n
          /\ \A m \in (l + 1)..n : m = n \/ m \in (l + 1)..(n - 1)
    BY <1>1
  <2>3. \A m \in (n + 1)..n : FALSE
    BY <1>1
  <2>4. Waiting(n) <=> \E l \in 1..(n - 1) : Label(l) /\ \A m \in (l + 1)..(n - 1) : ~Insn(m)
    BY DEF Waiting
  <2>5. \A l \in 1..(n - 1) : (Label(l)' <=> Label(l)) /\ (Insn(l)' <=> Insn(l))
    BY <1>1, <1>2, <1>3, <1>6
  <2>6. Label(n)' <=> Mood /\ (kind = "func" \/ (kind = "branch" /\ luck /\ ~skip_next_label))
    BY <1>1, <1>2, <1>3, <1>4, <1>6
  <2>7. Insn(n)' <=> kind \in Instructions /\ Mood
    BY <1>1, <1>2, <1>6
  <2> HIDE DEF Label, Insn
  <2>8. ASSUME NEW l \in 1..(n - 1)
        PROVE  (\A m \in (l + 1)..n : ~Insn(m)') <=>
                 (~Insn(n)' /\ \A m \in (l + 1)..(n - 1) : ~Insn(m))
    BY <2>2, <2>5
  <2>9. Waiting(n + 1)' <=> Label(n)' \/ (~Insn(n)' /\ Waiting(n))
    BY <1>6, <2>1, <2>3, <2>4, <2>5, <2>8
  <2> QED BY <1>4, <1>5, <2>6, <2>7, <2>9
<1> QED BY <1>1, <1>7, <1>8 DEF Labels

\* What is put in front of the line and behind it.
LEMMA PlacedKeeps ==
  ASSUME NEW kind, NEW luck \in BOOLEAN, Reads(kind, luck)
  PROVE  TrampolinesPlaced'
<1>0. PICK n : n = NextLine
  OBVIOUS
<1>1. /\ n \in Nat /\ lines'[n] = kind /\ Len(lines') = n /\ Len(lines) = n - 1 /\ ~pass_thru_on
      /\ pass_thru_on' = pass_thru_on
      /\ \A i \in 1..(n - 1) : lines'[i] = lines[i]
      /\ \A i \in 1..(n - 1) : (i \in picked' <=> i \in picked)
      /\ n \in picked' <=> luck
  BY <1>0, ReadFacts DEF Reads
<1>2. /\ \A m \in 1..n : (Native(m)' <=> Native(m))
      /\ Mood <=> Native(n)
  BY <1>0, ModesKeep
<1>3. /\ \A m \in 1..(n - 1) : (PickedBranch(m)' <=> PickedBranch(m))
      /\ \A m \in 1..n : (JumpTable(m)' <=> JumpTable(m))
  BY <1>0, MarksKeep
<1>4. instrument_next <=> Waiting(n)
  BY <1>0 DEF Reads, ScanInv, Labels
<1>5. /\ before = {m \in 1..(n - 1) : Entered(m)}
      /\ after = {m \in 1..(n - 1) : lines[m] = "jcc" /\ m \in picked /\ Native(m)}
  BY <1>1 DEF Reads, ScanInv, TrampolinesPlaced
<1>6. /\ before' = IF Mood /\ instrument_next /\ kind \in Instructions THEN before \cup {n} ELSE before
      /\ after' = IF Mood /\ kind = "jcc" /\ luck THEN after \cup {n} ELSE after
  BY <1>0, <1>1 DEF Reads, ReadLine, NextLine
<1>7. /\ \A a \in 1..(n - 1) : a \in 1..n /\ a # n
      /\ n \in 1..n /\ \A a \in 1..n : a = n \/ a \in 1..(n - 1)
  BY <1>1
<1>8. ASSUME NEW m \in 1..n
      PROVE  /\ \A l \in 1..(m - 1) : l \in 1..(n - 1)
             /\ \A l \in 1..(m - 1) : \A k \in (l + 1)..(m - 1) : k \in 1..(n - 1)
  BY <1>1
<1>9. ASSUME NEW m \in 1..n PROVE Waiting(m)' <=> Waiting(m)
  <2>1. \A l \in 1..(m - 1) :
          /\ (Native(l) /\ (lines[l] = "func" \/ (PickedBranch(l) /\ ~JumpTable(l))))' <=>
               (Native(l) /\ (lines[l] = "func" \/ (PickedBranch(l) /\ ~JumpTable(l))))
    BY <1>1, <1>2, <1>3, <1>7, <1>8
  <2>2. \A l \in 1..(m - 1) : \A k \in (l + 1)..(m - 1) :
          (lines[k] \in Instructions /\ Native(k))' <=> (lines[k] \in Instructions /\ Native(k))
    BY <1>1, <1>2, <1>7, <1>8
  <2> QED BY <2>1, <2>2 DEF Waiting
<1>10. \A m : /\ Entered(m) <=> lines[m] \in Instructions /\ Native(m) /\ Waiting(m)
              /\ Entered(m)' <=> lines'[m] \in Instructions /\ Native(m)' /\ Waiting(m)'
  BY DEF Entered, Waiting
<1>11. \A m \in 1..(n - 1) : (Entered(m)' <=> Entered(m))
  BY <1>1, <1>2, <1>7, <1>9, <1>10
<1>12. Entered(n)' <=> kind \in Instructions /\ Mood /\ instrument_next
  BY <1>1, <1>2, <1>4, <1>7, <1>9, <1>10
<1>13. before' = {m \in 1..n : Entered(m)'}
  BY <1>5, <1>6, <1>7, <1>11, <1>12
<1>14. after' = {m \in 1..n : lines'[m] = "jcc" /\ m \in picked' /\ Native(m)'}
  BY <1>1, <1>2, <1>5, <1>6, <1>7
<1> QED BY <1>1, <1>13, <1>14 DEF TrampolinesPlaced

LEMMA ScanInitInv == ScanInit => ScanInv
<1> SUFFICES ASSUME ScanInit PROVE ScanInv
  OBVIOUS
<1>1. /\ lines = <<>> /\ Len(lines) = 0 /\ NextLine = 1 /\ lines \in Seq(LineClasses)
      /\ before = {} /\ after = {} /\ picked = {} /\ scan \in Scans
      /\ instr_ok = FALSE /\ skip_csect = FALSE /\ skip_next_label = FALSE
      /\ skip_intel = FALSE /\ skip_app = FALSE /\ instrument_next = FALSE
  BY EmptySeq DEF ScanInit, NextLine
<1>2. \A kinds : LastOf(kinds, 1) = "none"
  BY DEF LastOf
<1>3. ~JumpTable(1) /\ ~Waiting(1)
  BY DEF JumpTable, Waiting
<1>4. ScanTypes
  BY <1>1 DEF ScanTypes
<1>5. TrampolinesPlaced
  BY <1>1 DEF TrampolinesPlaced
<1>6. Modes
  BY <1>1, <1>2 DEF Modes
<1>7. Labels
  BY <1>1, <1>3 DEF Labels
<1> QED BY <1>4, <1>5, <1>6, <1>7 DEF ScanInv

LEMMA ScanStepInv == ScanInv /\ [ScanNext]_scanVars => ScanInv'
<1> SUFFICES ASSUME ScanInv, [ScanNext]_scanVars PROVE ScanInv'
  OBVIOUS
<1>1. CASE UNCHANGED scanVars
  <2>1. /\ lines' = lines /\ use_64bit' = use_64bit /\ clang_mode' = clang_mode /\ picked' = picked
        /\ scan' = scan /\ before' = before /\ after' = after /\ pass_thru_on' = pass_thru_on
        /\ instr_ok' = instr_ok /\ skip_csect' = skip_csect /\ skip_intel' = skip_intel
        /\ skip_app' = skip_app /\ skip_next_label' = skip_next_label
        /\ instrument_next' = instrument_next
    BY <1>1 DEF scanVars
  <2>2. NextLine' = NextLine /\ (ScanTypes' <=> ScanTypes)
    BY <2>1 DEF NextLine, ScanTypes
  <2>3. \A kinds, n : LastOf(kinds, n)' = LastOf(kinds, n)
    BY <2>1 DEF LastOf
  <2>4. \A n : /\ Native(n)' <=> Native(n)
               /\ PickedBranch(n)' <=> PickedBranch(n)
               /\ IsAlign(n)' <=> IsAlign(n)
    BY <2>1, <2>3 DEF Native, PickedBranch, IsAlign
  <2>5. \A n : JumpTable(n)' <=> JumpTable(n)
    BY <2>4 DEF JumpTable
  <2>6. \A n : (Waiting(n)' <=> Waiting(n)) /\ (Entered(n)' <=> Entered(n))
    BY <2>1, <2>4, <2>5 DEF Waiting, Entered
  <2>7. PICK n : n = NextLine
    OBVIOUS
  <2>8. Modes' <=> Modes
    BY <2>1, <2>2, <2>3, <2>7 DEF Modes
  <2>9. Labels' <=> Labels
    BY <2>1, <2>2, <2>5, <2>6, <2>7 DEF Labels
  <2>10. TrampolinesPlaced' <=> TrampolinesPlaced
    BY <2>1, <2>4, <2>6 DEF TrampolinesPlaced
  <2> QED BY <2>1, <2>2, <2>8, <2>9, <2>10 DEF ScanInv
<1>2. ASSUME NEW kind \in scan.kinds, NEW luck \in BOOLEAN, luck => kind \in {"jcc", "branch"},
             ReadLine(kind, luck)
      PROVE  ScanInv'
  <2>1. kind \in LineClasses /\ scan \in Scans
    BY ScansAssumption DEF ScanInv, ScanTypes
  <2>2. CASE ~pass_thru_on
    <3>1. Reads(kind, luck)
      BY <1>2, <2>1, <2>2 DEF Reads
    <3>2. PICK n : n = NextLine
      OBVIOUS
    <3>3. ScanTypes'
      BY <2>1, <3>1, <3>2, ReadFacts DEF ScanTypes
    <3> QED BY <3>1, <3>2, <3>3, ModesKeep, LabelsKeep, PlacedKeeps DEF ScanInv
  <2>3. CASE pass_thru_on
    <3>1. /\ lines' = Append(lines, kind) /\ lines \in Seq(LineClasses) /\ scan' = scan
          /\ picked \subseteq 1..Len(lines)
          /\ picked' = IF luck THEN picked \cup {Len(lines) + 1} ELSE picked
      BY <1>2 DEF ScanInv, ScanTypes, ReadLine
    <3>2. lines' \in Seq(LineClasses) /\ Len(lines') = Len(lines) + 1 /\ Len(lines) \in Nat
      BY <2>1, <3>1, AppendProperties, LenProperties
    <3>3. picked' \subseteq 1..Len(lines')
      <4>1. \A i \in picked : i \in 1..Len(lines')
        BY <3>1, <3>2
      <4>2. Len(lines) + 1 \in 1..Len(lines')
        BY <3>2
      <4> QED BY <3>1, <4>1, <4>2
    <3>4. before' = before /\ after' = after /\ pass_thru_on'
      BY <1>2, <2>3 DEF ReadLine, Mood
    <3> QED BY <2>1, <2>3, <3>1, <3>2, <3>3, <3>4 DEF ScanInv, ScanTypes, TrampolinesPlaced
  <2> QED BY <2>2, <2>3
<1> QED BY <1>1, <1>2 DEF ScanNext

(* TrampolinesPlaced: for any assembly file and whatever the ratio picks,  *)
(* the six flags that add_instrumentation keeps while it reads put the     *)
(* trampolines exactly where the whole text says they belong               *)
(* (src/afl-as.c:220-480).                                                 *)
THEOREM TrampolinesPlacedHolds == ScanSpec => []TrampolinesPlaced
<1>1. ScanInv => TrampolinesPlaced
  BY DEF ScanInv
<1> QED BY <1>1, ScanInitInv, ScanStepInv, PTL DEF ScanSpec

-----------------------------------------------------------------------------
(* afl-analyze.                                                            *)

\* What a byte that held v holds before the k-th change of it, and after the last.
Held(v, k) ==
  CASE k = 1 -> v [] k = 2 -> 255 - v [] k = 3 -> FlipLowest(v)
    [] k = 4 -> (v + 240) % 256 [] k = 5 -> (v + 16) % 256

\* The file of the k-th run for byte i, and the checksum of that run.
Changed(i, k) == [anFile EXCEPT ![i] = Held(anFile[i], k + 1)]
SumOf(i, k) == Checksum(parser, Changed(i, k))
Untouched == Cksum(0, [i \in parser.tags |-> anFile[i] \div 64])

InField(i) == \E g \in DOMAIN parser.magic : i \in parser.magic[g]
SameField(i, j) == \A g \in DOMAIN parser.magic : i \in parser.magic[g] <=> j \in parser.magic[g]

AnalyzeTypes ==
  /\ anStage \in {"off", "walk", "dump", "reported", "aborted"}
  /\ parser \in Parsers /\ anFile \in AnalyzeFiles
  /\ \A g \in DOMAIN parser.magic : parser.magic[g] \subseteq DOMAIN anFile
  /\ parser.tags \subseteq DOMAIN anFile
  /\ bytes \in Seq(0..255) /\ Len(bytes) = Len(anFile)
  /\ here \in 1 .. Len(anFile) + 1 /\ change \in 1..5
  /\ DOMAIN cks = 1..4 /\ DOMAIN prev_cks = 1..4
  /\ b_data \in Seq([resp : 0..3, bit : {0, 1}]) /\ seq_bit \in {0, 1}
  /\ exec_hangs \in Nat
  /\ report \in Seq([from : Nat, len : Nat, rtype : Nat])

\* The byte under way is changed as far as the runs for it were made.
InPlace ==
  /\ here = Len(anFile) + 1 => change = 1
  /\ anStage \in {"off", "dump", "reported"} => bytes = anFile /\ change = 1
  /\ anStage = "off" => here = 1 /\ change = 1 /\ exec_hangs = 0 /\ b_data = <<>>
  /\ \A i \in DOMAIN anFile :
       bytes[i] = IF i = here /\ anStage \in {"walk", "aborted"} THEN Held(anFile[i], change) ELSE anFile[i]
  /\ anStage \in {"off", "walk"} => report = <<>>
  /\ anStage = "walk" => Len(b_data) = here - 1
  /\ anStage \in {"dump", "reported"} => Len(b_data) = Len(anFile)

\* The checksums in hand are those of the byte under way and of the one before.
Summed ==
  anStage = "walk" /\ exec_hangs = 0 =>
    /\ orig_cksum = Untouched
    /\ \A i \in 1..Len(anFile), k \in 1..4 :
         /\ i = here /\ k < change => cks[k] = SumOf(i, k) /\ cks[k] # HangCksum
         /\ i + 1 = here => prev_cks[k] = SumOf(i, k) /\ prev_cks[k] # HangCksum
    /\ \A i \in 1..Len(anFile) : i + 1 = here => b_data[i].bit = seq_bit

\* What was noted of a byte tells the fields apart.
Told(m) ==
  /\ Ignored(m) => b_data[m].resp = RespNone
  /\ ~InField(m) => b_data[m].resp \in {RespNone, RespMinor}
Parted(m) == ~SameField(m, m + 1) => b_data[m].bit # b_data[m + 1].bit
Noted ==
  exec_hangs = 0 /\ anStage \in {"walk", "dump", "reported"} =>
    /\ \A m \in 1 .. Len(b_data) : Told(m)
    /\ \A m \in 1 .. Len(b_data) - 1 : Parted(m)

\* The runs printed so far lie side by side, from the first byte on.
InRun(r, i) == i \in Nat /\ report[r].from <= i /\ i < report[r].from + report[r].len
Tiled ==
  /\ \A r \in DOMAIN report :
       /\ report[r].len # 0 /\ report[r].from # 0
       /\ report[r].from + report[r].len = IF r < Len(report) THEN report[r + 1].from ELSE here
  /\ IF Len(report) = 0 THEN anStage = "dump" => here = 1 ELSE report[1].from = 1
  /\ anStage \in {"dump", "reported"} => \A i \in 1 .. here - 1 : \E r \in DOMAIN report : InRun(r, i)
  /\ anStage = "reported" => here = Len(anFile) + 1

\* A run does not go over the end of a field.
Whole ==
  exec_hangs = 0 /\ anStage \in {"dump", "reported"} =>
    \A r \in DOMAIN report :
      /\ \A i, j \in 1 .. Len(anFile) : InRun(r, i) /\ InRun(r, j) => SameField(i, j)
      /\ \A i \in 1 .. Len(anFile) : InRun(r, i) /\ ~InField(i) => report[r].rtype < RespLen

AnalyzeInv == AnalyzeTypes /\ InPlace /\ Summed /\ Noted /\ Tiled /\ Whole

-----------------------------------------------------------------------------
LEMMA LeastOf ==
  ASSUME NEW T \in SUBSET Nat, T # {}
  PROVE  \E x \in T : \A y \in T : x <= y
<1> DEFINE R == OpToRel(<, Nat)
<1>1. IsWellFoundedOn(R, Nat) /\ \A m, n \in Nat : n < m => <<n, m>> \in R
  BY NatLessThanWellFounded DEF OpToRel
<1> HIDE DEF R
<1>2. PICK m \in T : \A n \in T : ~(<<n, m>> \in R)
  BY <1>1, WFMin
<1>3. ASSUME NEW n \in T PROVE m <= n
  <2>1. m \in Nat /\ n \in Nat /\ ~(n < m)
    BY <1>1, <1>2
  <2> QED BY <2>1
<1> QED BY <1>3

LEMMA HeldFacts ==
  ASSUME NEW v \in 0..255
  PROVE  /\ \A k \in 1..5 : Held(v, k) \in 0..255
         /\ \A k \in 1..4 : NextValue(Held(v, k), k) = Held(v, k + 1) /\ Held(v, k + 1) # v
         /\ Held(v, 1) = v /\ UndoLast(Held(v, 5)) = v
         /\ Held(v, 3) \div 64 = v \div 64
<1>1. /\ Held(v, 1) = v /\ Held(v, 2) = 255 - v /\ Held(v, 3) = FlipLowest(v)
      /\ Held(v, 4) = (v + 240) % 256 /\ Held(v, 5) = (v + 16) % 256
  BY DEF Held
<1>2. /\ FlipLowest(v) \in 0..255 /\ FlipLowest(v) # v /\ FlipLowest(FlipLowest(v)) = v
      /\ FlipLowest(v) \div 64 = v \div 64
  BY DEF FlipLowest
<1>3. /\ (v + 240) % 256 \in 0..255 /\ (v + 240) % 256 # v
      /\ (v + 16) % 256 \in 0..255 /\ (v + 16) % 256 # v
      /\ (((v + 240) % 256) + 32) % 256 = (v + 16) % 256
      /\ (((v + 16) % 256) + 256 - 16) % 256 = v
      /\ 255 - v \in 0..255 /\ 255 - v # v /\ 255 - (255 - v) = v /\ v + 256 - 16 = v + 240
  OBVIOUS
<1>4. /\ NextValue(v, 1) = 255 - v /\ NextValue(255 - v, 2) = FlipLowest(v)
      /\ NextValue(FlipLowest(v), 3) = (v + 240) % 256
      /\ NextValue((v + 240) % 256, 4) = (v + 16) % 256
  BY <1>2, <1>3 DEF NextValue
<1>5. UndoLast(Held(v, 5)) = v
  BY <1>1, <1>3 DEF UndoLast
<1> QED BY <1>1, <1>2, <1>3, <1>4, <1>5

\* The checksum of a run for one byte says in which field it lies, if in any.
LEMMA SumFacts ==
  ASSUME AnalyzeTypes, NEW i \in DOMAIN anFile, NEW k \in 1..4, SumOf(i, k) # HangCksum
  PROVE  /\ \A g \in DOMAIN parser.magic : i \in parser.magic[g] => SumOf(i, k) = Cksum(g, <<>>)
         /\ ~InField(i) => SumOf(i, k) = Cksum(0, [j \in parser.tags |-> Changed(i, k)[j] \div 64])
<1> DEFINE f == Changed(i, k)
<1>1. /\ anFile \in Seq(0..255) /\ parser \in Parsers
      /\ DOMAIN parser.magic \subseteq Nat \ {0}
      /\ \A g, h \in DOMAIN parser.magic : g # h => parser.magic[g] \cap parser.magic[h] = {}
  BY AnalyzeAssumption DEF AnalyzeTypes
<1>2. anFile[i] \in 0..255 /\ Held(anFile[i], k + 1) # anFile[i]
  <2>1. anFile[i] \in 0..255
    <3>1. DOMAIN anFile = 1..Len(anFile)
      BY <1>1, LenProperties
    <3> QED BY <1>1, <3>1, ElementOfSeq
  <2> QED BY <2>1, HeldFacts
<1>3. \A j \in DOMAIN anFile : f[j] # anFile[j] <=> j = i
  BY <1>2 DEF Changed
<1>4. Broken(parser, f) = {g \in DOMAIN parser.magic : i \in parser.magic[g]}
  <2> HIDE DEF f
  <2> QED BY <1>3 DEF Broken, AnalyzeTypes
<1>5. ~HangsOn(parser, f)
  BY DEF SumOf, Checksum
<1>6. ASSUME NEW g \in DOMAIN parser.magic, i \in parser.magic[g]
      PROVE  SumOf(i, k) = Cksum(g, <<>>)
  <2> HIDE DEF f
  <2>1. Broken(parser, f) = {g} /\ g \in Nat
    BY <1>1, <1>4, <1>6
  <2>2. (CHOOSE x \in Broken(parser, f) : \A y \in Broken(parser, f) : x <= y) = g
    BY <2>1
  <2> QED BY <1>5, <2>1, <2>2 DEF SumOf, Checksum, f
<1>7. ASSUME ~InField(i)
      PROVE  SumOf(i, k) = Cksum(0, [j \in parser.tags |-> f[j] \div 64])
  <2>1. Broken(parser, f) = {}
    BY <1>4, <1>7 DEF InField
  <2> QED BY <1>5, <2>1 DEF SumOf, Checksum
<1> QED BY <1>6, <1>7

\* The runs for bytes of different fields never agree.
LEMMA FieldsPart ==
  ASSUME AnalyzeTypes, NEW i \in DOMAIN anFile, NEW j \in DOMAIN anFile, ~SameField(i, j),
         \A k \in 1..4 : SumOf(i, k) # HangCksum /\ SumOf(j, k) # HangCksum
  PROVE  \A k \in 1..4 : SumOf(i, k) # SumOf(j, k)
<1>1. /\ DOMAIN parser.magic \subseteq Nat \ {0}
      /\ \A g, h \in DOMAIN parser.magic : g # h => parser.magic[g] \cap parser.magic[h] = {}
  BY AnalyzeAssumption DEF AnalyzeTypes
<1>2. \A g, h, s, t : Cksum(g, s) = Cksum(h, t) => g = h
  <2>1. \A g, s : Cksum(g, s).field = g
    BY DEF Cksum
  <2> QED BY <2>1
<1>3. ASSUME NEW a \in DOMAIN anFile, NEW b \in DOMAIN anFile, NEW k \in 1..4,
             SumOf(a, k) # HangCksum, SumOf(b, k) # HangCksum,
             NEW g \in DOMAIN parser.magic, a \in parser.magic[g], b \notin parser.magic[g]
      PROVE  SumOf(a, k) # SumOf(b, k)
  <2>1. SumOf(a, k) = Cksum(g, <<>>)
    BY <1>3, SumFacts
  <2>2. CASE InField(b)
    <3>1. PICK h \in DOMAIN parser.magic : b \in parser.magic[h]
      BY <2>2 DEF InField
    <3>2. SumOf(b, k) = Cksum(h, <<>>) /\ h # g
      BY <1>3, <3>1, SumFacts
    <3> QED BY <1>2, <2>1, <3>2
  <2>3. CASE ~InField(b)
    <3>1. SumOf(b, k) = Cksum(0, [m \in parser.tags |-> Changed(b, k)[m] \div 64])
      BY <1>3, <2>3, SumFacts
    <3>2. g # 0
      BY <1>1
    <3> QED BY <1>2, <2>1, <3>1, <3>2
  <2> QED BY <2>2, <2>3
<1>4. PICK g \in DOMAIN parser.magic : ~(i \in parser.magic[g] <=> j \in parser.magic[g])
  BY DEF SameField
<1> QED BY <1>3, <1>4

\* What the four runs for a byte say of it.
LEMMA AnswerFacts ==
  ASSUME AnalyzeTypes, NEW i \in DOMAIN anFile, orig_cksum = Untouched,
         \A k \in 1..4 : cks[k] = SumOf(i, k) /\ cks[k] # HangCksum
  PROVE  /\ ~InField(i) => Answer(cks) \in {RespNone, RespMinor}
         /\ Ignored(i) => Answer(cks) = RespNone
<1>1. /\ anFile \in Seq(0..255) /\ anFile[i] \in 0..255
      /\ parser.tags \subseteq DOMAIN anFile
  <2>1. anFile \in Seq(0..255)
    BY AnalyzeAssumption DEF AnalyzeTypes
  <2> QED BY <2>1, LenProperties DEF AnalyzeTypes
<1>2. \A k \in 1..4 : \A m \in parser.tags :
        Changed(i, k)[m] = IF m = i THEN Held(anFile[i], k + 1) ELSE anFile[m]
  BY <1>1 DEF Changed
<1>3. /\ 2 \in 1..4 /\ 2 + 1 = 3 /\ Held(anFile[i], 3) \div 64 = anFile[i] \div 64
  <2>1. Held(anFile[i], 3) \div 64 = anFile[i] \div 64
    BY <1>1, HeldFacts
  <2> QED BY <2>1
<1>4. ASSUME ~InField(i) PROVE cks[2] = orig_cksum
  <2>1. \A m \in parser.tags : Changed(i, 2)[m] \div 64 = anFile[m] \div 64
    BY <1>2, <1>3
  <2>2. SumOf(i, 2) = Cksum(0, [m \in parser.tags |-> Changed(i, 2)[m] \div 64])
    BY <1>3, <1>4, SumFacts
  <2>3. [m \in parser.tags |-> Changed(i, 2)[m] \div 64] = [m \in parser.tags |-> anFile[m] \div 64]
    BY <2>1
  <2> QED BY <1>3, <2>2, <2>3 DEF Untouched
<1>5. ASSUME Ignored(i), NEW k \in 1..4 PROVE cks[k] = orig_cksum
  <2>1. ~InField(i) /\ i \notin parser.tags
    BY <1>5 DEF Ignored, InField
  <2>2. \A m \in parser.tags : Changed(i, k)[m] \div 64 = anFile[m] \div 64
    BY <1>2, <2>1
  <2>3. SumOf(i, k) = Cksum(0, [m \in parser.tags |-> Changed(i, k)[m] \div 64])
    BY <2>1, SumFacts
  <2>4. [m \in parser.tags |-> Changed(i, k)[m] \div 64] = [m \in parser.tags |-> anFile[m] \div 64]
    BY <2>2
  <2> QED BY <2>3, <2>4 DEF Untouched
<1>6. ASSUME ~InField(i) PROVE Answer(cks) \in {RespNone, RespMinor}
  <2>1. 2 \in {k \in 1..4 : cks[k] = orig_cksum}
    BY <1>4, <1>6
  <2> QED BY <2>1 DEF Answer, RespNone, RespMinor
<1>7. ASSUME Ignored(i) PROVE Answer(cks) = RespNone
  <2>1. {k \in 1..4 : cks[k] = orig_cksum} = 1..4
    BY <1>5, <1>7
  <2> QED BY <2>1 DEF Answer
<1> QED BY <1>6, <1>7

LEMMA AnswerRange == \A c : Answer(c) \in 0..3
  BY DEF Answer, RespNone, RespMinor, RespVariable, RespFixed

\* The run that is printed next: its bytes have one bit, and lie in one field.
LEMMA RunFacts ==
  ASSUME AnalyzeTypes, Len(b_data) = Len(anFile), NEW i \in 1..Len(anFile),
         NEW n, n = RunLength(i)
  PROVE  /\ n \in 1 .. Len(anFile) - i + 1
         /\ \A j \in i .. i + n - 1 : b_data[j].bit = b_data[i].bit
<1>1. Len(bytes) = Len(anFile) /\ Len(anFile) \in Nat /\ anFile \in Seq(0..255)
  <2>1. anFile \in Seq(0..255)
    BY AnalyzeAssumption DEF AnalyzeTypes
  <2> QED BY <2>1, LenProperties DEF AnalyzeTypes
<1> DEFINE N == Len(anFile)
           U == {m \in 1 .. N - i + 1 : i + m <= N => b_data[i + m].bit # b_data[i].bit}
           RunOk(m) == /\ \A j \in i .. i + m - 1 : b_data[j].bit = b_data[i].bit
                       /\ i + m <= N => b_data[i + m].bit # b_data[i].bit
<1>2. N - i + 1 \in U /\ U \in SUBSET Nat
  BY <1>1
<1>3. PICK m \in U : \A l \in U : m <= l
  <2> HIDE DEF U
  <2> QED BY <1>2, LeastOf
<1>4. m \in 1 .. N - i + 1 /\ RunOk(m)
  <2>1. ASSUME NEW j \in i .. i + m - 1, j # i PROVE b_data[j].bit = b_data[i].bit
    <3>1. j - i \in 1 .. N - i + 1 /\ i + (j - i) = j /\ ~(m <= j - i)
      BY <1>1, <1>2, <2>1
    <3>2. j - i \notin U
      BY <1>3, <3>1
    <3> QED BY <3>1, <3>2
  <2> QED BY <2>1
<1>5. n = CHOOSE l \in 1 .. N - i + 1 : RunOk(l)
  BY <1>1 DEF RunLength
<1> HIDE DEF RunOk
<1>6. n \in 1 .. N - i + 1 /\ RunOk(n)
  BY <1>4, <1>5
<1> QED BY <1>6 DEF RunOk

LEMMA OneField ==
  ASSUME AnalyzeTypes, Len(b_data) = Len(anFile), \A m \in 1 .. Len(b_data) - 1 : Parted(m),
         NEW a \in 1..Len(anFile), NEW z \in 1..Len(anFile),
         \A j \in a..z : b_data[j].bit = b_data[a].bit
  PROVE  \A j \in a..z : SameField(a, j)
<1>1. Len(anFile) \in Nat
  <2>1. anFile \in Seq(0..255)
    BY AnalyzeAssumption DEF AnalyzeTypes
  <2> QED BY <2>1, LenProperties
<1> DEFINE T == {j \in a..z : ~SameField(a, j)}
<1>2. ASSUME T # {} PROVE FALSE
  <2>1. T \in SUBSET Nat
    OBVIOUS
  <2>2. PICK j \in T : \A l \in T : j <= l
    <3> HIDE DEF T
    <3> QED BY <1>2, <2>1, LeastOf
  <2>3. j \in a..z /\ j # a /\ ~SameField(a, j)
    BY <2>2 DEF SameField
  <2>4. PICK l : l = j - 1
    OBVIOUS
  <2>5. l \in a..z /\ l + 1 = j /\ l \in 1 .. Len(b_data) - 1 /\ ~(j <= l)
    BY <1>1, <2>3, <2>4
  <2>6. SameField(a, l)
    BY <2>2, <2>5
  <2>7. ~SameField(l, l + 1)
    BY <2>3, <2>5, <2>6 DEF SameField
  <2>8. b_data[l].bit # b_data[l + 1].bit
    BY <2>5, <2>7 DEF Parted
  <2> QED BY <2>3, <2>5, <2>8
<1> QED BY <1>2

-----------------------------------------------------------------------------
LEMMA FileFacts ==
  ASSUME AnalyzeTypes
  PROVE  /\ anFile \in Seq(0..255) /\ Len(anFile) \in Nat \ {0} /\ DOMAIN anFile = 1..Len(anFile)
         /\ \A i \in 1..Len(anFile) : anFile[i] \in 0..255
         /\ DOMAIN bytes = 1..Len(anFile) /\ Len(bytes) = Len(anFile)
         /\ here \in Nat /\ here # 0
<1>1. anFile \in Seq(0..255) /\ anFile # <<>>
  BY AnalyzeAssumption DEF AnalyzeTypes
<1>2. DOMAIN anFile = 1..Len(anFile) /\ Len(anFile) \in Nat
  BY <1>1, LenProperties
<1>3. Len(anFile) # 0
  BY <1>1, EmptySeq
<1>4. \A i \in 1..Len(anFile) : anFile[i] \in 0..255
  BY <1>1, ElementOfSeq
<1>5. DOMAIN bytes = 1..Len(anFile) /\ Len(bytes) = Len(anFile)
  BY LenProperties DEF AnalyzeTypes
<1>6. here \in Nat /\ here # 0
  BY <1>2 DEF AnalyzeTypes
<1> QED BY <1>1, <1>2, <1>3, <1>4, <1>5, <1>6

LEMMA SameFile ==
  ASSUME parser' = parser, anFile' = anFile
  PROVE  /\ \A i, k : SumOf(i, k)' = SumOf(i, k)
         /\ Untouched' = Untouched
         /\ \A i : (InField(i)' <=> InField(i)) /\ (Ignored(i)' <=> Ignored(i))
         /\ \A i, j : SameField(i, j)' <=> SameField(i, j)
<1>1. \A i, k : Changed(i, k)' = Changed(i, k)
  BY DEF Changed
<1>2. \A i, k : SumOf(i, k)' = SumOf(i, k)
  <2> TAKE i, k
  <2>1. PICK f : f = Changed(i, k)
    OBVIOUS
  <2>2. Changed(i, k)' = f
    BY <1>1, <2>1
  <2>3. (HangsOn(parser, f)' <=> HangsOn(parser, f)) /\ Broken(parser, f)' = Broken(parser, f)
    BY DEF HangsOn, Broken
  <2>4. SumOf(i, k)' = Checksum(parser, f)'
    BY <2>2 DEF SumOf, Checksum, HangsOn, Broken
  <2>5. SumOf(i, k) = Checksum(parser, f)
    BY <2>1 DEF SumOf
  <2> QED BY <2>3, <2>4, <2>5 DEF Checksum
<1>3. Untouched' = Untouched
  BY DEF Untouched
<1>4. \A i : (InField(i)' <=> InField(i)) /\ (Ignored(i)' <=> Ignored(i))
  BY DEF InField, Ignored
<1>5. \A i, j : SameField(i, j)' <=> SameField(i, j)
  BY DEF SameField
<1> QED BY <1>2, <1>3, <1>4, <1>5

LEMMA AnalyzeInitInv == AnalyzeInit => AnalyzeInv
<1> SUFFICES ASSUME AnalyzeInit PROVE AnalyzeInv
  OBVIOUS
<1>1. /\ anStage = "off" /\ parser \in Parsers /\ anFile \in AnalyzeFiles /\ bytes = anFile
      /\ here = 1 /\ change = 1 /\ b_data = <<>> /\ report = <<>> /\ exec_hangs = 0 /\ seq_bit = 0
      /\ DOMAIN cks = 1..4 /\ DOMAIN prev_cks = 1..4
  BY DEF AnalyzeInit
<1>2. anFile \in Seq(0..255)
  BY <1>1, AnalyzeAssumption
<1>3. AnalyzeTypes
  BY <1>1, <1>2, LenProperties, EmptySeq DEF AnalyzeInit, AnalyzeTypes
<1>4. InPlace
  BY <1>1, <1>3, FileFacts DEF InPlace
<1>5. Len(report) = 0 /\ DOMAIN report = {}
  BY <1>1
<1> QED BY <1>1, <1>3, <1>4, <1>5 DEF AnalyzeInv, Summed, Noted, Tiled, Whole

LEMMA DryRunKeeps ==
  ASSUME AnalyzeInv, DryRunFile PROVE AnalyzeInv'
<1>1. /\ anStage = "off" /\ anStage' \in {"aborted", "walk"} /\ bytes = anFile /\ here = 1
      /\ change = 1 /\ b_data = <<>> /\ report = <<>>
      /\ orig_cksum' = Checksum(parser, anFile)
      /\ anStage' = "walk" <=> orig_cksum' # HangCksum
      /\ exec_hangs' \in {0, 1}
      /\ UNCHANGED <<parser, anFile, bytes, here, change, cks, prev_cks, b_data, seq_bit, report>>
  BY DEF DryRunFile, AnalyzeInv, InPlace
<1>2. AnalyzeTypes'
  BY <1>1 DEF AnalyzeInv, AnalyzeTypes
<1>3. /\ anFile \in Seq(0..255) /\ Len(anFile) \in Nat \ {0} /\ DOMAIN anFile = 1..Len(anFile)
      /\ \A i \in 1..Len(anFile) : anFile[i] \in 0..255
  BY FileFacts DEF AnalyzeInv
<1>4. InPlace'
  <2>1. \A i \in DOMAIN anFile : Held(anFile[i], 1) = anFile[i]
    BY <1>3, HeldFacts
  <2>2. Len(b_data) = 0 /\ here - 1 = 0
    BY <1>1
  <2> QED BY <1>1, <1>3, <2>1, <2>2 DEF InPlace
<1>5. Summed'
  <2> SUFFICES ASSUME anStage' = "walk" PROVE Summed'
    BY DEF Summed
  <2>1. Broken(parser, anFile) = {}
    BY DEF Broken
  <2>2. Checksum(parser, anFile) = Untouched
    BY <1>1, <2>1 DEF Checksum, Untouched
  <2>3. Untouched' = Untouched
    BY <1>1, SameFile
  <2>4. \A i \in 1..Len(anFile), k \in 1..4 : ~(k < change') /\ i + 1 # here'
    BY <1>1
  <2> QED BY <1>1, <2>2, <2>3, <2>4 DEF Summed
<1>6. Len(b_data) = 0 /\ Len(report) = 0 /\ DOMAIN report = {}
  BY <1>1
<1>7. Noted' /\ Tiled' /\ Whole'
  BY <1>1, <1>6 DEF Noted, Tiled, Whole
<1> QED BY <1>2, <1>4, <1>5, <1>7 DEF AnalyzeInv

\* A run with the byte changed once more.
LEMMA ProbeKeeps ==
  ASSUME AnalyzeInv, NEW late \in BOOLEAN, Probe(late) PROVE AnalyzeInv'
<1>1. /\ anStage = "walk" /\ here <= Len(bytes) /\ change <= 4
      /\ bytes' = [bytes EXCEPT ![here] = NextValue(bytes[here], change)]
      /\ cks' = [cks EXCEPT ![change] = IF late THEN HangCksum ELSE Checksum(parser, bytes')]
      /\ exec_hangs' = exec_hangs + (IF cks'[change] = HangCksum THEN 1 ELSE 0)
      /\ change' = change + 1
      /\ UNCHANGED <<anStage, parser, anFile, here, orig_cksum, prev_cks, b_data, seq_bit, report>>
  BY DEF Probe
<1>2. /\ anFile \in Seq(0..255) /\ Len(anFile) \in Nat \ {0} /\ DOMAIN anFile = 1..Len(anFile)
      /\ \A i \in 1..Len(anFile) : anFile[i] \in 0..255
      /\ DOMAIN bytes = 1..Len(anFile) /\ Len(bytes) = Len(anFile)
      /\ bytes \in Seq(0..255) /\ DOMAIN cks = 1..4 /\ exec_hangs \in Nat
  BY FileFacts DEF AnalyzeInv, AnalyzeTypes
<1>3. here \in 1..Len(anFile) /\ change \in 1..4 /\ change + 1 \in 2..5 /\ here # Len(anFile) + 1
  BY <1>1, <1>2 DEF AnalyzeInv, AnalyzeTypes
<1>4. bytes[here] = Held(anFile[here], change) /\ \A i \in 1..Len(anFile) : i # here => bytes[i] = anFile[i]
  BY <1>1, <1>2, <1>3 DEF AnalyzeInv, InPlace
<1>5. /\ Held(anFile[here], change + 1) \in 0..255
      /\ NextValue(bytes[here], change) = Held(anFile[here], change + 1)
  <2>1. anFile[here] \in 0..255
    BY <1>2, <1>3
  <2>2. NextValue(Held(anFile[here], change), change) = Held(anFile[here], change + 1)
    BY <1>3, <2>1, HeldFacts
  <2>3. change + 1 \in 1..5
    BY <1>3
  <2>4. Held(anFile[here], change + 1) \in 0..255
    BY <2>1, <2>3, HeldFacts
  <2> QED BY <1>4, <2>2, <2>4
<1>6. /\ bytes' \in Seq(0..255) /\ Len(bytes') = Len(anFile)
      /\ \A i \in 1..Len(anFile) :
           bytes'[i] = IF i = here THEN Held(anFile[i], change + 1) ELSE anFile[i]
  <2>1. bytes' \in Seq(0..255) /\ Len(bytes') = Len(bytes)
    BY <1>1, <1>2, <1>3, <1>5, ExceptSeq
  <2> QED BY <1>1, <1>2, <1>3, <1>4, <1>5, <2>1
<1>7. AnalyzeTypes'
  <2>1. DOMAIN cks' = 1..4 /\ exec_hangs' \in Nat /\ change' \in 1..5
    BY <1>1, <1>2, <1>3
  <2> QED BY <1>1, <1>2, <1>6, <2>1 DEF AnalyzeInv, AnalyzeTypes
<1>8. InPlace'
  BY <1>1, <1>2, <1>3, <1>6 DEF AnalyzeInv, InPlace
<1>9. bytes' = Changed(here, change)
  <2>1. bytes' \in [1..Len(anFile) -> 0..255]
    BY <1>6, LenProperties
  <2>2. Changed(here, change) = [i \in 1..Len(anFile) |->
           IF i = here THEN Held(anFile[i], change + 1) ELSE anFile[i]]
    BY <1>2, <1>3 DEF Changed
  <2> QED BY <1>6, <2>1, <2>2
<1>10. Summed'
  <2> SUFFICES ASSUME exec_hangs' = 0 PROVE Summed'
    BY DEF Summed
  <2>1. exec_hangs = 0 /\ cks'[change] # HangCksum
    BY <1>1, <1>2
  <2>2. cks'[change] = SumOf(here, change) /\ \A k \in 1..4 : k # change => cks'[k] = cks[k]
    <3>1. cks'[change] = IF late THEN HangCksum ELSE Checksum(parser, bytes')
      BY <1>1, <1>2, <1>3
    <3>2. cks'[change] = Checksum(parser, Changed(here, change))
      BY <1>9, <2>1, <3>1
    <3>3. \A k \in 1..4 : k # change => cks'[k] = cks[k]
      BY <1>1, <1>2
    <3> QED BY <3>2, <3>3 DEF SumOf
  <2>3. \A i, k : SumOf(i, k)' = SumOf(i, k)
    BY <1>1, SameFile
  <2>4. Untouched' = Untouched
    BY <1>1, SameFile
  <2>5. \A k \in 1..4 : k < change + 1 => k = change \/ k < change
    BY <1>3
  <2>6. /\ orig_cksum = Untouched
        /\ \A i \in 1..Len(anFile), k \in 1..4 :
             /\ i = here /\ k < change => cks[k] = SumOf(i, k) /\ cks[k] # HangCksum
             /\ i + 1 = here => prev_cks[k] = SumOf(i, k) /\ prev_cks[k] # HangCksum
        /\ \A i \in 1..Len(anFile) : i + 1 = here => b_data[i].bit = seq_bit
    BY <1>1, <2>1 DEF AnalyzeInv, Summed
  <2>7. \A k \in 1..4 : k < change + 1 => cks'[k] = SumOf(here, k) /\ cks'[k] # HangCksum
    <3> TAKE k \in 1..4
    <3> HAVE k < change + 1
    <3>1. CASE k = change
      BY <2>1, <2>2, <3>1
    <3>2. CASE k < change /\ k # change
      BY <1>3, <2>2, <2>6, <3>2
    <3> QED BY <1>3, <2>5, <3>1, <3>2
  <2> QED BY <1>1, <2>3, <2>4, <2>6, <2>7 DEF Summed
<1>11. Noted'
  <2> SUFFICES ASSUME exec_hangs' = 0 PROVE Noted'
    BY DEF Noted
  <2>1. exec_hangs = 0
    BY <1>1, <1>2
  <2>2. \A i : (InField(i)' <=> InField(i)) /\ (Ignored(i)' <=> Ignored(i))
    BY <1>1, SameFile
  <2>3. \A i, j : SameField(i, j)' <=> SameField(i, j)
    BY <1>1, SameFile
  <2>4. \A m : (Told(m)' <=> Told(m)) /\ (Parted(m)' <=> Parted(m))
    BY <1>1, <2>2, <2>3 DEF Told, Parted
  <2> QED BY <1>1, <2>1, <2>4 DEF AnalyzeInv, Noted
<1>12. Tiled' /\ Whole'
  BY <1>1 DEF AnalyzeInv, Tiled, Whole
<1> QED BY <1>7, <1>8, <1>10, <1>11, <1>12 DEF AnalyzeInv

\* The byte is put back and what its four runs said is noted.
LEMMA ClassifyKeeps ==
  ASSUME AnalyzeInv, ClassifyByte PROVE AnalyzeInv'
<1>1. /\ anStage = "walk" /\ here <= Len(bytes) /\ change = 5
      /\ bytes' = [bytes EXCEPT ![here] = UndoLast(bytes[here])]
      /\ seq_bit' = IF \A k \in 1..4 : prev_cks[k] # cks[k] THEN 1 - seq_bit ELSE seq_bit
      /\ b_data' = Append(b_data, [resp |-> Answer(cks), bit |-> seq_bit'])
      /\ prev_cks' = cks /\ here' = here + 1 /\ change' = 1
      /\ UNCHANGED <<anStage, parser, anFile, orig_cksum, cks, exec_hangs, report>>
  BY DEF ClassifyByte
<1>2. /\ anFile \in Seq(0..255) /\ Len(anFile) \in Nat \ {0} /\ DOMAIN anFile = 1..Len(anFile)
      /\ \A i \in 1..Len(anFile) : anFile[i] \in 0..255
      /\ DOMAIN bytes = 1..Len(anFile) /\ Len(bytes) = Len(anFile)
      /\ bytes \in Seq(0..255) /\ DOMAIN cks = 1..4 /\ seq_bit \in {0, 1}
      /\ b_data \in Seq([resp : 0..3, bit : {0, 1}])
  BY FileFacts DEF AnalyzeInv, AnalyzeTypes
<1>3. here \in 1..Len(anFile)
  BY <1>1, <1>2 DEF AnalyzeInv, AnalyzeTypes
<1>4. bytes[here] = Held(anFile[here], 5) /\ \A i \in 1..Len(anFile) : i # here => bytes[i] = anFile[i]
  BY <1>1, <1>2, <1>3 DEF AnalyzeInv, InPlace
<1>5. UndoLast(bytes[here]) = anFile[here] /\ anFile[here] \in 0..255
  BY <1>2, <1>3, <1>4, HeldFacts
<1>6. /\ bytes' \in Seq(0..255) /\ Len(bytes') = Len(anFile)
      /\ \A i \in 1..Len(anFile) : bytes'[i] = anFile[i]
  <2>1. bytes' \in Seq(0..255) /\ Len(bytes') = Len(bytes)
    BY <1>1, <1>2, <1>3, <1>5, ExceptSeq
  <2> QED BY <1>1, <1>2, <1>3, <1>4, <1>5, <2>1
<1>7. PICK e : e = [resp |-> Answer(cks), bit |-> seq_bit']
  OBVIOUS
<1>8. e \in [resp : 0..3, bit : {0, 1}] /\ e.resp = Answer(cks) /\ e.bit = seq_bit' /\ seq_bit' \in {0, 1}
  <2>1. seq_bit' \in {0, 1}
    BY <1>1, <1>2
  <2> QED BY <1>7, <2>1, AnswerRange
<1>9. Len(b_data) = here - 1
  BY <1>1 DEF AnalyzeInv, InPlace
<1>10. /\ b_data' \in Seq([resp : 0..3, bit : {0, 1}]) /\ Len(b_data') = here
       /\ b_data'[here] = e /\ \A m \in 1 .. here - 1 : b_data'[m] = b_data[m]
  <2>1. b_data' = Append(b_data, e)
    BY <1>1, <1>7
  <2>2. Len(b_data) + 1 = here
    BY <1>3, <1>9
  <2> QED BY <1>2, <1>8, <1>9, <2>1, <2>2, AppendProperties
<1>11. AnalyzeTypes'
  <2>1. here + 1 \in 1 .. Len(anFile) + 1
    BY <1>2, <1>3
  <2> QED BY <1>1, <1>2, <1>6, <1>8, <1>10, <2>1 DEF AnalyzeInv, AnalyzeTypes
<1>12. InPlace'
  <2>1. \A i \in 1..Len(anFile) : Held(anFile[i], 1) = anFile[i]
    BY <1>2, HeldFacts
  <2>2. here + 1 - 1 = here
    BY <1>3
  <2> QED BY <1>1, <1>2, <1>6, <1>10, <2>1, <2>2 DEF AnalyzeInv, InPlace
<1>13. Tiled' /\ Whole'
  <2>1. Len(report) = 0 /\ DOMAIN report = {}
    BY <1>1 DEF AnalyzeInv, InPlace
  <2> QED BY <1>1, <2>1 DEF Tiled, Whole
<1>14. ASSUME exec_hangs = 0 PROVE Summed' /\ Noted'
  <2>0. /\ \A i, k : SumOf(i, k)' = SumOf(i, k)
        /\ Untouched' = Untouched
        /\ \A i : (InField(i)' <=> InField(i)) /\ (Ignored(i)' <=> Ignored(i))
        /\ \A i, j : SameField(i, j)' <=> SameField(i, j)
    BY <1>1, SameFile
  <2>1. /\ orig_cksum = Untouched
        /\ \A k \in 1..4 : cks[k] = SumOf(here, k) /\ cks[k] # HangCksum
        /\ \A i \in 1..Len(anFile), k \in 1..4 :
             i + 1 = here => prev_cks[k] = SumOf(i, k) /\ prev_cks[k] # HangCksum
        /\ \A i \in 1..Len(anFile) : i + 1 = here => b_data[i].bit = seq_bit
    <3>1. \A k \in 1..4 : k < change
      BY <1>1
    <3> QED BY <1>1, <1>3, <1>14, <3>1 DEF AnalyzeInv, Summed
  <2>2. /\ ~InField(here) => Answer(cks) \in {RespNone, RespMinor}
        /\ Ignored(here) => Answer(cks) = RespNone
    BY <1>2, <1>3, <2>1, AnswerFacts DEF AnalyzeInv
  <2>3. Summed'
    <3>1. \A i \in 1..Len(anFile) : i + 1 = here' => i = here
      BY <1>1, <1>3
    <3>2. \A k \in 1..4 : ~(k < change')
      BY <1>1
    <3> QED BY <1>1, <1>8, <1>10, <2>0, <2>1, <3>1, <3>2 DEF Summed
  <2>4. ASSUME NEW m \in 1..here PROVE Told(m)'
    <3>1. CASE m = here
      BY <1>8, <1>10, <2>0, <2>2, <3>1 DEF Told
    <3>2. CASE m \in 1 .. here - 1
      <4>1. Told(m)
        BY <1>1, <1>9, <1>14, <3>2 DEF AnalyzeInv, Noted
      <4> QED BY <1>10, <2>0, <3>2, <4>1 DEF Told
    <3> QED BY <1>3, <3>1, <3>2
  <2>5. ASSUME NEW m \in 1 .. here - 1 PROVE Parted(m)'
    <3>1. CASE m + 1 = here
      <4>1. m \in 1..Len(anFile) /\ here \in DOMAIN anFile /\ m \in DOMAIN anFile
        BY <1>2, <1>3
      <4>2. /\ \A k \in 1..4 : prev_cks[k] = SumOf(m, k) /\ prev_cks[k] # HangCksum
            /\ b_data[m].bit = seq_bit
        BY <2>1, <3>1, <4>1
      <4>3. ASSUME ~SameField(m, here) PROVE seq_bit' # seq_bit
        <5>1. \A k \in 1..4 : SumOf(m, k) # SumOf(here, k)
          BY <2>1, <4>1, <4>2, <4>3, FieldsPart DEF AnalyzeInv
        <5>2. seq_bit' = 1 - seq_bit
          BY <1>1, <2>1, <4>2, <5>1
        <5> QED BY <1>2, <5>2
      <4> QED BY <1>8, <1>10, <2>0, <3>1, <4>2, <4>3 DEF Parted
    <3>2. CASE m + 1 # here
      <4>1. m \in 1 .. Len(b_data) - 1 /\ m + 1 \in 1 .. here - 1
        BY <1>3, <1>9, <3>2
      <4>2. Parted(m)
        BY <1>1, <1>14, <4>1 DEF AnalyzeInv, Noted
      <4> QED BY <1>10, <2>0, <4>1, <4>2 DEF Parted
    <3> QED BY <3>1, <3>2
  <2> QED BY <1>10, <2>3, <2>4, <2>5 DEF Noted
<1>15. ASSUME exec_hangs # 0 PROVE Summed' /\ Noted'
  BY <1>1, <1>15 DEF Summed, Noted
<1> QED BY <1>11, <1>12, <1>13, <1>14, <1>15 DEF AnalyzeInv

LEMMA StartDumpKeeps ==
  ASSUME AnalyzeInv, StartDump \/ EndDump \/ AbortAnalysis PROVE AnalyzeInv'
<1>0. /\ anFile \in Seq(0..255) /\ Len(anFile) \in Nat \ {0} /\ DOMAIN anFile = 1..Len(anFile)
      /\ \A i \in 1..Len(anFile) : anFile[i] \in 0..255
      /\ DOMAIN bytes = 1..Len(anFile) /\ Len(bytes) = Len(anFile)
      /\ bytes \in Seq(0..255) /\ here \in 1 .. Len(anFile) + 1
  BY FileFacts DEF AnalyzeInv, AnalyzeTypes
<1>1. UNCHANGED <<parser, anFile, bytes, change, orig_cksum, cks, prev_cks, b_data, seq_bit,
                  exec_hangs, report>>
  BY DEF StartDump, EndDump, AbortAnalysis
<1>2. /\ \A i : (InField(i)' <=> InField(i)) /\ (Ignored(i)' <=> Ignored(i))
      /\ \A i, j : SameField(i, j)' <=> SameField(i, j)
      /\ \A r, i : InRun(r, i)' <=> InRun(r, i)
  BY <1>1, SameFile DEF InRun
<1>3. \A m : (Told(m)' <=> Told(m)) /\ (Parted(m)' <=> Parted(m))
  BY <1>1, <1>2 DEF Told, Parted
<1>4. /\ anStage' \in {"dump", "reported", "aborted"} /\ here' \in 1 .. Len(anFile) + 1
      /\ anStage' \in {"dump", "reported"} => anStage \in {"walk", "dump"}
  BY <1>0 DEF StartDump, EndDump, AbortAnalysis
<1>5. AnalyzeTypes'
  BY <1>1, <1>4 DEF AnalyzeInv, AnalyzeTypes
<1>6. Summed'
  BY <1>4 DEF Summed
<1>7. Noted'
  BY <1>1, <1>3, <1>4 DEF AnalyzeInv, Noted
<1>8. CASE StartDump
  <2>1. /\ anStage = "walk" /\ here = Len(anFile) + 1 /\ anStage' = "dump" /\ here' = 1 /\ change = 1
        /\ report = <<>>
    BY <1>0, <1>8 DEF StartDump, AnalyzeInv, InPlace
  <2>2. \A i \in 1..Len(anFile) : bytes[i] = anFile[i] /\ i # here
    BY <1>0, <2>1 DEF AnalyzeInv, InPlace
  <2>3. bytes = anFile
    BY <1>0, <2>2, SeqEqual
  <2>4. InPlace'
    BY <1>0, <1>1, <2>1, <2>3 DEF AnalyzeInv, InPlace
  <2>5. Len(report) = 0 /\ DOMAIN report = {}
    BY <2>1
  <2>6. Tiled' /\ Whole'
    BY <1>1, <2>1, <2>5 DEF Tiled, Whole
  <2> QED BY <1>5, <1>6, <1>7, <2>4, <2>6 DEF AnalyzeInv
<1>9. CASE EndDump
  <2>1. /\ anStage = "dump" /\ here = Len(anFile) + 1 /\ anStage' = "reported" /\ here' = here
    BY <1>0, <1>9 DEF EndDump
  <2>2. InPlace'
    BY <1>0, <1>1, <2>1 DEF AnalyzeInv, InPlace
  <2>3. Tiled'
    BY <1>1, <1>2, <2>1 DEF AnalyzeInv, Tiled
  <2>4. Whole'
    BY <1>1, <1>2, <2>1 DEF AnalyzeInv, Whole
  <2> QED BY <1>5, <1>6, <1>7, <2>2, <2>3, <2>4 DEF AnalyzeInv
<1>10. CASE AbortAnalysis
  <2>1. anStage = "walk" /\ anStage' = "aborted" /\ here' = here
    BY <1>10 DEF AbortAnalysis
  <2>2. InPlace'
    BY <1>1, <2>1 DEF AnalyzeInv, InPlace
  <2>3. Tiled' /\ Whole'
    BY <1>1, <2>1 DEF AnalyzeInv, Tiled, Whole
  <2> QED BY <1>5, <1>6, <1>7, <2>2, <2>3 DEF AnalyzeInv
<1> QED BY <1>8, <1>9, <1>10

\* The next run of bytes is printed.
LEMMA DumpKeeps ==
  ASSUME AnalyzeInv, DumpRun PROVE AnalyzeInv'
<1>1. /\ anFile \in Seq(0..255) /\ Len(anFile) \in Nat \ {0} /\ DOMAIN anFile = 1..Len(anFile)
      /\ Len(bytes) = Len(anFile) /\ here \in 1 .. Len(anFile) + 1 /\ Len(b_data) = Len(anFile)
      /\ report \in Seq([from : Nat, len : Nat, rtype : Nat])
      /\ b_data \in Seq([resp : 0..3, bit : {0, 1}])
  BY FileFacts DEF AnalyzeInv, AnalyzeTypes, InPlace, DumpRun
<1>2. PICK n : n = RunLength(here)
  OBVIOUS
<1>3. PICK rtype : rtype = Max({b_data[j].resp : j \in here .. here + n - 1})
  OBVIOUS
<1>4. PICK e : e = [from |-> here, len |-> n, rtype |-> Refined(here, n, rtype)]
  OBVIOUS
<1>5. /\ anStage = "dump" /\ here \in 1..Len(anFile) /\ report' = Append(report, e) /\ here' = here + n
      /\ UNCHANGED <<anStage, parser, anFile, bytes, change, orig_cksum, cks, prev_cks, b_data,
                     seq_bit, exec_hangs>>
  BY <1>1, <1>2, <1>3, <1>4 DEF DumpRun
<1>6. /\ n \in 1 .. Len(anFile) - here + 1
      /\ \A j \in here .. here + n - 1 : b_data[j].bit = b_data[here].bit
  BY <1>1, <1>2, <1>5, RunFacts DEF AnalyzeInv
<1>7. PICK z : z = here + n - 1
  OBVIOUS
<1>8. z \in here..Len(anFile) /\ z \in 1..Len(anFile) /\ n \in Nat \ {0} /\ here + n \in 1 .. Len(anFile) + 1
  BY <1>1, <1>5, <1>6, <1>7
<1>9. rtype \in 0..3 /\ \E j \in here..z : rtype = b_data[j].resp
  <2> DEFINE S == {b_data[j].resp : j \in here..z}
  <2>1. \A j \in here..z : j \in 1..Len(b_data)
    BY <1>1, <1>5, <1>8
  <2>2. \A j \in here..z : b_data[j].resp \in 0..3
    <3> TAKE j \in here..z
    <3>1. b_data[j] \in [resp : 0..3, bit : {0, 1}]
      BY <1>1, <2>1, ElementOfSeq
    <3> QED BY <3>1
  <2>3. S \subseteq {0, 1, 2, 3} /\ here \in here..z /\ b_data[here].resp \in S
    BY <1>1, <1>5, <1>8, <2>2
  <2>4. \E x \in S : \A y \in S : x >= y
    <3> HIDE DEF S
    <3>1. CASE 3 \in S
      BY <2>3, <3>1
    <3>2. CASE 3 \notin S /\ 2 \in S
      BY <2>3, <3>2
    <3>3. CASE 3 \notin S /\ 2 \notin S /\ 1 \in S
      BY <2>3, <3>3
    <3>4. CASE 3 \notin S /\ 2 \notin S /\ 1 \notin S
      <4>1. 0 \in S /\ \A y \in S : y = 0
        BY <2>3, <3>4
      <4> QED BY <4>1
    <3> QED BY <3>1, <3>2, <3>3, <3>4
  <2>5. rtype \in S
    <3>1. rtype = CHOOSE x \in S : \A y \in S : x >= y
      BY <1>3, <1>7 DEF Max
    <3> HIDE DEF S
    <3> QED BY <2>4, <3>1
  <2> QED BY <2>2, <2>5
<1>10. Refined(here, n, rtype) \in Nat /\ (rtype < RespFixed => Refined(here, n, rtype) = rtype)
  <2>1. rtype \in Nat /\ RespFixed = 3 /\ RespLen \in Nat /\ RespCksum \in Nat /\ RespSuspect \in Nat
    BY <1>9 DEF RespFixed, RespLen, RespCksum, RespSuspect
  <2> QED BY <2>1 DEF Refined
<1>11. /\ e \in [from : Nat, len : Nat, rtype : Nat]
       /\ e.from = here /\ e.len = n /\ e.rtype = Refined(here, n, rtype)
  BY <1>1, <1>4, <1>8, <1>10
<1>12. PICK R : R = Len(report)
  OBVIOUS
<1>13. /\ R \in Nat /\ DOMAIN report = 1..R /\ DOMAIN report' = 1 .. R + 1 /\ Len(report') = R + 1
       /\ report' \in Seq([from : Nat, len : Nat, rtype : Nat])
       /\ report'[R + 1] = e /\ \A r \in 1..R : report'[r] = report[r]
  BY <1>1, <1>5, <1>11, <1>12, AppendProperties, LenProperties
<1>14. AnalyzeTypes'
  BY <1>5, <1>8, <1>13 DEF AnalyzeInv, AnalyzeTypes
<1>15. InPlace'
  BY <1>1, <1>5, <1>8 DEF AnalyzeInv, InPlace
<1>16. /\ \A i : (InField(i)' <=> InField(i)) /\ (Ignored(i)' <=> Ignored(i))
       /\ \A i, j : SameField(i, j)' <=> SameField(i, j)
  BY <1>5, SameFile
<1>17. Summed' /\ Noted'
  <2>1. \A m : (Told(m)' <=> Told(m)) /\ (Parted(m)' <=> Parted(m))
    BY <1>5, <1>16 DEF Told, Parted
  <2> QED BY <1>5, <2>1 DEF AnalyzeInv, Summed, Noted
<1>18. /\ \A r \in 1..R : \A i : InRun(r, i)' <=> InRun(r, i)
       /\ \A i : InRun(R + 1, i)' <=> i \in here..z
  <2>1. \A r \in 1..R : \A i : InRun(r, i)' <=> InRun(r, i)
    BY <1>13 DEF InRun
  <2>2. \A i : InRun(R + 1, i)' <=> i \in Nat /\ here <= i /\ i < here + n
    <3>1. PICK q : q = R + 1
      OBVIOUS
    <3>2. \A i : InRun(q, i)' <=> i \in Nat /\ here <= i /\ i < here + n
      BY <1>11, <1>13, <3>1 DEF InRun
    <3> QED BY <3>1, <3>2
  <2>3. \A i : i \in Nat /\ here <= i /\ i < here + n <=> i \in here..z
    BY <1>1, <1>5, <1>7, <1>8
  <2> QED BY <2>1, <2>2, <2>3
<1>19. Tiled'
  <2>1. ASSUME NEW r \in 1 .. R + 1
        PROVE  /\ report'[r].len # 0 /\ report'[r].from # 0
               /\ report'[r].from + report'[r].len = IF r < R + 1 THEN report'[r + 1].from ELSE here + n
    <3>1. CASE r = R + 1
      BY <1>5, <1>8, <1>11, <1>13, <3>1
    <3>2. CASE r \in 1..R
      <4>1. /\ report[r].len # 0 /\ report[r].from # 0
            /\ report[r].from + report[r].len = IF r < R THEN report[r + 1].from ELSE here
        BY <1>12, <1>13, <3>2 DEF AnalyzeInv, Tiled
      <4>2. CASE r = R
        BY <1>11, <1>13, <4>1, <4>2
      <4>3. CASE r # R
        <5>1. r < R /\ r + 1 \in 1..R /\ r < R + 1
          BY <1>13, <3>2, <4>3
        <5> QED BY <1>13, <3>2, <4>1, <5>1
      <4> QED BY <4>2, <4>3
    <3> QED BY <1>13, <3>1, <3>2
  <2>2. report'[1].from = 1
    <3>1. CASE R = 0
      BY <1>5, <1>11, <1>12, <1>13, <3>1 DEF AnalyzeInv, Tiled
    <3>2. CASE R # 0
      BY <1>12, <1>13, <3>2 DEF AnalyzeInv, Tiled
    <3> QED BY <3>1, <3>2
  <2>3. ASSUME NEW i \in 1 .. here + n - 1 PROVE \E r \in 1 .. R + 1 : InRun(r, i)'
    <3>1. CASE i < here
      <4>1. PICK r \in 1..R : InRun(r, i)
        BY <1>1, <1>5, <1>13, <3>1 DEF AnalyzeInv, Tiled
      <4>2. r \in 1 .. R + 1
        BY <1>13
      <4> QED BY <1>18, <4>1, <4>2
    <3>2. CASE ~(i < here)
      <4>1. i \in here..z /\ R + 1 \in 1 .. R + 1
        BY <1>1, <1>7, <1>8, <1>13, <3>2
      <4> QED BY <1>18, <4>1
    <3> QED BY <3>1, <3>2
  <2>4. Len(report') # 0
    BY <1>13
  <2>5. \A r \in DOMAIN report' :
          /\ report'[r].len # 0 /\ report'[r].from # 0
          /\ report'[r].from + report'[r].len = IF r < Len(report') THEN report'[r + 1].from ELSE here'
    BY <1>5, <1>13, <2>1
  <2>6. \A i \in 1 .. here' - 1 : \E r \in DOMAIN report' : InRun(r, i)'
    <3>1. here' - 1 = here + n - 1
      BY <1>1, <1>5, <1>8
    <3>2. 1 .. here' - 1 = 1 .. here + n - 1
      BY <3>1
    <3>3. DOMAIN report' = 1 .. R + 1
      BY <1>13
    <3> QED BY <2>3, <3>2, <3>3, Zenon
  <2> QED BY <1>5, <2>2, <2>4, <2>5, <2>6 DEF Tiled
<1>20. Whole'
  <2> SUFFICES ASSUME exec_hangs = 0 PROVE Whole'
    BY <1>5 DEF Whole
  <2>1. /\ \A m \in 1 .. Len(b_data) : Told(m)
        /\ \A m \in 1 .. Len(b_data) - 1 : Parted(m)
    BY <1>5 DEF AnalyzeInv, Noted
  <2>2. \A j \in here..z : SameField(here, j)
    BY <1>1, <1>5, <1>6, <1>7, <1>8, <2>1, OneField DEF AnalyzeInv
  <2>3. \A i, j \in here..z : SameField(i, j)
    BY <2>2 DEF SameField
  <2>4. ASSUME NEW i \in here..z, ~InField(i) PROVE Refined(here, n, rtype) < RespLen
    <3>1. PICK j \in here..z : rtype = b_data[j].resp
      BY <1>9
    <3>2. ~InField(j) /\ j \in 1..Len(b_data)
      BY <1>1, <1>5, <1>8, <2>3, <2>4 DEF SameField, InField
    <3>3. rtype \in {0, 1}
      BY <2>1, <3>1, <3>2 DEF Told, RespNone, RespMinor
    <3> QED BY <1>10, <3>3 DEF RespFixed, RespLen
  <2>5. ASSUME NEW r \in 1 .. R + 1
        PROVE  /\ \A i, j \in 1 .. Len(anFile) : InRun(r, i)' /\ InRun(r, j)' => SameField(i, j)
               /\ \A i \in 1 .. Len(anFile) : InRun(r, i)' /\ ~InField(i) => report'[r].rtype < RespLen
    <3>1. CASE r = R + 1
      <4>1. \A i : InRun(r, i)' <=> i \in here..z
        BY <1>18, <3>1
      <4> QED BY <1>11, <1>13, <2>3, <2>4, <3>1, <4>1
    <3>2. CASE r \in 1..R
      <4>1. /\ \A i, j \in 1 .. Len(anFile) : InRun(r, i) /\ InRun(r, j) => SameField(i, j)
            /\ \A i \in 1 .. Len(anFile) : InRun(r, i) /\ ~InField(i) => report[r].rtype < RespLen
        BY <1>5, <1>13, <3>2 DEF AnalyzeInv, Whole
      <4> QED BY <1>13, <1>18, <3>2, <4>1
    <3> QED BY <1>13, <3>1, <3>2
  <2> QED BY <1>5, <1>13, <1>16, <2>5 DEF Whole
<1> QED BY <1>14, <1>15, <1>17, <1>19, <1>20 DEF AnalyzeInv

LEMMA AnalyzeStepInv == AnalyzeInv /\ [AnalyzeNext]_analyzeVars => AnalyzeInv'
<1> SUFFICES ASSUME AnalyzeInv, [AnalyzeNext]_analyzeVars PROVE AnalyzeInv'
  OBVIOUS
<1>1. CASE DryRunFile
  BY <1>1, DryRunKeeps
<1>2. ASSUME NEW late \in BOOLEAN, Probe(late) PROVE AnalyzeInv'
  BY <1>2, ProbeKeeps
<1>3. CASE ClassifyByte
  BY <1>3, ClassifyKeeps
<1>4. CASE StartDump \/ EndDump \/ AbortAnalysis
  BY <1>4, StartDumpKeeps
<1>5. CASE DumpRun
  BY <1>5, DumpKeeps
<1>6. CASE UNCHANGED analyzeVars
  <2>1. /\ UNCHANGED <<anStage, parser, anFile, bytes, here, change, orig_cksum, cks, prev_cks>>
        /\ UNCHANGED <<b_data, seq_bit, exec_hangs, report>>
    BY <1>6 DEF analyzeVars
  <2>2. /\ \A i, k : SumOf(i, k)' = SumOf(i, k)
        /\ Untouched' = Untouched
        /\ \A i : (InField(i)' <=> InField(i)) /\ (Ignored(i)' <=> Ignored(i))
        /\ \A i, j : SameField(i, j)' <=> SameField(i, j)
        /\ \A r, i : InRun(r, i)' <=> InRun(r, i)
    BY <2>1, SameFile DEF InRun
  <2>3. \A m : (Told(m)' <=> Told(m)) /\ (Parted(m)' <=> Parted(m))
    BY <2>1, <2>2 DEF Told, Parted
  <2>4. AnalyzeTypes' /\ InPlace'
    BY <2>1 DEF AnalyzeInv, AnalyzeTypes, InPlace
  <2>5. Summed'
    BY <2>1, <2>2 DEF AnalyzeInv, Summed
  <2>6. Noted'
    BY <2>1, <2>3 DEF AnalyzeInv, Noted
  <2>7. Tiled' /\ Whole'
    BY <2>1, <2>2 DEF AnalyzeInv, Tiled, Whole
  <2> QED BY <2>4, <2>5, <2>6, <2>7 DEF AnalyzeInv
<1> QED BY <1>1, <1>2, <1>3, <1>4, <1>5, <1>6 DEF AnalyzeNext

(* AnalyzeRight: whatever file and program: only the byte under way is     *)
(* ever changed and in the end none, bytes that the program ignores are    *)
(* reported as such and no run of bytes goes over the end of a magic field *)
(* unless a run was late, and every byte is printed once (analyze and      *)
(* dump_hex, src/afl-analyze.c:407-650).                                   *)
THEOREM AnalyzeRightHolds == AnalyzeSpec => []AnalyzeRight
<1>1. AnalyzeInv => AnalyzeRight
  <2> SUFFICES ASSUME AnalyzeInv PROVE AnalyzeRight
    OBVIOUS
  <2>0. /\ anFile \in Seq(0..255) /\ Len(anFile) \in Nat \ {0} /\ DOMAIN anFile = 1..Len(anFile)
        /\ \A i \in 1..Len(anFile) : anFile[i] \in 0..255
        /\ DOMAIN bytes = 1..Len(anFile) /\ report \in Seq([from : Nat, len : Nat, rtype : Nat])
        /\ here \in Nat /\ change \in 1..5
    BY FileFacts DEF AnalyzeInv, AnalyzeTypes
  <2>a. \A r \in DOMAIN report : report[r].from \in Nat
    <3> TAKE r \in DOMAIN report
    <3>1. report[r] \in [from : Nat, len : Nat, rtype : Nat]
      <4>1. r \in 1..Len(report)
        BY <2>0, LenProperties
      <4> QED BY <2>0, <4>1, ElementOfSeq
    <3> QED BY <3>1
  <2>1. OneByteAtATime
    <3> SUFFICES ASSUME NEW i \in 1..Len(anFile), bytes[i] # anFile[i]
                 PROVE  anStage \in {"walk", "aborted"} /\ i = here /\ change > 1
      BY <2>0 DEF OneByteAtATime
    <3>1. i = here /\ anStage \in {"walk", "aborted"} /\ bytes[i] = Held(anFile[i], change)
      BY <2>0 DEF AnalyzeInv, InPlace
    <3>2. change # 1
      BY <2>0, <3>1, HeldFacts
    <3> QED BY <2>0, <3>1, <3>2
  <2>2. FieldsToldApart
    <3> SUFFICES ASSUME anStage = "reported", exec_hangs = 0 PROVE FieldsToldApart
      BY DEF FieldsToldApart
    <3>1. /\ here = Len(anFile) + 1 /\ Len(b_data) = Len(anFile)
          /\ \A i \in 1 .. here - 1 : \E r \in DOMAIN report : InRun(r, i)
          /\ \A m \in 1 .. Len(b_data) : Told(m)
          /\ \A r \in DOMAIN report :
               /\ \A i, j \in 1 .. Len(anFile) : InRun(r, i) /\ InRun(r, j) => SameField(i, j)
               /\ \A i \in 1 .. Len(anFile) : InRun(r, i) /\ ~InField(i) => report[r].rtype < RespLen
      BY DEF AnalyzeInv, InPlace, Tiled, Noted, Whole
    <3>2. ASSUME NEW i \in 1..Len(anFile) PROVE RunOf(i) \in DOMAIN report /\ InRun(RunOf(i), i)
      <4>1. i \in 1 .. here - 1 /\ i \in Nat
        BY <2>0, <3>1
      <4>2. \E r \in DOMAIN report : i >= report[r].from /\ i < report[r].from + report[r].len
        <5>1. PICK r \in DOMAIN report : InRun(r, i)
          BY <3>1, <4>1
        <5>2. report[r].from \in Nat
          BY <2>a, <5>1
        <5> QED BY <4>1, <5>1, <5>2 DEF InRun
      <4>3. /\ RunOf(i) \in DOMAIN report
            /\ i >= report[RunOf(i)].from /\ i < report[RunOf(i)].from + report[RunOf(i)].len
        BY <4>2 DEF RunOf
      <4>4. report[RunOf(i)].from \in Nat
        BY <2>a, <4>3
      <4> QED BY <4>1, <4>3, <4>4 DEF InRun
    <3>3. ASSUME NEW i \in 1..Len(anFile), Ignored(i)
          PROVE  b_data[i].resp = RespNone /\ report[RunOf(i)].rtype < RespLen
      <4>1. ~InField(i)
        BY <3>3 DEF Ignored, InField
      <4> QED BY <3>1, <3>2, <3>3, <4>1 DEF Told
    <3>4. ASSUME NEW g \in DOMAIN parser.magic, NEW h \in DOMAIN parser.magic, g # h,
                 NEW i \in parser.magic[g], NEW j \in parser.magic[h], RunOf(i) = RunOf(j)
          PROVE  FALSE
      <4>1. i \in 1..Len(anFile) /\ j \in 1..Len(anFile)
        BY <2>0 DEF AnalyzeInv, AnalyzeTypes
      <4>2. SameField(i, j)
        BY <3>1, <3>2, <3>4, <4>1
      <4>3. parser.magic[g] \cap parser.magic[h] = {}
        BY <3>4, AnalyzeAssumption DEF AnalyzeInv, AnalyzeTypes
      <4> QED BY <4>2, <4>3 DEF SameField
    <3> QED BY <2>0, <3>3, <3>4 DEF FieldsToldApart
  <2>3. EveryByteShown
    <3> SUFFICES ASSUME anStage = "reported" PROVE EveryByteShown
      BY DEF EveryByteShown
    <3>1. here = Len(anFile) + 1 /\ 1 \in 1 .. here - 1
      BY <2>0 DEF AnalyzeInv, Tiled
    <3>2. PICK r \in DOMAIN report : InRun(r, 1)
      BY <3>1 DEF AnalyzeInv, Tiled
    <3>3. Len(report) # 0 /\ Len(report) \in Nat
      BY <2>0, <3>2, LenProperties
    <3> QED BY <3>1, <3>3 DEF AnalyzeInv, Tiled, EveryByteShown
  <2> QED BY <2>1, <2>2, <2>3 DEF AnalyzeRight
<1> QED BY <1>1, AnalyzeInitInv, AnalyzeStepInv, PTL DEF AnalyzeSpec

=============================================================================
