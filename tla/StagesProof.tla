---------------------------- MODULE StagesProof ----------------------------
(***************************************************************************)
(* Proofs about what happens to one seed. The deterministic stages of      *)
(* fuzz_one hand it on unharmed, count their runs and find the tokens that *)
(* flip1 is there to find, for seeds of any length, any tokens and any outcome *)
(* of the runs. The random stages stay within their number of runs and within *)
(* their buffers; a value that a stage leaves out was run before, or lies over *)
(* the border of two bytes. And each run leaves in the shared map the steps it *)
(* took.                                                                   *)
(***************************************************************************)
EXTENDS Stages, Havoc, ByteOps, Trampoline, FiniteSetTheorems, SequenceTheorems,
        WellFoundedInduction, TLAPS

-----------------------------------------------------------------------------
(* What a stage has to keep true.                                          *)

StageNames == {"flip1", "flip2", "flip4", "flip8", "flip16", "flip32",
               "arith8", "arith16", "arith32", "int8", "int16", "int32",
               "ext_UO", "ext_UI", "ext_AO"}

\* A trailing run of n bytes with a checksum other than the seed's.
Trailing(s, n) ==
  /\ n \in 0..Len(s)
  /\ n = 0 => Len(s) = 0 \/ s[Len(s)] = 0
  /\ n # 0 => IsRun(s, Len(s) - n + 1, Len(s))

\* The tokens that end at byte m at the latest.
Ended(s, m) ==
  {Token(p[2] - 1, p[2] - p[1] + 1) : p \in
     {p \in (1..m) \X (1..m) : p[1] <= p[2] /\ IsRun(s, p[1], p[2]) /\ Fits(p[2] - p[1] + 1)}}

\* What flip1 knows of the bytes that it is through with.
Gathered(size) ==
  LET s == collect.sums
  IN /\ collect.prev = IF Len(s) = 0 THEN 0 ELSE s[Len(s)]
     /\ Len(s) < size => Trailing(s, collect.a_len) /\ collect.tokens = Ended(s, Len(s) - 1)
     /\ Len(s) = size => collect.tokens = Ended(s, Len(s))

StageTypes ==
  /\ stage \in StageNames \cup {"idle", "calibrate", "trim", "done", "havoc"}
  /\ entry \in [len : Nat, cal_failed : Nat, trim_done : BOOLEAN, was_fuzzed : BOOLEAN,
                passed_det : BOOLEAN, dumb : BOOLEAN, no_arith : BOOLEAN]
  /\ walk \in [i : Nat, j : Nat, cur : Nat, max : Int, last : Nat]
  /\ DOMAIN collect = {"sums", "a_len", "prev", "tokens"}
  /\ collect.sums \in Seq(Sums) /\ collect.a_len \in Nat

\* Outside the deterministic stages nothing is under way.
AtRest == stage \notin StageNames => walk = NoWalk /\ dirty = {} /\ collect = NoCollect

\* The runs still planned are those of the values and positions to come.
Planned ==
  stage \in StageNames =>
    /\ walk.j <= PerPosition(stage)
    /\ walk.j > 0 => walk.i < Positions(stage, entry.len)
    /\ stage # "ext_UI" =>
         walk.max - walk.cur = (Positions(stage, entry.len) - walk.i) * PerPosition(stage) - walk.j

\* What the end of the position will put back covers what was changed.
Touched ==
  stage \in StageNames =>
    /\ walk.j = 0 => dirty = {} /\ walk.last = 0
    /\ IF Over(stage)
       THEN /\ walk.j # 0 => walk.last <= Tokens(stage)[walk.j]
            /\ dirty \subseteq walk.i .. walk.i + walk.last - 1
       ELSE dirty \subseteq Written(stage)

Collecting ==
  stage \in StageNames =>
    IF stage = "flip1" /\ ~entry.dumb
    THEN Len(collect.sums) = walk.i \div 8 /\ Gathered(entry.len)
    ELSE collect = NoCollect

StagesInv == StageTypes /\ AtRest /\ Planned /\ Touched /\ Collecting

-----------------------------------------------------------------------------
\* A stage follows another one, or the deterministic part is over.
LEMMA StageFollows ==
  ASSUME NEW s \in StageNames, NEW e
  PROVE  StageAt(IndexOf(s) + 1, e) \in StageNames \cup {"done"}
<1>1. /\ Len(DetStages) = 15
      /\ \A k \in 1..15 : DetStages[k] \in StageNames
      /\ \E k \in 1..15 : DetStages[k] = s
  BY DEF DetStages, StageNames
<1>2. IndexOf(s) \in 1..15
  <2> HIDE DEF DetStages
  <2> QED BY <1>1 DEF IndexOf
<1> DEFINE k == IndexOf(s) + 1
           F == StagesFrom(k, e)
<1>3. k \in 2..16 /\ F \in SUBSET Nat /\ F \subseteq 1..15
  BY <1>1, <1>2 DEF StagesFrom
<1>4. ASSUME F # {} PROVE \E m \in F : \A n \in F : m <= n
  <2> DEFINE R == OpToRel(<, Nat)
  <2>1. IsWellFoundedOn(R, Nat) /\ \A m, n \in Nat : n < m => <<n, m>> \in R
    BY NatLessThanWellFounded DEF OpToRel
  <2> HIDE DEF F, k, R
  <2>2. PICK m \in F : \A n \in F : ~(<<n, m>> \in R)
    BY <1>3, <1>4, <2>1, WFMin
  <2>3. ASSUME NEW n \in F PROVE m <= n
    <3>1. m \in Nat /\ n \in Nat /\ ~(n < m)
      BY <1>3, <2>1, <2>2
    <3> QED BY <3>1
  <2> QED BY <2>3
<1>5. F # {} => (CHOOSE m \in F : \A n \in F : m <= n) \in 1..15
  <2> HIDE DEF F, k
  <2> QED BY <1>3, <1>4
<1> QED BY <1>1, <1>5 DEF StageAt

LEMMA StageSizes ==
  ASSUME NEW s \in StageNames, NEW size \in Nat
  PROVE  /\ PerPosition(s) \in Nat /\ Positions(s, size) \in Int
         /\ s # "ext_UI" => StageMax(s, size) = Positions(s, size) * PerPosition(s)
         /\ StageMax(s, size) \in Int
         /\ Over(s) => /\ PerPosition(s) = Len(Tokens(s)) /\ Tokens(s) \in Seq(Nat)
                       /\ \A k \in 1..Len(Tokens(s)) - 1 : Tokens(s)[k] <= Tokens(s)[k + 1]
<1>1. /\ ARITH_MAX \in Nat /\ IntValues[1] \in Nat /\ IntValues[2] \in Nat /\ IntValues[4] \in Nat
      /\ Len(ExtraLens) \in Nat /\ Len(AutoLens) \in Nat
      /\ ExtraLens \in Seq(Nat) /\ AutoLens \in Seq(Nat)
      /\ \A k \in 1..Len(ExtraLens) - 1 : ExtraLens[k] <= ExtraLens[k + 1]
      /\ \A k \in 1..Len(AutoLens) - 1 : AutoLens[k] <= AutoLens[k + 1]
  BY StagesAssumption, LenProperties
<1>2. Width(s) \in {1, 2, 4} /\ Bits(s) \in {0, 1, 2, 4}
  BY DEF Width, Bits
<1>3. PerPosition(s) \in Nat
  BY <1>1 DEF PerPosition, Width, Tokens, StageNames
<1>4. Positions(s, size) \in Int
  BY <1>2 DEF Positions
<1>5. /\ s # "ext_UI" => StageMax(s, size) = Positions(s, size) * PerPosition(s)
      /\ StageMax(s, size) \in Int
  <2>1. CASE s = "ext_UI"
    BY <1>1, <2>1 DEF StageMax
  <2>2. CASE s # "ext_UI"
    <3>1. StageMax(s, size) = Positions(s, size) * PerPosition(s)
      BY <2>2 DEF StageMax
    <3> QED BY <1>3, <1>4, <2>2, <3>1
  <2> QED BY <2>1, <2>2
<1>6. Over(s) => /\ PerPosition(s) = Len(Tokens(s)) /\ Tokens(s) \in Seq(Nat)
                 /\ \A k \in 1..Len(Tokens(s)) - 1 : Tokens(s)[k] <= Tokens(s)[k + 1]
  BY <1>1 DEF Over, PerPosition, Tokens
<1> QED BY <1>3, <1>4, <1>5, <1>6

-----------------------------------------------------------------------------
(* Runs of one checksum.                                                   *)
LEMMA OneRunEndsHere ==
  ASSUME NEW s \in Seq(Sums), NEW n, Trailing(s, n), NEW a \in 1..Len(s), IsRun(s, a, Len(s))
  PROVE  n # 0 /\ a = Len(s) - n + 1
<1>1. Len(s) \in Nat /\ n \in 0..Len(s) /\ Len(s) \in a..Len(s)
  BY LenProperties DEF Trailing
<1>2. n # 0
  BY <1>1 DEF Trailing, IsRun
<1> DEFINE b == Len(s) - n + 1
<1>3. b \in 1..Len(s) /\ IsRun(s, b, Len(s)) /\ Len(s) \in b..Len(s)
  BY <1>1, <1>2 DEF Trailing
<1>4. s[a] = s[Len(s)] /\ s[b] = s[Len(s)]
  BY <1>1, <1>3 DEF IsRun
<1>5. CASE a < b
  <2>1. b - 1 \in a..Len(s) /\ b # 1
    BY <1>3, <1>5
  <2> QED BY <1>3, <1>4, <2>1 DEF IsRun
<1>6. CASE b < a
  <2>1. a - 1 \in b..Len(s) /\ a # 1
    BY <1>3, <1>6
  <2> QED BY <1>3, <1>4, <2>1 DEF IsRun
<1> QED BY <1>1, <1>2, <1>3, <1>5, <1>6

LEMMA RunsAppended ==
  ASSUME NEW s \in Seq(Sums), NEW x \in Sums, NEW t, t = Append(s, x)
  PROVE  /\ t \in Seq(Sums) /\ Len(t) = Len(s) + 1 /\ Len(s) \in Nat /\ t[Len(t)] = x
         /\ \A k \in 1..Len(s) : t[k] = s[k]
         /\ \A a \in 1..Len(s), b \in 1..Len(s) : a <= b /\ b < Len(s) => (IsRun(t, a, b) <=> IsRun(s, a, b))
         /\ \A a \in 1..Len(s) : IsRun(t, a, Len(s)) <=> IsRun(s, a, Len(s)) /\ x # s[Len(s)]
         /\ \A a \in 1..Len(s) : IsRun(t, a, Len(t)) <=> IsRun(s, a, Len(s)) /\ x = s[Len(s)]
         /\ IsRun(t, Len(t), Len(t)) <=> x # 0 /\ (Len(s) = 0 \/ s[Len(s)] # x)
<1> DEFINE L == Len(s)
<1>1. /\ t \in Seq(Sums) /\ Len(t) = L + 1 /\ L \in Nat /\ t[L + 1] = x
      /\ \A k \in 1..L : t[k] = s[k]
  BY AppendProperties, LenProperties
<1> HIDE DEF L
<1>2. ASSUME NEW a \in 1..L, NEW b \in 1..L, a <= b, b < L
      PROVE  IsRun(t, a, b) <=> IsRun(s, a, b)
  <2>1. /\ \A k \in a..b : k \in 1..L
        /\ a # 1 => a - 1 \in 1..L
        /\ b + 1 \in 1..L
    BY <1>1, <1>2
  <2>2. /\ \A k \in a..b : t[k] = s[k]
        /\ t[a] = s[a] /\ (a # 1 => t[a - 1] = s[a - 1])
        /\ t[b + 1] = s[b + 1] /\ b # L /\ b # Len(t)
    BY <1>1, <1>2, <2>1
  <2> QED BY <2>2 DEF IsRun, L
<1>3. ASSUME NEW a \in 1..L
      PROVE  /\ \A k \in a..L : t[k] = s[k]
             /\ t[a] = s[a] /\ (a # 1 => t[a - 1] = s[a - 1])
             /\ L \in a..L /\ L # Len(t) /\ t[L + 1] = x /\ L \in 1..L
             /\ \A k \in a..(L + 1) : k = L + 1 \/ k \in a..L
             /\ \A k \in a..L : k \in a..(L + 1)
             /\ L + 1 \in a..(L + 1) /\ Len(t) = L + 1
  <2>1. /\ \A k \in a..L : k \in 1..L
        /\ a # 1 => a - 1 \in 1..L
    BY <1>1
  <2>2. /\ L \in a..L /\ L # Len(t) /\ L \in 1..L
        /\ \A k \in a..(L + 1) : k = L + 1 \/ k \in a..L
        /\ \A k \in a..L : k \in a..(L + 1)
        /\ L + 1 \in a..(L + 1)
    BY <1>1
  <2> QED BY <1>1, <2>1, <2>2
<1>4. ASSUME NEW a \in 1..L
      PROVE  IsRun(t, a, L) <=> IsRun(s, a, L) /\ x # s[L]
  BY <1>3 DEF IsRun, L
<1>5. ASSUME NEW a \in 1..L
      PROVE  IsRun(t, a, Len(t)) <=> IsRun(s, a, L) /\ x = s[L]
  <2>1. IsRun(s, a, L) <=> /\ \A k \in a..L : s[k] = s[a]
                           /\ a = 1 \/ s[a - 1] # s[a]
                           /\ s[a] # 0
    BY DEF IsRun, L
  <2>2. IsRun(t, a, Len(t)) <=> /\ \A k \in a..(L + 1) : t[k] = t[a]
                                /\ a = 1 \/ t[a - 1] # t[a]
                                /\ t[a] # 0
    BY <1>3 DEF IsRun
  <2>3. (\A k \in a..(L + 1) : t[k] = t[a]) <=> (\A k \in a..L : s[k] = s[a]) /\ x = s[a]
    BY <1>3
  <2>4. (\A k \in a..L : s[k] = s[a]) => s[L] = s[a]
    BY <1>3
  <2> QED BY <1>3, <2>1, <2>2, <2>3, <2>4
<1>6. IsRun(t, Len(t), Len(t)) <=> x # 0 /\ (L = 0 \/ s[L] # x)
  <2>1. /\ Len(t) = L + 1 /\ t[L + 1] = x /\ L + 1 - 1 = L /\ (L + 1 = 1 <=> L = 0)
        /\ \A k \in (L + 1)..(L + 1) : k = L + 1
        /\ L # 0 => L \in 1..L
    BY <1>1
  <2> QED BY <1>1, <2>1 DEF IsRun
<1> QED BY <1>1, <1>2, <1>4, <1>5, <1>6 DEF L

-----------------------------------------------------------------------------
(* What flip1 gathers.                                                     *)
LEMMA EndedAt ==
  ASSUME NEW s, NEW m \in Int, NEW tok
  PROVE  tok \in Ended(s, m) <=>
           \E a, b \in 1..m : /\ a <= b /\ IsRun(s, a, b) /\ Fits(b - a + 1)
                              /\ tok = Token(b - 1, b - a + 1)
<1>1. ASSUME tok \in Ended(s, m)
      PROVE  \E a, b \in 1..m : /\ a <= b /\ IsRun(s, a, b) /\ Fits(b - a + 1)
                                /\ tok = Token(b - 1, b - a + 1)
  <2>1. PICK p \in (1..m) \X (1..m) :
          /\ p[1] <= p[2] /\ IsRun(s, p[1], p[2]) /\ Fits(p[2] - p[1] + 1)
          /\ tok = Token(p[2] - 1, p[2] - p[1] + 1)
    BY <1>1 DEF Ended
  <2>2. p[1] \in 1..m /\ p[2] \in 1..m
    OBVIOUS
  <2> QED BY <2>1, <2>2
<1>2. ASSUME NEW a \in 1..m, NEW b \in 1..m, a <= b, IsRun(s, a, b), Fits(b - a + 1),
             tok = Token(b - 1, b - a + 1)
      PROVE  tok \in Ended(s, m)
  <2>1. /\ <<a, b>> \in (1..m) \X (1..m) /\ <<a, b>>[1] = a /\ <<a, b>>[2] = b
    OBVIOUS
  <2> QED BY <1>2, <2>1 DEF Ended
<1> QED BY <1>1, <1>2

\* One byte more, and the tokens that end before it are those that had ended
\* and the run that it breaks off.
LEMMA EndedAppended ==
  ASSUME NEW s \in Seq(Sums), NEW x \in Sums, NEW t, t = Append(s, x), NEW n, Trailing(s, n),
         NEW p, p = IF Len(s) = 0 THEN 0 ELSE s[Len(s)]
  PROVE  Ended(t, Len(s)) = IF x # p /\ Fits(n)
                            THEN Ended(s, Len(s) - 1) \cup {Token(Len(s) - 1, n)}
                            ELSE Ended(s, Len(s) - 1)
<1> DEFINE L == Len(s)
<1>1. /\ L \in Nat /\ n \in 0..L
      /\ MIN_AUTO_EXTRA \in Nat \ {0, 1}
      /\ Fits(n) => n # 0
  BY RunsAppended, StagesAssumption DEF Trailing, Fits
<1>2. ASSUME NEW a \in 1..L, IsRun(s, a, L) PROVE n # 0 /\ a = L - n + 1 /\ L - a + 1 = n
  <2>1. n # 0 /\ a = L - n + 1
    BY <1>2, OneRunEndsHere
  <2> HIDE DEF L
  <2> QED BY <1>1, <2>1
<1>3. n # 0 => L - n + 1 \in 1..L /\ IsRun(s, L - n + 1, L) /\ L # 0 /\ L - (L - n + 1) + 1 = n
  BY <1>1 DEF Trailing
<1>4. /\ \A a \in 1..L, b \in 1..L : a <= b /\ b < L => (IsRun(t, a, b) <=> IsRun(s, a, b))
      /\ \A a \in 1..L : IsRun(t, a, L) <=> IsRun(s, a, L) /\ x # s[L]
  BY RunsAppended
<1> HIDE DEF L
<1>5. ASSUME NEW tok \in Ended(t, L)
      PROVE  tok \in Ended(s, L - 1) \/ (x # p /\ Fits(n) /\ tok = Token(L - 1, n))
  <2>1. PICK a, b \in 1..L : /\ a <= b /\ IsRun(t, a, b) /\ Fits(b - a + 1)
                             /\ tok = Token(b - 1, b - a + 1)
    BY <1>1, EndedAt
  <2>2. CASE b < L
    <3>1. a \in 1..(L - 1) /\ b \in 1..(L - 1) /\ L - 1 \in Int
      BY <1>1, <2>1, <2>2
    <3>2. IsRun(s, a, b)
      BY <1>4, <2>1, <2>2
    <3> QED BY <2>1, <3>1, <3>2, EndedAt
  <2>3. CASE b = L
    <3>1. IsRun(s, a, L) /\ x # s[L] /\ L # 0
      BY <1>1, <1>4, <2>1, <2>3
    <3>2. L - a + 1 = n
      BY <1>2, <3>1
    <3> QED BY <2>1, <2>3, <3>1, <3>2 DEF L
  <2> QED BY <1>1, <2>2, <2>3
<1>6. ASSUME NEW tok \in Ended(s, L - 1) PROVE tok \in Ended(t, L)
  <2>1. L - 1 \in Int
    BY <1>1
  <2>2. PICK a, b \in 1..(L - 1) : /\ a <= b /\ IsRun(s, a, b) /\ Fits(b - a + 1)
                                   /\ tok = Token(b - 1, b - a + 1)
    BY <2>1, EndedAt
  <2>3. a \in 1..L /\ b \in 1..L /\ b < L
    BY <1>1
  <2>4. IsRun(t, a, b)
    BY <1>4, <2>2, <2>3
  <2> QED BY <1>1, <2>2, <2>3, <2>4, EndedAt
<1>7. ASSUME x # p, Fits(n) PROVE Token(L - 1, n) \in Ended(t, L)
  <2>1. n # 0 /\ L # 0 /\ p = s[L]
    BY <1>1, <1>3, <1>7 DEF L
  <2>2. PICK a : a = L - n + 1
    OBVIOUS
  <2>3. a \in 1..L /\ IsRun(t, a, L) /\ L \in 1..L /\ a <= L /\ L - a + 1 = n
    BY <1>1, <1>3, <1>4, <1>7, <2>1, <2>2
  <2> QED BY <1>1, <1>7, <2>3, EndedAt
<1> QED BY <1>5, <1>6, <1>7 DEF L

LEMMA CollectedRight ==
  ASSUME NEW size \in Nat, NEW sum \in Sums, StageTypes, Gathered(size), Len(collect.sums) < size,
         NEW c, c = Collected(sum, Len(collect.sums), Len(collect.sums) = size - 1)
  PROVE  /\ c = [sums |-> c.sums, prev |-> c.prev, tokens |-> c.tokens, a_len |-> c.a_len]
         /\ c.sums = Append(collect.sums, sum) /\ c.a_len \in Nat /\ c.prev = sum
         /\ Len(c.sums) < size =>
              Trailing(c.sums, c.a_len) /\ c.tokens = Ended(c.sums, Len(c.sums) - 1)
         /\ Len(c.sums) = size => c.tokens = Ended(c.sums, Len(c.sums))
<1> DEFINE s == collect.sums
           t == Append(s, sum)
           n == collect.a_len
           p == collect.prev
           L == Len(s)
           force == L = size - 1 /\ sum = p
           len1 == IF force THEN n + 1 ELSE n
           flush == force \/ sum # p
           end == IF force THEN L ELSE L - 1
           len2 == IF sum # p THEN 0 ELSE len1
<1>1. /\ s \in Seq(Sums) /\ n \in 0..L /\ Trailing(s, n)
      /\ p = IF L = 0 THEN 0 ELSE s[L]
      /\ collect.tokens = Ended(s, L - 1)
  BY DEF Gathered, StageTypes, Trailing
<1>2. /\ c = [sums |-> c.sums, prev |-> c.prev, tokens |-> c.tokens, a_len |-> c.a_len]
      /\ c.sums = t /\ c.prev = sum
      /\ c.tokens = IF flush /\ Fits(len1) THEN Ended(s, L - 1) \cup {Token(end, len1)} ELSE Ended(s, L - 1)
      /\ c.a_len = IF sum # 0 THEN len2 + 1 ELSE len2
  BY <1>1 DEF Collected
<1> HIDE DEF s, n, p
<1>3. /\ t \in Seq(Sums) /\ Len(t) = L + 1 /\ L \in Nat /\ t[Len(t)] = sum
      /\ \A a \in 1..L : IsRun(t, a, Len(t)) <=> IsRun(s, a, L) /\ sum = s[L]
      /\ IsRun(t, Len(t), Len(t)) <=> sum # 0 /\ (L = 0 \/ s[L] # sum)
  BY <1>1, RunsAppended
<1>4. Ended(t, L) = IF sum # p /\ Fits(n) THEN Ended(s, L - 1) \cup {Token(L - 1, n)}
                    ELSE Ended(s, L - 1)
  BY <1>1, EndedAppended
<1>5. /\ n = 0 => L = 0 \/ s[L] = 0
      /\ n # 0 => IsRun(s, L - n + 1, L)
      /\ L # 0 /\ s[L] = 0 => n = 0
  <2>1. n # 0 => L \in (L - n + 1)..L
    BY <1>1, <1>3
  <2> QED BY <1>1, <2>1 DEF Trailing, IsRun
<1>6. /\ MIN_AUTO_EXTRA \in Nat /\ ~Fits(0) /\ ~Fits(1)
  BY StagesAssumption DEF Fits
<1> HIDE DEF L, t
<1>7. ASSUME L + 1 < size
      PROVE  Trailing(t, c.a_len) /\ c.tokens = Ended(t, L)
  <2>1. ~force /\ len1 = n /\ end = L - 1 /\ (flush <=> sum # p)
    BY <1>3, <1>7
  <2>2. c.tokens = Ended(t, L)
    BY <1>2, <1>4, <2>1
  <2>3. CASE sum = 0
    <3>1. c.a_len = 0
      BY <1>1, <1>2, <1>5, <2>1, <2>3
    <3> QED BY <1>3, <2>2, <2>3, <3>1 DEF Trailing
  <2>4. CASE sum # 0 /\ sum = p
    <3>1. L # 0 /\ s[L] = sum /\ n # 0 /\ c.a_len = n + 1
      BY <1>1, <1>2, <1>5, <2>1, <2>4
    <3>2. L - n + 1 \in 1..L /\ Len(t) - (n + 1) + 1 = L - n + 1 /\ n + 1 \in 0..Len(t) /\ n + 1 # 0
      BY <1>1, <1>3, <3>1
    <3>3. IsRun(t, L - n + 1, Len(t))
      BY <1>3, <1>5, <3>1, <3>2
    <3> QED BY <2>2, <3>1, <3>2, <3>3 DEF Trailing
  <2>5. CASE sum # 0 /\ sum # p
    <3>1. c.a_len = 1
      BY <1>2, <2>5
    <3>2. IsRun(t, Len(t), Len(t))
      BY <1>1, <1>3, <2>5
    <3>3. Len(t) - 1 + 1 = Len(t) /\ 1 \in 0..Len(t)
      BY <1>3
    <3> QED BY <2>2, <3>1, <3>2, <3>3 DEF Trailing
  <2> QED BY <2>3, <2>4, <2>5
<1>8. ASSUME L + 1 = size
      PROVE  c.tokens = Ended(t, L + 1)
  <2>1. (force <=> sum = p) /\ flush
    BY <1>3, <1>8
  <2>2. ASSUME NEW tok \in Ended(t, L + 1), tok \notin Ended(t, L)
        PROVE  sum = p /\ Fits(n + 1) /\ tok = Token(L, n + 1)
    <3>1. PICK a, b \in 1..(L + 1) : /\ a <= b /\ IsRun(t, a, b) /\ Fits(b - a + 1)
                                     /\ tok = Token(b - 1, b - a + 1)
      BY <1>3, EndedAt
    <3>2. b = L + 1
      <4>1. CASE b \in 1..L
        <5>1. a \in 1..L
          BY <1>3, <3>1, <4>1
        <5> QED BY <1>3, <2>2, <3>1, <4>1, <5>1, EndedAt
      <4> QED BY <1>3, <3>1, <4>1
    <3>3. a # L + 1
      BY <1>3, <1>6, <3>1, <3>2
    <3>4. a \in 1..L
      BY <1>3, <3>1, <3>3
    <3>5. IsRun(s, a, L) /\ sum = s[L] /\ L # 0
      BY <1>3, <3>1, <3>2, <3>4
    <3>6. a = L - n + 1
      BY <1>1, <3>4, <3>5, OneRunEndsHere DEF L
    <3>7. b - 1 = L /\ b - a + 1 = n + 1
      BY <1>1, <1>3, <3>2, <3>6
    <3> QED BY <1>1, <3>1, <3>5, <3>7
  <2>3. ASSUME NEW tok \in Ended(t, L) PROVE tok \in Ended(t, L + 1)
    <3>1. PICK a, b \in 1..L : /\ a <= b /\ IsRun(t, a, b) /\ Fits(b - a + 1)
                               /\ tok = Token(b - 1, b - a + 1)
      BY <1>3, EndedAt
    <3>2. a \in 1..(L + 1) /\ b \in 1..(L + 1)
      BY <1>3, <3>1
    <3> QED BY <1>3, <3>1, <3>2, EndedAt
  <2>4. ASSUME sum = p, Fits(n + 1) PROVE Token(L, n + 1) \in Ended(t, L + 1)
    <3>1. n # 0
      BY <1>6, <2>4
    <3>2. PICK a : a = L - n + 1
      OBVIOUS
    <3>3. /\ a \in 1..L /\ a \in 1..(L + 1) /\ L + 1 \in 1..(L + 1) /\ a <= L + 1
          /\ L + 1 - a + 1 = n + 1 /\ L + 1 - 1 = L /\ L # 0
      BY <1>1, <1>3, <3>1, <3>2
    <3>4. IsRun(t, a, L + 1)
      BY <1>1, <1>3, <1>5, <2>4, <3>1, <3>2, <3>3
    <3> QED BY <1>3, <2>4, <3>3, <3>4, EndedAt
  <2>5. CASE sum = p
    <3>1. Ended(t, L) = Ended(s, L - 1)
      BY <1>4, <2>5
    <3>2. c.tokens = IF Fits(n + 1) THEN Ended(t, L) \cup {Token(L, n + 1)} ELSE Ended(t, L)
      BY <1>2, <2>1, <2>5, <3>1
    <3> HIDE DEF force, flush, len1, len2, end
    <3> QED BY <2>2, <2>3, <2>4, <2>5, <3>2
  <2>6. CASE sum # p
    <3>1. c.tokens = Ended(t, L)
      BY <1>2, <1>4, <2>1, <2>6
    <3> HIDE DEF force, flush, len1, len2, end
    <3> QED BY <2>2, <2>3, <2>6, <3>1
  <2> QED BY <2>5, <2>6
<1>9. c.a_len \in Nat
  BY <1>1, <1>2, <1>3
<1>10. Len(c.sums) = L + 1 /\ L + 1 - 1 = L /\ c.sums = t
  BY <1>2, <1>3
<1>11. /\ Len(c.sums) < size => Trailing(c.sums, c.a_len) /\ c.tokens = Ended(c.sums, Len(c.sums) - 1)
       /\ Len(c.sums) = size => c.tokens = Ended(c.sums, Len(c.sums))
  <2>1. Len(c.sums) - 1 = L
    BY <1>3, <1>10
  <2>2. ASSUME Len(c.sums) < size
        PROVE  Trailing(c.sums, c.a_len) /\ c.tokens = Ended(c.sums, Len(c.sums) - 1)
    BY <1>7, <1>10, <2>1, <2>2
  <2>3. ASSUME Len(c.sums) = size PROVE c.tokens = Ended(c.sums, Len(c.sums))
    BY <1>8, <1>10, <2>3
  <2> QED BY <2>2, <2>3
<1>12. c.sums = Append(collect.sums, sum)
  BY <1>10 DEF s, t
<1> QED BY <1>2, <1>9, <1>11, <1>12

-----------------------------------------------------------------------------
(* The steps.                                                              *)
LEMMA EndedNowhere == \A s, m : m \in {-1, 0} => Ended(s, m) = {}
<1>1. ASSUME NEW s, NEW m \in {-1, 0}, NEW tok \in Ended(s, m) PROVE FALSE
  <2>1. m \in Int /\ \A a \in 1..m : FALSE
    OBVIOUS
  <2> QED BY <1>1, <2>1, EndedAt
<1> QED BY <1>1

LEMMA RestFacts ==
  /\ NoWalk \in [i : Nat, j : Nat, cur : Nat, max : Int, last : Nat]
  /\ NoWalk.i = 0 /\ NoWalk.j = 0 /\ NoWalk.last = 0
  /\ DOMAIN NoCollect = {"sums", "a_len", "prev", "tokens"}
  /\ NoCollect.sums \in Seq(Sums) /\ Len(NoCollect.sums) = 0 /\ NoCollect.a_len \in Nat
  /\ NoCollect.prev = 0 /\ Trailing(NoCollect.sums, NoCollect.a_len)
  /\ NoCollect.tokens = Ended(NoCollect.sums, 0) /\ NoCollect.tokens = Ended(NoCollect.sums, 0 - 1)
<1>1. NoCollect.sums = <<>> /\ NoCollect.a_len = 0 /\ NoCollect.prev = 0 /\ NoCollect.tokens = {}
  BY DEF NoCollect
<1>2. <<>> \in Seq(Sums) /\ Len(<<>>) = 0
  BY EmptySeq
<1>3. Trailing(<<>>, 0)
  BY <1>2 DEF Trailing
<1>4. \A s : {} = Ended(s, 0) /\ {} = Ended(s, 0 - 1)
  BY EndedNowhere
<1>5. DOMAIN NoCollect = {"sums", "a_len", "prev", "tokens"}
  BY DEF NoCollect
<1>6. /\ NoWalk \in [i : Nat, j : Nat, cur : Nat, max : Int, last : Nat]
      /\ NoWalk.i = 0 /\ NoWalk.j = 0 /\ NoWalk.last = 0
  BY DEF NoWalk
<1> QED BY <1>1, <1>2, <1>3, <1>4, <1>5, <1>6

\* The entry that is left behind.
LEMMA AbandonKeeps ==
  ASSUME StagesInv, NEW stopped \in BOOLEAN, Abandon(stopped)
  PROVE  StagesInv'
<1>1. stage' = "idle" /\ walk' = NoWalk /\ dirty' = {} /\ collect' = NoCollect
  BY DEF Abandon
<1>2. stage' \notin StageNames
  BY <1>1 DEF StageNames
<1>3. StageTypes'
  BY <1>1, RestFacts DEF StageTypes, StagesInv, Abandon
<1> QED BY <1>1, <1>2, <1>3 DEF StagesInv, AtRest, Planned, Touched, Collecting

\* A stage that begins, on a seed that is whole.
LEMMA StartKeeps ==
  ASSUME StagesInv, NEW s \in StageNames \cup {"done"}, StartStage(s, entry'),
         entry' \in [len : Nat, cal_failed : Nat, trim_done : BOOLEAN, was_fuzzed : BOOLEAN,
                     passed_det : BOOLEAN, dumb : BOOLEAN, no_arith : BOOLEAN],
         dirty' = {}, collect' = NoCollect
  PROVE  StagesInv'
<1>1. stage' = s /\ DOMAIN collect' = {"sums", "a_len", "prev", "tokens"}
      /\ collect'.sums \in Seq(Sums) /\ Len(collect'.sums) = 0 /\ collect'.a_len \in Nat
  BY RestFacts DEF StartStage
<1>2. "done" \notin StageNames
  BY DEF StageNames
<1>3. CASE s = "done"
  <2>1. walk' = NoWalk
    BY <1>3 DEF StartStage
  <2>2. StageTypes'
    BY <1>1, <2>1, RestFacts DEF StageTypes
  <2> QED BY <1>1, <1>2, <1>3, <2>1, <2>2 DEF StagesInv, AtRest, Planned, Touched, Collecting
<1>4. CASE s \in StageNames
  <2>1. entry'.len \in Nat /\ s # "done"
    BY <1>2, <1>4
  <2>2. PICK P, N : P = Positions(s, entry'.len) /\ N = PerPosition(s)
    OBVIOUS
  <2>3. /\ N \in Nat /\ P \in Int /\ StageMax(s, entry'.len) \in Int
        /\ s # "ext_UI" => StageMax(s, entry'.len) = P * N
    BY <1>4, <2>1, <2>2, StageSizes
  <2>4. walk' = [i |-> 0, j |-> 0, cur |-> 0, max |-> StageMax(s, entry'.len), last |-> 0]
    BY <2>1 DEF StartStage
  <2>5. StageTypes'
    BY <1>1, <1>4, <2>3, <2>4 DEF StageTypes
  <2>6. (P - 0) * N - 0 = P * N
    BY <2>3
  <2>7. Planned'
    BY <1>1, <2>2, <2>3, <2>4, <2>6 DEF Planned
  <2>8. Touched'
    BY <2>4 DEF Touched
  <2>9. Gathered(entry.len)'
    BY <2>1, RestFacts DEF Gathered
  <2>10. Collecting'
    BY <1>1, <2>4, <2>9 DEF Collecting
  <2> QED BY <1>1, <1>4, <2>5, <2>7, <2>8, <2>10 DEF StagesInv, AtRest
<1> QED BY <1>3, <1>4

LEMMA WrittenHere ==
  ASSUME NEW s \in StageNames, StagesInv, ~Over(s), walk'.i = walk.i
  PROVE  Written(s)' = Written(s)
  BY DEF Written

\* A position without a flagged entry is passed over.
LEMMA SkipDeadKeeps ==
  ASSUME NEW s \in StageNames, StagesInv, SkipDead(s) PROVE StagesInv'
<1>1. PICK P, N : P = Positions(s, entry.len) /\ N = PerPosition(s)
  OBVIOUS
<1>2. /\ stage = s /\ stage' = s /\ entry' = entry /\ dirty' = dirty /\ collect' = collect
      /\ walk' = [walk EXCEPT !.i = @ + 1, !.max = @ - N]
      /\ (walk.i < P /\ walk.j = 0)
      /\ s \notin {"flip1", "ext_UI", "ext_UO", "ext_AO"}
  BY <1>1 DEF SkipDead, InStage, Consults
<1>3. N \in Nat /\ P \in Int /\ entry.len \in Nat
  BY <1>1, StageSizes DEF StagesInv, StageTypes
<1>4. /\ walk \in [i : Nat, j : Nat, cur : Nat, max : Int, last : Nat]
      /\ walk.i \in Nat /\ walk.max \in Int /\ walk.cur \in Nat
      /\ walk'.i = walk.i + 1 /\ walk'.j = 0 /\ walk'.cur = walk.cur /\ walk'.max = walk.max - N
      /\ walk'.last = walk.last
      /\ walk' \in [i : Nat, j : Nat, cur : Nat, max : Int, last : Nat]
  <2>1. walk \in [i : Nat, j : Nat, cur : Nat, max : Int, last : Nat]
    BY DEF StagesInv, StageTypes
  <2>2. walk.i \in Nat /\ walk.j \in Nat /\ walk.max \in Int /\ walk.cur \in Nat /\ walk.last \in Nat
    BY <2>1
  <2>3. walk' = [i |-> walk.i + 1, j |-> walk.j, cur |-> walk.cur, max |-> walk.max - N, last |-> walk.last]
    BY <1>2, <2>1
  <2>4. walk.i + 1 \in Nat /\ walk.j + 1 \in Nat /\ walk.max - N \in Int
    BY <1>3, <2>2
  <2> QED BY <1>2, <2>1, <2>2, <2>3, <2>4
<1>5. StageTypes'
  BY <1>2, <1>4 DEF StagesInv, StageTypes
<1>6. Planned'
  <2>1. walk.max - walk.cur = (P - walk.i) * N - 0
    BY <1>1, <1>2 DEF StagesInv, Planned
  <2>2. (P - walk.i) * N - N = (P - (walk.i + 1)) * N
    BY <1>3, <1>4
  <2>3. walk'.max - walk'.cur = (P - walk'.i) * N - walk'.j
    <3>1. (P - walk.i) * N \in Int /\ (P - (walk.i + 1)) * N \in Int
      BY <1>3, <1>4
    <3> QED BY <1>3, <1>4, <2>1, <2>2, <3>1
  <2> QED BY <1>1, <1>2, <1>3, <1>4, <2>3 DEF Planned
<1>7. Touched'
  BY <1>2, <1>4 DEF StagesInv, Touched
<1>8. Collecting' /\ AtRest'
  BY <1>2 DEF StagesInv, Collecting, AtRest
<1> QED BY <1>5, <1>6, <1>7, <1>8 DEF StagesInv

\* A value is not tried.
LEMMA SkipValueKeeps ==
  ASSUME NEW s \in StageNames, StagesInv, SkipValue(s) PROVE StagesInv'
<1>1. PICK P, N : P = Positions(s, entry.len) /\ N = PerPosition(s)
  OBVIOUS
<1>2. /\ stage = s /\ stage' = s /\ entry' = entry /\ dirty' = dirty /\ collect' = collect
      /\ walk' = [walk EXCEPT !.j = @ + 1, !.max = @ - 1]
      /\ walk.i < P /\ walk.j < N
      /\ s # "flip1"
  BY <1>1 DEF SkipValue, InStage, Bits
<1>3. N \in Nat /\ P \in Int /\ entry.len \in Nat
  BY <1>1, StageSizes DEF StagesInv, StageTypes
<1>4. /\ walk \in [i : Nat, j : Nat, cur : Nat, max : Int, last : Nat]
      /\ walk.i \in Nat /\ walk.j \in Nat /\ walk.max \in Int /\ walk.cur \in Nat /\ walk.last \in Nat
      /\ walk'.i = walk.i /\ walk'.j = walk.j + 1 /\ walk'.cur = walk.cur /\ walk'.max = walk.max - 1
      /\ walk'.last = walk.last
      /\ walk' \in [i : Nat, j : Nat, cur : Nat, max : Int, last : Nat]
  <2>1. walk \in [i : Nat, j : Nat, cur : Nat, max : Int, last : Nat]
    BY DEF StagesInv, StageTypes
  <2>2. walk.i \in Nat /\ walk.j \in Nat /\ walk.max \in Int /\ walk.cur \in Nat /\ walk.last \in Nat
    BY <2>1
  <2>3. walk' = [i |-> walk.i, j |-> walk.j + 1, cur |-> walk.cur, max |-> walk.max - 1, last |-> walk.last]
    BY <1>2, <2>1
  <2>4. walk.i + 1 \in Nat /\ walk.j + 1 \in Nat /\ walk.max - 1 \in Int
    BY <1>3, <2>2
  <2> QED BY <1>2, <2>1, <2>2, <2>3, <2>4
<1>5. StageTypes'
  BY <1>2, <1>4 DEF StagesInv, StageTypes
<1>6. Planned'
  <2>1. s # "ext_UI" => walk.max - walk.cur = (P - walk.i) * N - walk.j
    BY <1>1, <1>2 DEF StagesInv, Planned
  <2>2. (P - walk.i) * N \in Int
    BY <1>3, <1>4
  <2>3. s # "ext_UI" => walk'.max - walk'.cur = (P - walk'.i) * N - walk'.j
    BY <1>4, <2>1, <2>2
  <2> QED BY <1>1, <1>2, <1>3, <1>4, <2>3 DEF Planned
<1>7. Touched'
  <2>1. CASE Over(s)
    <3>1. /\ N = Len(Tokens(s)) /\ Tokens(s) \in Seq(Nat)
          /\ \A k \in 1..Len(Tokens(s)) - 1 : Tokens(s)[k] <= Tokens(s)[k + 1]
      BY <1>1, <1>3, <2>1, StageSizes
    <3>2. dirty \subseteq walk.i .. walk.i + walk.last - 1
      BY <1>2, <2>1 DEF StagesInv, Touched
    <3>3. walk.last <= Tokens(s)[walk.j + 1]
      <4>1. walk.j + 1 \in 1..N
        BY <1>2, <1>3, <1>4
      <4>2. Tokens(s)[walk.j + 1] \in Nat
        BY <3>1, <4>1, ElementOfSeq
      <4>3. CASE walk.j = 0
        BY <1>2, <1>4, <4>2, <4>3 DEF StagesInv, Touched
      <4>4. CASE walk.j # 0
        <5>1. walk.j \in 1..N - 1 /\ walk.j \in 1..N
          BY <1>2, <1>3, <1>4, <4>4
        <5>2. Tokens(s)[walk.j] \in Nat /\ Tokens(s)[walk.j] <= Tokens(s)[walk.j + 1]
          BY <3>1, <5>1, ElementOfSeq
        <5>3. walk.last <= Tokens(s)[walk.j]
          BY <1>2, <2>1, <4>4 DEF StagesInv, Touched
        <5> QED BY <1>4, <4>2, <5>2, <5>3
      <4> QED BY <4>3, <4>4
    <3>4. walk'.j # 0
      BY <1>4
    <3> QED BY <1>2, <1>4, <2>1, <3>2, <3>3, <3>4 DEF Touched
  <2>2. CASE ~Over(s)
    <3>1. dirty \subseteq Written(s) /\ Written(s)' = Written(s)
      BY <1>2, <1>4, <2>2, WrittenHere DEF StagesInv, Touched
    <3>2. walk'.j # 0
      BY <1>4
    <3> QED BY <1>2, <2>2, <3>1, <3>2 DEF Touched
  <2> QED BY <2>1, <2>2
<1>8. Collecting' /\ AtRest'
  BY <1>2 DEF StagesInv, Collecting, AtRest
<1> QED BY <1>5, <1>6, <1>7, <1>8 DEF StagesInv

\* A value is tried, and the run does not end the work on the seed.
LEMMA TryValueKeeps ==
  ASSUME NEW s \in StageNames, StagesInv, InStage(s), walk.j < PerPosition(s),
         NEW q, q = (IF Over(s) THEN Tokens(s)[walk.j + 1] ELSE 0),
         walk' = [walk EXCEPT !.j = @ + 1, !.cur = @ + 1, !.last = q],
         dirty' = dirty \cup Written(s), UNCHANGED <<stage, entry, eff_map, collect>>
  PROVE  StagesInv'
<1>1. PICK P, N : P = Positions(s, entry.len) /\ N = PerPosition(s)
  OBVIOUS
<1>2. q = IF Over(s) THEN Tokens(s)[walk.j + 1] ELSE 0
  OBVIOUS
<1>3. /\ stage = s /\ stage' = s /\ entry' = entry /\ collect' = collect
      /\ walk.i < P /\ walk.j < N
  BY <1>1 DEF InStage
<1>4. N \in Nat /\ P \in Int /\ entry.len \in Nat
  BY <1>1, StageSizes DEF StagesInv, StageTypes
<1>5. /\ walk \in [i : Nat, j : Nat, cur : Nat, max : Int, last : Nat]
      /\ walk.i \in Nat /\ walk.j \in Nat /\ walk.max \in Int /\ walk.cur \in Nat /\ walk.last \in Nat
  <2>1. walk \in [i : Nat, j : Nat, cur : Nat, max : Int, last : Nat]
    BY DEF StagesInv, StageTypes
  <2> QED BY <2>1
<1>6. /\ Over(s) => /\ N = Len(Tokens(s)) /\ Tokens(s) \in Seq(Nat)
                    /\ \A k \in 1..Len(Tokens(s)) - 1 : Tokens(s)[k] <= Tokens(s)[k + 1]
      /\ walk.j + 1 \in 1..N
      /\ walk.j # 0 => walk.j \in 1..N - 1 /\ walk.j \in 1..N
  <2>1. walk.j + 1 \in 1..N /\ (walk.j # 0 => walk.j \in 1..N - 1 /\ walk.j \in 1..N)
    BY <1>3, <1>4, <1>5
  <2>2. Over(s) => /\ PerPosition(s) = Len(Tokens(s)) /\ Tokens(s) \in Seq(Nat)
                   /\ \A k \in 1..Len(Tokens(s)) - 1 : Tokens(s)[k] <= Tokens(s)[k + 1]
    BY <1>4, StageSizes
  <2> QED BY <1>1, <2>1, <2>2
<1>7. q \in Nat
  BY <1>2, <1>6, ElementOfSeq
<1>8. walk' = [i |-> walk.i, j |-> walk.j + 1, cur |-> walk.cur + 1, max |-> walk.max, last |-> q]
  BY <1>2, <1>5
<1>9. /\ walk'.i = walk.i /\ walk'.j = walk.j + 1 /\ walk'.cur = walk.cur + 1
      /\ walk'.max = walk.max /\ walk'.last = q /\ walk'.j # 0
      /\ walk' \in [i : Nat, j : Nat, cur : Nat, max : Int, last : Nat]
  <2>1. walk.j + 1 \in Nat /\ walk.cur + 1 \in Nat /\ walk.j + 1 # 0
    BY <1>5
  <2>2. walk' \in [i : Nat, j : Nat, cur : Nat, max : Int, last : Nat]
    BY <1>5, <1>7, <1>8, <2>1
  <2>3. /\ walk'.i = walk.i /\ walk'.j = walk.j + 1 /\ walk'.cur = walk.cur + 1
        /\ walk'.max = walk.max /\ walk'.last = q
    BY <1>8
  <2>4. walk'.j # 0
    BY <2>1, <2>3
  <2> QED BY <2>2, <2>3, <2>4
<1>10. StageTypes'
  BY <1>3, <1>9 DEF StagesInv, StageTypes
<1>11. Planned'
  <2>1. s # "ext_UI" => walk.max - walk.cur = (P - walk.i) * N - walk.j
    BY <1>1, <1>3 DEF StagesInv, Planned
  <2>2. (P - walk.i) * N \in Int
    BY <1>4, <1>5
  <2>3. s # "ext_UI" => walk'.max - walk'.cur = (P - walk'.i) * N - walk'.j
    BY <1>5, <1>9, <2>1, <2>2
  <2>4. walk'.j <= N
    BY <1>3, <1>4, <1>5, <1>9
  <2> QED BY <1>1, <1>3, <1>9, <2>3, <2>4 DEF Planned
<1>12. Touched'
  <2>1. CASE Over(s)
    <3>1. Written(s) = walk.i .. walk.i + q - 1
      <4>1. Written(s) = walk.i .. walk.i + Tokens(s)[walk.j + 1] - 1
        BY <2>1 DEF Written, Over, Bits
      <4> QED BY <1>2, <2>1, <4>1
    <3>2. dirty \subseteq walk.i .. walk.i + walk.last - 1
      BY <1>3, <2>1 DEF StagesInv, Touched
    <3>3. walk.last <= q
      <4>1. CASE walk.j = 0
        BY <1>3, <1>5, <1>7, <4>1 DEF StagesInv, Touched
      <4>2. CASE walk.j # 0
        <5>1. Tokens(s)[walk.j] \in Nat /\ Tokens(s)[walk.j] <= q
          BY <1>2, <1>6, <2>1, <4>2, ElementOfSeq
        <5>2. walk.last <= Tokens(s)[walk.j]
          BY <1>3, <2>1, <4>2 DEF StagesInv, Touched
        <5> QED BY <1>5, <1>7, <5>1, <5>2
      <4> QED BY <4>1, <4>2
    <3>4. \A x \in walk.i .. walk.i + walk.last - 1 : x \in walk.i .. walk.i + q - 1
      BY <1>5, <1>7, <3>3
    <3>5. dirty' \subseteq walk'.i .. walk'.i + walk'.last - 1
      BY <1>9, <3>1, <3>2, <3>4
    <3>6. walk'.last <= Tokens(s)[walk'.j]
      BY <1>2, <1>7, <1>9, <2>1
    <3> QED BY <1>3, <1>9, <2>1, <3>5, <3>6 DEF Touched
  <2>2. CASE ~Over(s)
    <3>1. dirty \subseteq Written(s) /\ Written(s)' = Written(s)
      BY <1>3, <1>9, <2>2, WrittenHere DEF StagesInv, Touched
    <3> QED BY <1>3, <1>9, <2>2, <3>1 DEF Touched
  <2> QED BY <2>1, <2>2
<1>13. Collecting' /\ AtRest'
  BY <1>3, <1>9 DEF StagesInv, Collecting, AtRest, Gathered
<1> QED BY <1>10, <1>11, <1>12, <1>13 DEF StagesInv

\* The end of a position, as all stages have it.
LEMMA NextPositionKeeps ==
  ASSUME NEW s \in StageNames, StagesInv, InStage(s), walk.j = PerPosition(s), NextPosition(s)
  PROVE  /\ stage = s /\ stage' = s /\ entry' = entry /\ walk'.i = walk.i + 1 /\ walk.i \in Nat
         /\ walk' \in [i : Nat, j : Nat, cur : Nat, max : Int, last : Nat]
         /\ Planned' /\ Touched'
<1>1. PICK P, N : P = Positions(s, entry.len) /\ N = PerPosition(s)
  OBVIOUS
<1>2. /\ stage = s /\ stage' = s /\ entry' = entry /\ walk.i < P /\ walk.j = N
      /\ walk' = [walk EXCEPT !.i = @ + 1, !.j = 0, !.last = 0]
      /\ dirty' = dirty \ Restored(s)
  BY <1>1 DEF InStage, NextPosition
<1>3. N \in Nat /\ P \in Int /\ entry.len \in Nat
  BY <1>1, StageSizes DEF StagesInv, StageTypes
<1>4. /\ walk \in [i : Nat, j : Nat, cur : Nat, max : Int, last : Nat]
      /\ walk.i \in Nat /\ walk.max \in Int /\ walk.cur \in Nat
  <2>1. walk \in [i : Nat, j : Nat, cur : Nat, max : Int, last : Nat]
    BY DEF StagesInv, StageTypes
  <2> QED BY <2>1
<1>5. walk' = [i |-> walk.i + 1, j |-> 0, cur |-> walk.cur, max |-> walk.max, last |-> 0]
  BY <1>2, <1>4
<1>6. /\ walk'.i = walk.i + 1 /\ walk'.j = 0 /\ walk'.cur = walk.cur /\ walk'.max = walk.max
      /\ walk'.last = 0
      /\ walk' \in [i : Nat, j : Nat, cur : Nat, max : Int, last : Nat]
  <2>1. walk.i + 1 \in Nat
    BY <1>4
  <2> QED BY <1>4, <1>5, <2>1
<1>7. dirty' = {}
  BY <1>2 DEF StagesInv, Touched, Restored
<1>8. Touched'
  BY <1>2, <1>6, <1>7 DEF Touched
<1>9. Planned'
  <2>1. s # "ext_UI" => walk.max - walk.cur = (P - walk.i) * N - N
    BY <1>1, <1>2 DEF StagesInv, Planned
  <2>2. (P - walk.i) * N - N = (P - (walk.i + 1)) * N /\ (P - (walk.i + 1)) * N \in Int
    BY <1>3, <1>4
  <2>3. s # "ext_UI" => walk'.max - walk'.cur = (P - walk'.i) * N - walk'.j
    BY <1>6, <2>1, <2>2
  <2> QED BY <1>1, <1>2, <1>3, <1>6, <2>3 DEF Planned
<1> QED BY <1>2, <1>4, <1>6, <1>8, <1>9

LEMMA EndPositionKeeps ==
  ASSUME NEW s \in StageNames, StagesInv,
         EndPosition(s) \/ (s = "flip8" /\ \E c \in BOOLEAN : EndFlip8(c))
  PROVE  StagesInv'
<1>1. /\ InStage(s) /\ walk.j = PerPosition(s) /\ NextPosition(s) /\ s # "flip1"
      /\ collect' = collect
  BY DEF EndPosition, EndFlip8, PerPosition
<1>2. /\ stage = s /\ stage' = s /\ entry' = entry /\ Planned' /\ Touched'
      /\ walk' \in [i : Nat, j : Nat, cur : Nat, max : Int, last : Nat]
  BY <1>1, NextPositionKeeps
<1>3. StageTypes' /\ AtRest' /\ Collecting'
  BY <1>1, <1>2 DEF StagesInv, StageTypes, AtRest, Collecting
<1> QED BY <1>2, <1>3 DEF StagesInv

\* flip1 is through with a bit, and with a byte after the last of its bits.
LEMMA EndFlip1Keeps ==
  ASSUME StagesInv, NEW sum \in Sums, EndFlip1(sum) PROVE StagesInv'
<1>1. "flip1" \in StageNames /\ PerPosition("flip1") = 1 /\ Bits("flip1") = 1
  BY DEF StageNames, PerPosition, Bits
<1>2. /\ InStage("flip1") /\ walk.j = 1 /\ NextPosition("flip1")
      /\ collect' = IF walk.i % 8 = 7 /\ ~entry.dumb
                    THEN Collected(sum, walk.i \div 8, walk.i = 8 * entry.len - 1)
                    ELSE collect
  BY DEF EndFlip1
<1>3. /\ stage = "flip1" /\ stage' = "flip1" /\ entry' = entry /\ Planned' /\ Touched'
      /\ walk' \in [i : Nat, j : Nat, cur : Nat, max : Int, last : Nat]
      /\ walk.i \in Nat /\ walk'.i = walk.i + 1
  BY <1>1, <1>2, NextPositionKeeps
<1>4. entry.len \in Nat /\ walk.i < 8 * entry.len
  <2>1. entry.len \in Nat
    BY DEF StagesInv, StageTypes
  <2> QED BY <1>1, <1>2, <2>1 DEF InStage, Positions
<1>5. /\ walk.i \div 8 \in Nat /\ walk.i \div 8 < entry.len
      /\ walk.i % 8 # 7 => (walk.i + 1) \div 8 = walk.i \div 8
      /\ walk.i % 8 = 7 => /\ (walk.i + 1) \div 8 = walk.i \div 8 + 1
                           /\ walk.i = 8 * entry.len - 1 <=> walk.i \div 8 = entry.len - 1
  BY <1>3, <1>4
<1>6. CASE walk.i % 8 = 7 /\ ~entry.dumb
  <2>1. Len(collect.sums) = walk.i \div 8 /\ Gathered(entry.len)
    BY <1>1, <1>3, <1>6 DEF StagesInv, Collecting
  <2>2. collect' = Collected(sum, Len(collect.sums), Len(collect.sums) = entry.len - 1)
    BY <1>2, <1>5, <1>6, <2>1
  <2>3. Len(collect.sums) < entry.len /\ StageTypes
    BY <1>5, <2>1 DEF StagesInv
  <2>4. PICK c : c = collect'
    OBVIOUS
  <2>5. /\ c = [sums |-> c.sums, prev |-> c.prev, tokens |-> c.tokens, a_len |-> c.a_len]
        /\ c.sums = Append(collect.sums, sum) /\ c.a_len \in Nat /\ c.prev = sum
        /\ Len(c.sums) < entry.len =>
             Trailing(c.sums, c.a_len) /\ c.tokens = Ended(c.sums, Len(c.sums) - 1)
        /\ Len(c.sums) = entry.len => c.tokens = Ended(c.sums, Len(c.sums))
    BY <1>4, <2>1, <2>2, <2>3, <2>4, CollectedRight
  <2>6. /\ c.sums \in Seq(Sums) /\ Len(c.sums) = walk.i \div 8 + 1 /\ Len(c.sums) # 0
        /\ c.sums[Len(c.sums)] = sum
    BY <1>5, <2>1, <2>3, <2>5, RunsAppended DEF StageTypes
  <2>7. DOMAIN c = {"sums", "a_len", "prev", "tokens"}
    BY <2>5
  <2>8. Collecting'
    BY <1>3, <1>5, <1>6, <2>4, <2>5, <2>6 DEF Collecting, Gathered
  <2>9. StageTypes' /\ AtRest'
    BY <1>1, <1>3, <2>4, <2>5, <2>6, <2>7 DEF StagesInv, StageTypes, AtRest
  <2> QED BY <1>3, <2>8, <2>9 DEF StagesInv
<1>7. CASE ~(walk.i % 8 = 7 /\ ~entry.dumb)
  <2>1. collect' = collect
    BY <1>2, <1>7
  <2>2. Collecting'
    BY <1>1, <1>3, <1>5, <1>7, <2>1 DEF StagesInv, Collecting, Gathered
  <2> QED BY <1>1, <1>3, <2>1, <2>2 DEF StagesInv, StageTypes, AtRest
<1> QED BY <1>6, <1>7

\* A stage ends, and the next one begins on a seed that is whole again.
LEMMA EndStageKeeps ==
  ASSUME NEW s \in StageNames, StagesInv, EndStage(s) PROVE StagesInv'
<1>1. /\ stage = s /\ walk.i = Positions(s, entry.len) /\ entry' = entry /\ dirty' = dirty
      /\ collect' = NoCollect /\ StartStage(StageAt(IndexOf(s) + 1, entry), entry')
  BY DEF EndStage
<1>2. walk.j = 0
  <2>1. walk.j \in Nat /\ entry.len \in Nat
    BY DEF StagesInv, StageTypes
  <2>2. Positions(s, entry.len) \in Int
    BY <2>1, StageSizes
  <2>3. walk.j > 0 => walk.i < Positions(s, entry.len)
    BY <1>1 DEF StagesInv, Planned
  <2> QED BY <1>1, <2>1, <2>2, <2>3
<1>3. dirty' = {}
  BY <1>1, <1>2 DEF StagesInv, Touched
<1>4. PICK t : t = StageAt(IndexOf(s) + 1, entry)
  OBVIOUS
<1>5. t \in StageNames \cup {"done"} /\ StartStage(t, entry')
  BY <1>1, <1>4, StageFollows
<1> QED BY <1>1, <1>3, <1>5, StartKeeps DEF StagesInv, StageTypes

\* Whatever a stage does in its walk.
LEMMA WalkKeeps ==
  ASSUME NEW s \in StageNames, StagesInv, WalkOn(s) PROVE StagesInv'
<1>1. CASE SkipDead(s)
  BY <1>1, SkipDeadKeeps
<1>2. CASE SkipValue(s)
  BY <1>2, SkipValueKeeps
<1>3. CASE TryValue(s)
  <2>1. PICK r \in {"ok", "tmout", "skip", "stop"} :
          \/ RunGivesUp(r)
          \/ /\ walk' = [walk EXCEPT !.j = @ + 1, !.cur = @ + 1,
                           !.last = IF Over(s) THEN Tokens(s)[walk.j + 1] ELSE 0]
             /\ dirty' = dirty \cup Written(s)
             /\ UNCHANGED <<stage, entry, eff_map, collect>>
    BY <1>3 DEF TryValue
  <2>2. CASE RunGivesUp(r)
    BY <2>2, AbandonKeeps DEF RunGivesUp
  <2>3. CASE ~RunGivesUp(r)
    <3>1. PICK q : q = IF Over(s) THEN Tokens(s)[walk.j + 1] ELSE 0
      OBVIOUS
    <3>2. InStage(s) /\ walk.j < PerPosition(s)
      BY <1>3 DEF TryValue
    <3>3. /\ walk' = [walk EXCEPT !.j = @ + 1, !.cur = @ + 1, !.last = q]
          /\ dirty' = dirty \cup Written(s) /\ UNCHANGED <<stage, entry, eff_map, collect>>
      BY <2>1, <2>3, <3>1, Zenon
    <3> QED BY <3>1, <3>2, <3>3, TryValueKeeps
  <2> QED BY <2>2, <2>3
<1>4. CASE EndPosition(s)
  BY <1>4, EndPositionKeeps
<1>5. CASE EndStage(s)
  BY <1>5, EndStageKeeps
<1> QED BY <1>1, <1>2, <1>3, <1>4, <1>5 DEF WalkOn

LEMMA StagesInitInv == StagesInit => StagesInv
<1> SUFFICES ASSUME StagesInit PROVE StagesInv
  OBVIOUS
<1>1. /\ stage = "idle" /\ walk = NoWalk /\ dirty = {} /\ collect = NoCollect
      /\ stage \notin StageNames
      /\ entry \in [len : Nat, cal_failed : Nat, trim_done : BOOLEAN, was_fuzzed : BOOLEAN,
                    passed_det : BOOLEAN, dumb : BOOLEAN, no_arith : BOOLEAN]
  BY DEF StagesInit, StageNames, NoEntry
<1>2. StageTypes
  BY <1>1, RestFacts DEF StageTypes
<1> QED BY <1>1, <1>2 DEF StagesInv, AtRest, Planned, Touched, Collecting

\* A step between or outside the stages, with everything at rest before and after.
LEMMA RestKeeps ==
  ASSUME StagesInv, stage' \in {"idle", "calibrate", "trim", "done", "havoc"},
         entry' \in [len : Nat, cal_failed : Nat, trim_done : BOOLEAN, was_fuzzed : BOOLEAN,
                     passed_det : BOOLEAN, dumb : BOOLEAN, no_arith : BOOLEAN],
         walk' = NoWalk, dirty' = {}, collect' = NoCollect
  PROVE  StagesInv'
<1>1. stage' \notin StageNames
  BY DEF StageNames
<1>2. StageTypes'
  BY RestFacts DEF StageTypes
<1> QED BY <1>1, <1>2 DEF StagesInv, AtRest, Planned, Touched, Collecting

LEMMA StagesStepInv == StagesInv /\ [StagesNext]_stageVars => StagesInv'
<1> SUFFICES ASSUME StagesInv, [StagesNext]_stageVars PROVE StagesInv'
  OBVIOUS
<1> DEFINE Entries == [len : Nat, cal_failed : Nat, trim_done : BOOLEAN, was_fuzzed : BOOLEAN,
                       passed_det : BOOLEAN, dumb : BOOLEAN, no_arith : BOOLEAN]
<1>0. entry \in Entries /\ Lens \subseteq Nat
  BY StagesAssumption DEF StagesInv, StageTypes
<1>a. stage \in {"idle", "calibrate", "trim", "done", "havoc"} =>
        walk = NoWalk /\ dirty = {} /\ collect = NoCollect
  BY DEF StagesInv, AtRest, StageNames
<1>1. ASSUME NEW l \in Lens, NEW f \in {0, 1, 3}, NEW z, NEW b \in BOOLEAN, NEW d \in BOOLEAN,
             NEW n \in BOOLEAN, z \in BOOLEAN, BeginEntry(l, f, z, b, d, n)
      PROVE  StagesInv'
  <2>1. /\ stage' \in {"idle", "calibrate", "trim", "done", "havoc"}
        /\ entry' \in Entries /\ walk' = NoWalk /\ dirty' = {} /\ collect' = NoCollect
    BY <1>0, <1>1 DEF BeginEntry
  <2> QED BY <2>1, RestKeeps
<1>2. ASSUME NEW ok \in BOOLEAN, NEW st \in BOOLEAN, Recalibrate(3, ok, st)
      PROVE  StagesInv'
  <2>1. CASE Abandon(st)
    BY <2>1, AbandonKeeps
  <2>2. CASE ~Abandon(st)
    <3>1. /\ stage' = "trim" /\ entry' = [entry EXCEPT !.cal_failed = 0]
          /\ UNCHANGED <<walk, dirty, collect>> /\ stage = "calibrate"
      BY <1>2, <2>2 DEF Recalibrate
    <3>2. entry' \in Entries
      BY <1>0, <3>1
    <3> QED BY <1>a, <3>1, <3>2, RestKeeps
  <2> QED BY <2>1, <2>2
<1>3. ASSUME NEW l \in Lens, NEW mine \in BOOLEAN, NEW st \in BOOLEAN, TrimThenChoose(l, mine, st)
      PROVE  StagesInv'
  <2>1. CASE st
    BY <1>3, <2>1, AbandonKeeps DEF TrimThenChoose
  <2>2. CASE ~st
    <3>1. PICK e : e = [entry EXCEPT !.len = l, !.trim_done = ~entry.dumb]
      OBVIOUS
    <3>2. /\ stage = "trim" /\ entry' = e /\ dirty' = dirty /\ collect' = collect
          /\ (stage' = "havoc" /\ walk' = walk) \/ StartStage("flip1", e)
      BY <1>3, <2>2, <3>1 DEF TrimThenChoose
    <3>3. e \in Entries
      BY <1>0, <3>1
    <3>4. dirty' = {} /\ collect' = NoCollect /\ walk = NoWalk /\ "flip1" \in StageNames
      BY <1>a, <3>2 DEF StageNames
    <3>5. CASE stage' = "havoc" /\ walk' = walk
      BY <3>2, <3>3, <3>4, <3>5, RestKeeps
    <3>6. CASE StartStage("flip1", e)
      BY <3>2, <3>3, <3>4, <3>6, StartKeeps
    <3> QED BY <3>2, <3>5, <3>6
  <2> QED BY <2>1, <2>2
<1>4. CASE MarkDetDone
  <2>1. /\ stage = "done" /\ stage' = "havoc" /\ entry' = [entry EXCEPT !.passed_det = TRUE]
        /\ UNCHANGED <<walk, dirty, collect>>
    BY <1>4 DEF MarkDetDone
  <2>2. entry' \in Entries
    BY <1>0, <2>1
  <2> QED BY <1>a, <2>1, <2>2, RestKeeps
<1>5. ASSUME NEW st \in BOOLEAN, HavocThenLeave(st) PROVE StagesInv'
  BY <1>5, AbandonKeeps DEF HavocThenLeave
<1>6. ASSUME NEW s \in StageNames, WalkOn(s) PROVE StagesInv'
  BY <1>6, WalkKeeps
<1>7. ASSUME NEW sum \in Sums, EndFlip1(sum) PROVE StagesInv'
  BY <1>7, EndFlip1Keeps
<1>8. ASSUME NEW c \in BOOLEAN, EndFlip8(c) PROVE StagesInv'
  <2>1. "flip8" \in StageNames
    BY DEF StageNames
  <2> QED BY <1>8, <2>1, EndPositionKeeps
<1>9. CASE UNCHANGED stageVars
  BY <1>9 DEF stageVars, StagesInv, StageTypes, AtRest, Planned, Touched, Collecting, Written, Gathered
<1>10. CASE \/ WalkingBits \/ WalkingByte \/ WalkingBytes
            \/ Arith8 \/ Arith16 \/ Arith32
            \/ Interest8 \/ Interest16 \/ Interest32
            \/ OverwriteExtras \/ InsertExtras \/ OverwriteAuto
  <2>1. \/ \E s \in StageNames : WalkOn(s)
        \/ \E sum \in Sums : EndFlip1(sum)
        \/ \E c \in BOOLEAN : EndFlip8(c)
    BY <1>10 DEF WalkingBits, WalkingByte, WalkingBytes, Arith8, Arith16, Arith32, Interest8,
       Interest16, Interest32, OverwriteExtras, InsertExtras, OverwriteAuto, StageNames
  <2> QED BY <1>6, <1>7, <1>8, <2>1
<1> QED BY <1>1, <1>2, <1>3, <1>4, <1>5, <1>9, <1>10 DEF StagesNext

(* StagesRight: whatever the seeds, the tokens and the runs bring: between *)
(* two positions and before havoc the buffer is the seed again, the tokens *)
(* that flip1 finds are the maximal runs of bytes with one checksum other  *)
(* than the seed's, and a stage ends with stage_cur = stage_max (fuzz_one, *)
(* src/afl-fuzz.c:5440-6526).                                              *)
THEOREM StagesRightHolds == StagesSpec => []StagesRight
<1>1. StagesInv => StagesRight
  <2> SUFFICES ASSUME StagesInv PROVE StagesRight
    OBVIOUS
  <2>1. BufferRestored
    <3>1. CASE stage \in StageNames
      BY <3>1 DEF StagesInv, Touched, BufferRestored, StageNames
    <3>2. CASE stage \notin StageNames
      BY <3>2 DEF StagesInv, AtRest, BufferRestored
    <3> QED BY <3>1, <3>2
  <2>2. TokensAreRuns
    <3> SUFFICES ASSUME stage = "flip1", Len(collect.sums) = entry.len
                 PROVE  collect.tokens = Ended(collect.sums, Len(collect.sums))
      BY DEF TokensAreRuns, TokensOf, Ended
    <3>1. stage \in StageNames
      BY DEF StageNames
    <3>2. CASE ~entry.dumb
      BY <3>1, <3>2 DEF StagesInv, Collecting, Gathered
    <3>3. CASE entry.dumb
      <4>1. collect = NoCollect
        BY <3>1, <3>3 DEF StagesInv, Collecting
      <4> QED BY <4>1, RestFacts
    <3> QED BY <3>2, <3>3
  <2>3. CyclesAreRuns
    <3>1. ASSUME NEW s \in StageNames, stage = s, walk.i = Positions(s, entry.len), s # "ext_UI"
          PROVE  walk.max = walk.cur
      <4>1. /\ walk.j \in Nat /\ walk.max \in Int /\ walk.cur \in Nat /\ entry.len \in Nat
        BY DEF StagesInv, StageTypes
      <4>2. PICK P, N : P = Positions(s, entry.len) /\ N = PerPosition(s)
        OBVIOUS
      <4>3. P \in Int /\ N \in Nat
        BY <4>1, <4>2, StageSizes
      <4>4. walk.max - walk.cur = (P - walk.i) * N - walk.j /\ (walk.j > 0 => walk.i < P)
        BY <3>1, <4>2 DEF StagesInv, Planned
      <4>5. (P - P) * N = 0 /\ walk.j = 0
        BY <3>1, <4>1, <4>2, <4>3, <4>4
      <4> QED BY <3>1, <4>1, <4>2, <4>4, <4>5
    <3>2. \A k \in 1..Len(DetStages) : DetStages[k] \in StageNames
      BY DEF DetStages, StageNames
    <3> HIDE DEF DetStages
    <3> QED BY <3>1, <3>2 DEF CyclesAreRuns
  <2> QED BY <2>1, <2>2, <2>3 DEF StagesRight
<1> QED BY <1>1, StagesInitInv, StagesStepInv, PTL DEF StagesSpec

-----------------------------------------------------------------------------
(***************************************************************************)
(* Numbers.                                                                *)
(***************************************************************************)

\* A set of numbers with a member has a least one.
LEMMA LeastMember ==
  ASSUME NEW T \in SUBSET Nat, T # {}
  PROVE  \E x \in T : \A y \in T : x <= y
<1> DEFINE R == OpToRel(<, Nat)
<1>1. IsWellFoundedOn(R, Nat)
  BY NatLessThanWellFounded
<1>2. \A x, y \in Nat : x < y => <<x, y>> \in R
  BY DEF OpToRel
<1> HIDE DEF R
<1>3. PICK x \in T : \A y \in T : ~(<<y, x>> \in R)
  <2>1. T \subseteq Nat
    OBVIOUS
  <2> QED BY <1>1, <2>1, WFMin
<1>4. ASSUME NEW y \in T PROVE x <= y
  <2>1. x \in Nat /\ y \in Nat /\ ~(y < x)
    BY <1>2, <1>3
  <2> QED BY <2>1
<1> QED BY <1>4

-----------------------------------------------------------------------------
(***************************************************************************)
(* Havoc: a stage whose length the score decided is never longer than      *)
(* score * cycles / 100 runs, and both are doubled together.               *)
(***************************************************************************)
HavocFields == [cur : Nat, max : Int, perf : Nat, orig : Nat, splice : Nat, start : Int,
                cycles : Nat, lifted : BOOLEAN]
HavocInv ==
  /\ handicap \in Nat /\ havoc \in HavocFields
  /\ ~havoc.lifted => havoc.max * 100 <= havoc.cycles * havoc.perf
  /\ ScaledHavocCapped

(* Products that are compared: of one factor with two others. *)
LEMMA ProductMonotone ==
  ASSUME NEW a \in Nat, NEW b \in Nat, NEW c \in Nat, b <= c
  PROVE  a * b <= a * c /\ a * b \in Nat /\ a * c \in Nat
<1>1. PICK d \in Nat : c = b + d
  <2>1. c - b \in Nat /\ c = b + (c - b)
    OBVIOUS
  <2> QED BY <2>1
<1>2. a * c = a * b + a * d /\ a * d \in Nat
  BY <1>1
<1> QED BY <1>2

\* calculate_score gives a number.
LEMMA ScoreNat ==
  ASSUME NEW s \in SpeedScores, NEW z \in SizeMults, NEW d \in Depths, NEW h \in Nat
  PROVE  Score(s, z, h, d) \in Nat /\ HandicapLeft(h) \in Nat
<1>1. s \in Nat /\ z \in Nat /\ d \in Nat /\ HAVOC_MAX_MULT \in Nat
  BY HavocAssumption
<1>2. HandicapMult(h) \in Nat /\ DepthMult(d) \in Nat
  BY <1>1 DEF HandicapMult, DepthMult
<1>3. (s * z) \in Nat
  BY <1>1
<1>4. ((s * z) \div 4) \in Nat
  BY <1>3
<1>5. ((s * z) \div 4) * HandicapMult(h) \in Nat
  BY <1>2, <1>4
<1>6. ((s * z) \div 4) * HandicapMult(h) * DepthMult(d) \in Nat
  BY <1>2, <1>5
<1>7. HandicapLeft(h) \in Nat
  BY DEF HandicapLeft
<1> QED BY <1>1, <1>6, <1>7 DEF Score, Smaller

\* A stage starts with as many runs as its score allows.
LEMMA StartedIs ==
  ASSUME NEW cycles \in Nat, NEW base \in Nat, NEW factor \in Factors, NEW joins \in Nat, NEW st,
         st = Started(cycles, base, factor, joins)
  PROVE  /\ st \in HavocFields /\ st.max = st.start
         /\ ~st.lifted => st.max * 100 <= st.cycles * st.perf
<1> DEFINE perf == (base * factor) \div 2
           runs == (cycles * perf) \div 100
<1>1. factor \in Nat /\ HAVOC_MIN \in Nat
  BY HavocAssumption
<1>2. base * factor \in Nat
  BY <1>1
<1>3. perf \in Nat
  BY <1>2
<1>4. st = [cur |-> 0, perf |-> perf, orig |-> base, splice |-> joins,
            max |-> Larger(runs, HAVOC_MIN), start |-> Larger(runs, HAVOC_MIN),
            cycles |-> cycles, lifted |-> runs < HAVOC_MIN]
  BY DEF Started
<1>5. (cycles * perf) \in Nat
  <2> HIDE DEF perf
  <2> QED BY <1>3
<1>6. runs \in Nat /\ runs * 100 <= cycles * perf
  <2>1. ASSUME NEW x \in Nat PROVE x \div 100 \in Nat /\ (x \div 100) * 100 <= x
    OBVIOUS
  <2> HIDE DEF perf
  <2> QED BY <1>5, <2>1
<1> HIDE DEF perf, runs
<1>7. Larger(runs, HAVOC_MIN) \in Nat /\ (~(runs < HAVOC_MIN) => Larger(runs, HAVOC_MIN) = runs)
  BY <1>1, <1>6 DEF Larger
<1>8. /\ st.max = Larger(runs, HAVOC_MIN) /\ st.start = Larger(runs, HAVOC_MIN)
      /\ st.perf = perf /\ st.cycles = cycles
  BY <1>4
<1>9. st.lifted = (runs < HAVOC_MIN)
  BY <1>4
<1>10. st \in HavocFields
  BY <1>3, <1>4, <1>6, <1>7 DEF HavocFields
<1> QED BY <1>6, <1>7, <1>8, <1>9, <1>10

(* Doubling with the wrap-around never gives more than twice as much. *)
LEMMA WrappedSmall ==
  ASSUME NEW x \in Nat
  PROVE  Wrapped(x) \in Int /\ Wrapped(x) <= x
<1>1. StageValues \in Nat /\ StageValues > 0
  BY HavocAssumption
<1>2. x % StageValues \in Nat /\ x % StageValues <= x
  <2>1. PICK q \in Int, r \in 0 .. StageValues - 1 : x = q * StageValues + r /\ x % StageValues = r
    BY <1>1
  <2>2. q >= 0
    <3>1. CASE q < 0
      <4>1. q + 1 <= 0
        BY <3>1
      <4>2. (q + 1) * StageValues <= 0
        BY <1>1, <4>1
      <4>3. (q + 1) * StageValues = q * StageValues + StageValues
        BY <1>1
      <4> QED BY <1>1, <2>1, <4>2, <4>3
    <3> QED BY <3>1
  <2>3. q * StageValues >= 0
    BY <1>1, <2>2
  <2> QED BY <1>1, <2>1, <2>3
<1> QED BY <1>1, <1>2 DEF Wrapped

\* Every step of the random stages keeps the invariant.
LEMMA HavocStepInv == HavocInv /\ [HavocNext]_havocVars => HavocInv'
<1> SUFFICES ASSUME HavocInv, [HavocNext]_havocVars PROVE HavocInv'
  OBVIOUS
<1>1. handicap \in Nat /\ havoc \in HavocFields /\ (~havoc.lifted => havoc.max * 100 <= havoc.cycles * havoc.perf)
      /\ ScaledHavocCapped
  BY DEF HavocInv
\* A fresh start has its own length as the bound.
<1>2. ASSUME NEW cycles \in Nat, NEW base \in Nat, NEW factor \in Factors, NEW joins \in Nat,
             havoc' = Started(cycles, base, factor, joins), handicap' \in Nat
      PROVE  HavocInv'
  <2>1. /\ havoc' \in HavocFields /\ havoc'.max = havoc'.start
        /\ ~havoc'.lifted => havoc'.max * 100 <= havoc'.cycles * havoc'.perf
    BY <1>2, StartedIs
  <2>2. 2 * HAVOC_MAX_MULT * havoc'.cycles \in Nat
    BY <2>1, HavocAssumption DEF HavocFields
  <2>3. HavocCapped'
    BY <2>1, <2>2 DEF HavocCapped, Larger, MostRuns, HavocFields
  <2> QED BY <1>2, <2>1, <2>3 DEF HavocInv, ScaledHavocCapped
<1>3. ASSUME NEW s \in SpeedScores, NEW m \in SizeMults, NEW d \in Depths, NEW det \in BOOLEAN,
             NEW f \in Factors, EnterHavoc(s, m, d, det, f)
      PROVE  HavocInv'
  <2>1. Score(s, m, handicap, d) \in Nat /\ HandicapLeft(handicap) \in Nat
    BY <1>1, ScoreNat
  <2>2. (IF det THEN HAVOC_CYCLES_INIT ELSE HAVOC_CYCLES) \in Nat
    BY HavocAssumption
  <2> QED BY <1>2, <1>3, <2>1, <2>2 DEF EnterHavoc
<1>4. ASSUME NEW finds \in BOOLEAN, HavocRound(finds) PROVE HavocInv'
  <2> DEFINE more == finds /\ havoc.perf <= HAVOC_MAX_MULT * 100
             max == IF more THEN Wrapped(2 * havoc.max) ELSE havoc.max
             perf == IF more THEN 2 * havoc.perf ELSE havoc.perf
  <2>1. /\ havoc.cur \in Nat /\ havoc.max \in Nat /\ havoc.perf \in Nat /\ havoc.cycles \in Nat
        /\ havoc.start \in Int /\ havoc.lifted \in BOOLEAN
        /\ havoc.cur < havoc.max /\ handicap' = handicap
        /\ havoc' = [havoc EXCEPT !.cur = havoc.cur + 1, !.max = max, !.perf = perf]
    BY <1>1, <1>4 DEF HavocRound, HavocFields
  <2>2. 2 * havoc.max \in Nat /\ HAVOC_MAX_MULT \in Nat
    BY <2>1, HavocAssumption
  <2>3. /\ max \in Int /\ perf \in Nat /\ (more => max <= 2 * havoc.max)
        /\ (more => perf = 2 * havoc.perf) /\ (~more => max = havoc.max /\ perf = havoc.perf)
    BY <2>1, <2>2, WrappedSmall
  <2>4. more \in BOOLEAN /\ (more => havoc.perf <= HAVOC_MAX_MULT * 100)
    OBVIOUS
  <2> HIDE DEF more, max, perf
  <2>5. /\ havoc' \in HavocFields /\ havoc'.max = max /\ havoc'.perf = perf /\ havoc'.start = havoc.start
        /\ havoc'.cycles = havoc.cycles /\ havoc'.lifted = havoc.lifted
    <3>1. havoc.cur + 1 \in Nat
      BY <2>1
    <3>2. havoc' \in HavocFields
      BY <1>1, <2>1, <2>3, <3>1 DEF HavocFields
    <3>3. /\ havoc'.max = max /\ havoc'.perf = perf /\ havoc'.start = havoc.start
          /\ havoc'.cycles = havoc.cycles
      BY <1>1, <2>1 DEF HavocFields
    <3>4. havoc'.lifted = havoc.lifted
      BY <1>1, <2>1 DEF HavocFields
    <3> QED BY <3>2, <3>3, <3>4
  <2>6. ASSUME ~havoc.lifted PROVE max * 100 <= havoc.cycles * perf /\ HavocCapped'
    <3>1. havoc.max * 100 <= havoc.cycles * havoc.perf /\ HavocCapped
      BY <1>1, <2>6 DEF ScaledHavocCapped
    <3>2. CASE ~more
      BY <2>3, <2>5, <3>1, <3>2 DEF HavocCapped, MostRuns
    <3>3. CASE more
      <4>1. havoc.cycles * perf = 2 * (havoc.cycles * havoc.perf)
        BY <2>1, <2>3, <3>3
      <4>2. havoc.cycles * havoc.perf <= havoc.cycles * (HAVOC_MAX_MULT * 100)
        <5>1. HAVOC_MAX_MULT * 100 \in Nat
          BY <2>2
        <5> QED BY <2>1, <2>4, <3>3, <5>1, ProductMonotone
      <4>3. havoc.cycles * (HAVOC_MAX_MULT * 100) = 100 * (HAVOC_MAX_MULT * havoc.cycles)
        BY <2>1, <2>2
      <4>4. /\ havoc.cycles * havoc.perf \in Nat /\ havoc.cycles * perf \in Nat
            /\ HAVOC_MAX_MULT * havoc.cycles \in Nat
        BY <2>1, <2>2, <2>3
      <4>5. max * 100 <= havoc.cycles * perf
        BY <2>1, <2>3, <3>1, <3>3, <4>1, <4>4
      <4>6. havoc.max <= HAVOC_MAX_MULT * havoc.cycles
        BY <2>1, <3>1, <4>2, <4>3, <4>4
      <4>7. 2 * HAVOC_MAX_MULT * havoc.cycles = 2 * (HAVOC_MAX_MULT * havoc.cycles)
        BY <2>1, <2>2
      <4>8. max <= MostRuns /\ MostRuns \in Int
        BY <2>1, <2>3, <3>3, <4>4, <4>6, <4>7 DEF MostRuns
      <4>9. MostRuns' = MostRuns
        BY <2>5 DEF MostRuns
      <4> QED BY <2>1, <2>3, <2>5, <4>5, <4>8, <4>9 DEF HavocCapped, Larger
    <3> QED BY <3>2, <3>3
  <2> QED BY <1>1, <2>1, <2>5, <2>6 DEF HavocInv, ScaledHavocCapped
<1>5. ASSUME UNCHANGED <<havoc, handicap>> PROVE HavocInv'
  BY <1>5 DEF HavocInv, ScaledHavocCapped, HavocCapped, MostRuns
<1>6. CASE HavocAbandon
  BY <1>5, <1>6 DEF HavocAbandon
<1>7. ASSUME NEW f \in Factors, SpliceAgain(f) PROVE HavocInv'
  BY <1>1, <1>2, <1>7, HavocAssumption DEF SpliceAgain, HavocFields
<1>8. CASE SpliceRetry
  <2>1. havoc' = [havoc EXCEPT !.splice = havoc.splice + 1] /\ handicap' = handicap /\ havoc.splice + 1 \in Nat
    BY <1>1, <1>8 DEF SpliceRetry, HavocFields
  <2>2. /\ havoc' \in HavocFields /\ havoc'.max = havoc.max /\ havoc'.perf = havoc.perf
        /\ havoc'.start = havoc.start
        /\ havoc'.cycles = havoc.cycles /\ (havoc'.lifted <=> havoc.lifted)
    BY <1>1, <2>1 DEF HavocFields
  <2> QED BY <1>1, <2>1, <2>2 DEF HavocInv, ScaledHavocCapped, HavocCapped, MostRuns
<1>9. CASE HavocDone
  BY <1>5, <1>9 DEF HavocDone
<1>10. CASE LeaveEntry
  <2>1. havoc' = NoHavoc /\ handicap' = handicap
    BY <1>10 DEF LeaveEntry
  <2>2. /\ havoc' \in HavocFields /\ havoc'.max = 0 /\ havoc'.perf = 0 /\ havoc'.start = 0 /\ havoc'.cycles = 0
    BY <2>1 DEF NoHavoc, HavocFields
  <2> QED BY <1>1, <2>1, <2>2, HavocAssumption DEF HavocInv, ScaledHavocCapped, HavocCapped, MostRuns, Larger
<1>11. CASE UNCHANGED havocVars
  BY <1>5, <1>11 DEF havocVars
<1> QED BY <1>3, <1>4, <1>6, <1>7, <1>8, <1>9, <1>10, <1>11 DEF HavocNext

\* The invariant holds before the first stage.
LEMMA HavocInitInv == HavocInit => HavocInv
<1> SUFFICES ASSUME HavocInit PROVE HavocInv
  OBVIOUS
<1>1. /\ havoc \in HavocFields /\ havoc.max = 0 /\ havoc.perf = 0 /\ havoc.start = 0 /\ havoc.cycles = 0
  BY DEF HavocInit, NoHavoc, HavocFields
<1> QED BY <1>1, HavocAssumption DEF HavocInit, HavocInv, ScaledHavocCapped, HavocCapped, MostRuns, Larger

-----------------------------------------------------------------------------
(***************************************************************************)
(* Havoc, its buffer between two tweaks, and the place of a splice.        *)
(***************************************************************************)
InMemory(x) == x.at \in Int /\ x.n \in Int /\ x.of \in Int /\ x.at >= 0 /\ x.n >= 0 /\ x.at + x.n <= x.of
BufferInv ==
  /\ orig \in StartLens /\ len \in 1 .. MAX_FILE
  /\ temp_len \in 1 .. MAX_FILE /\ cap \in Nat /\ temp_len <= cap

(* The two seeds still differ at an offset after the place of the splice.  *)
DifferBehind(a, b, size, m, p) ==
  /\ a \in Contents(size) /\ b \in Contents(m) /\ p \in Nat
  /\ \E k \in 1 .. m : k <= size /\ p < k /\ a[k] # b[k]
PlaceInv ==
  /\ orig \in StartLens
  /\ \E m \in StartLens : DifferBehind(splice.seed, splice.other, orig, m, splice.at)

OpsInv ==
  /\ \A x \in access : InMemory(x)
  /\ hphase = "tweak" => BufferInv
  /\ hphase = "splice" => PlaceInv

(* The scan of locate_diffs is a function of the offsets: there is one for *)
(* every prefix, the one for the next offset extends it.                   *)
ScanStep(f, a, b, k) == IF k = 0 THEN <<-1, -1>> ELSE DiffSeen(f[k - 1], a, b, k)
IsScan(f, a, b, n) == f = [k \in 0 .. n |-> ScanStep(f, a, b, k)]
\* Comparing one byte more.
LEMMA ScanExtends ==
  ASSUME NEW a, NEW b, NEW n \in Nat, NEW f, IsScan(f, a, b, n)
  PROVE  \E g : IsScan(g, a, b, n + 1)
<1> DEFINE g == [k \in 0 .. n + 1 |-> IF k = n + 1 THEN ScanStep(f, a, b, k) ELSE f[k]]
<1>1. ASSUME NEW k \in 0 .. n + 1 PROVE g[k] = ScanStep(g, a, b, k)
  <2>1. CASE k = n + 1
    <3>1. k - 1 \in 0 .. n + 1 /\ k - 1 # n + 1 /\ k # 0
      BY <2>1
    <3>2. g[k - 1] = f[k - 1]
      BY <3>1
    <3> QED BY <2>1, <3>1, <3>2 DEF ScanStep
  <2>2. CASE k # n + 1
    <3>1. k \in 0 .. n
      BY <2>2
    <3>2. f[k] = ScanStep(f, a, b, k)
      BY <3>1 DEF IsScan
    <3>3. k = 0 \/ (k - 1 \in 0 .. n + 1 /\ k - 1 # n + 1)
      BY <3>1
    <3>4. k = 0 \/ g[k - 1] = f[k - 1]
      BY <3>3
    <3> QED BY <2>2, <3>2, <3>4 DEF ScanStep
  <2> QED BY <2>1, <2>2
<1>2. g = [k \in 0 .. n + 1 |-> g[k]]
  OBVIOUS
<1> HIDE DEF g
<1>3. g = [k \in 0 .. n + 1 |-> ScanStep(g, a, b, k)]
  BY <1>1, <1>2
<1> QED BY <1>3 DEF IsScan

\* Any number of bytes can be compared.
LEMMA ScanExists ==
  ASSUME NEW a, NEW b, NEW n \in Nat
  PROVE  \E f : IsScan(f, a, b, n)
<1> DEFINE None == {j \in Nat : ~\E f : IsScan(f, a, b, j)}
<1>1. SUFFICES None = {}
  OBVIOUS
<1>2. SUFFICES ASSUME None # {} PROVE FALSE
  OBVIOUS
<1>3. PICK j \in None : \A i \in None : j <= i
  <2>1. None \in SUBSET Nat
    OBVIOUS
  <2> HIDE DEF None
  <2> QED BY <1>2, <2>1, LeastMember
<1>4. j # 0
  <2> DEFINE f == [k \in 0 .. 0 |-> <<-1, -1>>]
  <2>1. f = [k \in 0 .. 0 |-> ScanStep(f, a, b, k)]
    BY DEF ScanStep
  <2> HIDE DEF f
  <2>2. IsScan(f, a, b, 0)
    BY <2>1 DEF IsScan
  <2> QED BY <1>3, <2>2
<1>5. j - 1 \in Nat /\ ~(j - 1 \in None) /\ (j - 1) + 1 = j
  <2>1. j - 1 \in Nat /\ ~(j <= j - 1) /\ (j - 1) + 1 = j
    BY <1>3, <1>4
  <2> HIDE DEF None
  <2> QED BY <1>3, <2>1
<1>6. PICK f : IsScan(f, a, b, j - 1)
  BY <1>5
<1> QED BY <1>3, <1>5, <1>6, ScanExtends

\* What the recursion of DiffScan computes is such a comparison.
LEMMA ScanUnrolled ==
  ASSUME NEW a, NEW b, NEW n \in Nat
  PROVE  IsScan(DiffScan(a, b, n), a, b, n)
<1>1. PICK f : IsScan(f, a, b, n)
  BY ScanExists
<1>2. DiffScan(a, b, n) = CHOOSE g : g = [k \in 0 .. n |-> IF k = 0 THEN <<-1, -1>> ELSE DiffSeen(g[k - 1], a, b, k)]
  BY DEF DiffScan
<1> QED BY <1>1, <1>2 DEF IsScan, ScanStep

(* What locate_diffs finds: nothing, or two offsets in order, the last of  *)
(* which is one where the contents differ.                                 *)
Located(fl, a, b, n) ==
  \/ fl = <<-1, -1>>
  \/ /\ fl[1] \in Nat /\ fl[2] \in Nat /\ fl[1] <= fl[2] /\ fl[2] < n
     /\ a[fl[2] + 1] # b[fl[2] + 1]
\* One byte more, equal or different.
LEMMA SeenLocated ==
  ASSUME NEW a, NEW b, NEW k \in Nat, NEW fl, Located(fl, a, b, k)
  PROVE  Located(DiffSeen(fl, a, b, k + 1), a, b, k + 1)
<1>1. CASE a[k + 1] = b[k + 1]
  BY <1>1 DEF Located, DiffSeen
<1>2. CASE a[k + 1] # b[k + 1]
  <2> DEFINE from == IF fl[1] = -1 THEN k ELSE fl[1]
  <2>1. DiffSeen(fl, a, b, k + 1) = <<from, k>>
    BY <1>2 DEF DiffSeen
  <2>2. from \in Nat /\ from <= k
    BY DEF Located
  <2> HIDE DEF from
  <2> QED BY <1>2, <2>1, <2>2 DEF Located
<1> QED BY <1>1, <1>2

(* locate_diffs, for buffers of any length and content: the first and the  *)
(* last byte that differ, or none if all are equal                         *)
(* (src/afl-fuzz.c:676-698).                                               *)
THEOREM LocateDiffsFinds ==
  ASSUME NEW a, NEW b, NEW n \in Nat
  PROVE  Located(locate_diffs(a, b, n), a, b, n)
<1> DEFINE f == DiffScan(a, b, n)
           Wrong == {j \in 0 .. n : ~Located(f[j], a, b, j)}
<1>1. f = [k \in 0 .. n |-> ScanStep(f, a, b, k)]
  BY ScanUnrolled DEF IsScan
<1> HIDE DEF f
<1>2. SUFFICES Wrong = {}
  BY DEF locate_diffs, f
<1>3. SUFFICES ASSUME Wrong # {} PROVE FALSE
  OBVIOUS
<1>4. PICK j \in Wrong : \A i \in Wrong : j <= i
  <2>1. Wrong \in SUBSET Nat
    OBVIOUS
  <2> HIDE DEF Wrong
  <2> QED BY <1>3, <2>1, LeastMember
<1>5. f[j] = ScanStep(f, a, b, j)
  BY <1>1
<1>6. j # 0
  BY <1>4, <1>5 DEF ScanStep, Located
<1>7. PICK i \in Nat : i + 1 = j /\ i = j - 1 /\ i \in 0 .. n /\ Located(f[i], a, b, i)
  <2>1. j - 1 \in 0 .. n /\ ~(j <= j - 1)
    BY <1>4, <1>6
  <2>2. ~(j - 1 \in Wrong)
    <3> HIDE DEF Wrong
    <3> QED BY <1>4, <2>1
  <2> QED BY <2>1, <2>2
<1>8. f[j] = DiffSeen(f[i], a, b, i + 1)
  BY <1>5, <1>6, <1>7 DEF ScanStep
<1> QED BY <1>4, <1>7, <1>8, SeenLocated

\* choose_block_len stays within its limit.
LEMMA BlockLenFits ==
  ASSUME NEW limit \in Nat \ {0}, NEW n \in BlockLens(limit)
  PROVE  n \in 1 .. limit /\ n <= XL
<1>1. /\ \A k \in 1 .. 4 : Blocks[k] \in Nat \ {0}
      /\ Blocks[1] <= Blocks[2] /\ Blocks[2] <= Blocks[3] /\ Blocks[3] <= Blocks[4]
  BY HavocOpsAssumption
<1>2. /\ Blocks[1] \in Nat \ {0} /\ Blocks[2] \in Nat \ {0} /\ Blocks[3] \in Nat \ {0} /\ Blocks[4] \in Nat \ {0}
  BY <1>1
<1>3. PICK k \in 1 .. 4 : n \in LensOfClass(k, limit)
  BY DEF BlockLens
<1>4. k = 1 \/ k = 2 \/ k = 3 \/ k = 4
  OBVIOUS
<1>5. Blocks[k] \in Nat \ {0} /\ Blocks[k] <= XL /\ XL \in Nat /\ (k # 1 => Blocks[k - 1] \in Nat \ {0})
  BY <1>1, <1>2, <1>4 DEF XL
<1>6. PICK lo \in Nat \ {0}, top \in Nat \ {0} : n \in lo .. top /\ top <= limit /\ top <= Blocks[k]
  BY <1>3, <1>5 DEF Smallest, LensOfClass
<1> QED BY <1>5, <1>6

(* Every buffer that tweaks make or use. *)
LEMMA OpsFacts ==
  /\ MAX_FILE \in Nat /\ XL \in Nat /\ XL > 0
  /\ \A l \in StartLens : l \in 1 .. MAX_FILE
  /\ \A n \in UserTokens \cup AutoTokens : n \in Nat
<1>1. Blocks[4] \in Nat \ {0}
  BY HavocOpsAssumption
<1> QED BY <1>1, HavocOpsAssumption DEF XL

\* What is accessed is inside the buffer.
LEMMA BufferBounds ==
  ASSUME BufferInv
  PROVE  /\ temp_len \in Nat /\ temp_len > 0 /\ temp_len <= MAX_FILE /\ temp_len <= cap /\ cap \in Nat
         /\ len \in Nat /\ len > 0 /\ len <= MAX_FILE
BY OpsFacts DEF BufferInv

\* A tweak that overwrites.
LEMMA InPlaceInv ==
  ASSUME OpsInv, Tweaking, NEW at \in Nat, NEW n \in Nat, at + n <= temp_len, InPlace(at, n)
  PROVE  OpsInv'
<1>1. BufferInv /\ hphase = "tweak"
  BY DEF OpsInv, Tweaking
<1>2. BufferInv' /\ hphase' = "tweak"
  BY <1>1 DEF InPlace, BufferInv
<1>3. InMemory(Touch(at, n))
  BY <1>1, BufferBounds DEF InMemory, Touch
<1>4. \A x \in access' : InMemory(x)
  BY <1>3 DEF InPlace
<1> QED BY <1>2, <1>4 DEF OpsInv, InMemory

\* A tweak that makes the buffer longer.
LEMMA InsertInv ==
  ASSUME OpsInv, Tweaking, NEW at \in Nat, NEW n \in Nat, at <= temp_len, temp_len + n <= MAX_FILE,
         NEW source, \A x \in source : InMemory(x), Insert(at, n, source)
  PROVE  OpsInv'
<1>1. BufferInv /\ hphase = "tweak"
  BY DEF OpsInv, Tweaking
<1>2. BufferInv' /\ hphase' = "tweak"
  BY <1>1, BufferBounds, OpsFacts DEF Insert, BufferInv
<1> DEFINE head == [at |-> 0, n |-> at, of |-> cap]
           moved == [at |-> at, n |-> temp_len - at, of |-> cap]
           tail == [at |-> at + n, n |-> temp_len - at, of |-> temp_len + n]
<1>3. InMemory(head) /\ InMemory(moved) /\ InMemory(tail)
  BY <1>1, BufferBounds DEF InMemory
<1>4. access' = source \cup {head, moved, tail}
  BY DEF Insert
<1> HIDE DEF head, moved, tail
<1>5. \A x \in access' : InMemory(x)
  BY <1>3, <1>4
<1> QED BY <1>2, <1>5 DEF OpsInv, InMemory

\* A splice, at a place between the first and the last difference.
LEMMA SplicePlace ==
  ASSUME OpsInv, Splice
  PROVE  OpsInv'
<1>1. BufferInv /\ hphase = "tweak" /\ orig \in StartLens /\ orig \in Nat
  BY OpsFacts DEF OpsInv, Splice, Tweaking, BufferInv
<1>2a. PICK m \in StartLens \ {1} : \E a \in Contents(orig), b \in Contents(m) :
        LET fl == locate_diffs(a, b, Smallest(orig, m))
        IN /\ ~(fl[1] < 0 \/ fl[2] < 2 \/ fl[1] = fl[2])
           /\ \E at \in fl[1] .. fl[2] - 1 :
                splice' = [seed |-> a, other |-> b, first |-> fl[1], last |-> fl[2], at |-> at]
  BY DEF Splice
<1>2. PICK a \in Contents(orig), b \in Contents(m) :
        LET fl == locate_diffs(a, b, Smallest(orig, m))
        IN /\ ~(fl[1] < 0 \/ fl[2] < 2 \/ fl[1] = fl[2])
           /\ \E at \in fl[1] .. fl[2] - 1 :
                splice' = [seed |-> a, other |-> b, first |-> fl[1], last |-> fl[2], at |-> at]
  BY <1>2a
<1> DEFINE least == Smallest(orig, m)
           fl == locate_diffs(a, b, least)
<1>3. least \in Nat /\ least <= orig /\ least <= m /\ m \in Nat /\ m \in StartLens
  BY <1>1, OpsFacts DEF Smallest
<1>4. Located(fl, a, b, least)
  <2> HIDE DEF least
  <2> QED BY <1>3, LocateDiffsFinds
<1>5. ~(fl[1] < 0 \/ fl[2] < 2 \/ fl[1] = fl[2])
  BY <1>2
<1>6. PICK at \in fl[1] .. fl[2] - 1 :
        splice' = [seed |-> a, other |-> b, first |-> fl[1], last |-> fl[2], at |-> at]
  BY <1>2
<1> HIDE DEF fl, least
<1>7. /\ fl[1] \in Nat /\ fl[2] \in Nat /\ fl[2] < least /\ a[fl[2] + 1] # b[fl[2] + 1]
  <2>1. fl # <<-1, -1>>
    <3>1. ASSUME fl = <<-1, -1>> PROVE fl[1] < 0
      BY <3>1
    <3> QED BY <1>5, <3>1
  <2> QED BY <1>4, <2>1 DEF Located
<1>8. at \in Nat /\ fl[2] + 1 \in 1 .. m /\ fl[2] + 1 <= orig /\ at < fl[2] + 1
  BY <1>1, <1>3, <1>6, <1>7
<1>9. DifferBehind(a, b, orig, m, at)
  BY <1>2, <1>7, <1>8 DEF DifferBehind
<1>10. splice'.seed = a /\ splice'.other = b /\ splice'.at = at /\ orig' = orig /\ access' = access
       /\ hphase' = "splice"
  BY <1>6 DEF Splice
<1>11. PlaceInv'
  BY <1>1, <1>3, <1>9, <1>10 DEF PlaceInv
<1> QED BY <1>10, <1>11 DEF OpsInv, InMemory

\* Every tweak keeps the invariant.
LEMMA OpsStepInv == OpsInv /\ [OpsNext]_opsVars => OpsInv'
<1> SUFFICES ASSUME OpsInv, [OpsNext]_opsVars PROVE OpsInv'
  OBVIOUS
<1>1. ASSUME NEW l \in StartLens, LoadSeed(l) PROVE OpsInv'
  <2>1. l \in Nat /\ l \in 1 .. MAX_FILE
    BY OpsFacts
  <2> QED BY <1>1, <2>1 DEF LoadSeed, OpsInv, BufferInv, InMemory
<1>2. ASSUME NEW w \in {1, 2, 4}, TweakWidth(w) PROVE OpsInv'
  <2>1. BufferInv /\ Tweaking /\ temp_len >= w
    BY <1>2 DEF TweakWidth, OpsInv, Tweaking
  <2>2. PICK at \in 0 .. temp_len - w : InPlace(at, w)
    BY <1>2 DEF TweakWidth
  <2>3. w \in Nat /\ at \in Nat /\ at + w <= temp_len
    BY <2>1, BufferBounds
  <2> QED BY <2>1, <2>2, <2>3, InPlaceInv
<1>3. CASE FlipOrSetInteresting \/ AddSubtractOrRandom
  BY <1>2, <1>3 DEF FlipOrSetInteresting, AddSubtractOrRandom
<1>4. CASE DeleteBlock
  <2>1. BufferInv /\ hphase = "tweak" /\ temp_len >= 2
    BY <1>4 DEF DeleteBlock, OpsInv, Tweaking
  <2>2a. PICK n \in BlockLens(temp_len - 1) : \E from \in 0 .. temp_len - n :
          access' = {Touch(from, temp_len - from - n), Touch(from + n, temp_len - from - n)}
          /\ temp_len' = temp_len - n
    BY <1>4 DEF DeleteBlock
  <2>2. PICK from \in 0 .. temp_len - n :
          access' = {Touch(from, temp_len - from - n), Touch(from + n, temp_len - from - n)}
          /\ temp_len' = temp_len - n
    BY <2>2a
  <2>3. n \in 1 .. temp_len - 1 /\ temp_len - 1 \in Nat
    <3>1. temp_len - 1 \in Nat \ {0}
      BY <2>1, BufferBounds
    <3> QED BY <3>1, BlockLenFits
  <2>4. InMemory(Touch(from, temp_len - from - n)) /\ InMemory(Touch(from + n, temp_len - from - n))
    BY <2>1, <2>2, <2>3, BufferBounds DEF InMemory, Touch
  <2>5. BufferInv' /\ hphase' = "tweak"
    <3>1. orig' = orig /\ len' = len /\ cap' = cap /\ hphase' = hphase /\ temp_len' = temp_len - n
      BY <1>4, <2>2 DEF DeleteBlock
    <3>2. temp_len - n \in Nat /\ temp_len - n > 0 /\ temp_len - n <= temp_len
      BY <2>1, <2>3, BufferBounds
    <3>3. temp_len - n \in 1 .. MAX_FILE /\ temp_len - n <= cap
      BY <2>1, <3>2, BufferBounds, OpsFacts
    <3> QED BY <2>1, <3>1, <3>3 DEF BufferInv
  <2>6. \A x \in access' : InMemory(x)
    BY <2>2, <2>4
  <2> QED BY <2>5, <2>6 DEF OpsInv, InMemory
<1>5. CASE CloneBlock
  <2>1. BufferInv /\ Tweaking /\ temp_len + XL < MAX_FILE
    BY <1>5 DEF CloneBlock, OpsInv, Tweaking
  <2>2. PICK at \in 0 .. temp_len - 1 :
          \/ \E n \in BlockLens(temp_len) : \E from \in 0 .. temp_len - n : Insert(at, n, {Touch(from, n)})
          \/ \E n \in BlockLens(XL) : Insert(at, n, {})
    BY <1>5 DEF CloneBlock
  <2>3. at \in Nat /\ at <= temp_len /\ temp_len \in Nat \ {0} /\ XL \in Nat \ {0}
    BY <2>1, BufferBounds, OpsFacts
  <2>4. ASSUME NEW n \in BlockLens(temp_len), NEW from \in 0 .. temp_len - n, Insert(at, n, {Touch(from, n)})
        PROVE  OpsInv'
    <3>1. n \in 1 .. temp_len /\ n <= XL
      BY <2>3, BlockLenFits
    <3>2. n \in Nat /\ temp_len + n <= MAX_FILE
      BY <2>1, <2>3, <3>1, OpsFacts
    <3>3. InMemory(Touch(from, n))
      BY <2>1, <3>1, BufferBounds DEF InMemory, Touch
    <3> QED BY <2>1, <2>3, <2>4, <3>2, <3>3, InsertInv
  <2>5. ASSUME NEW n \in BlockLens(XL), Insert(at, n, {}) PROVE OpsInv'
    <3>1. n \in 1 .. XL
      BY <2>3, BlockLenFits
    <3>2. n \in Nat /\ temp_len + n <= MAX_FILE
      BY <2>1, <2>3, <3>1, OpsFacts
    <3> QED BY <2>1, <2>3, <2>5, <3>2, InsertInv
  <2> QED BY <2>2, <2>4, <2>5
<1>6. CASE OverwriteBlock
  <2>1. BufferInv /\ hphase = "tweak" /\ temp_len >= 2
    BY <1>6 DEF OverwriteBlock, OpsInv, Tweaking
  <2>2. PICK n \in BlockLens(temp_len - 1) : \E from, to \in 0 .. temp_len - n :
          access' = {Touch(from, n), Touch(to, n)}
    BY <1>6 DEF OverwriteBlock
  <2>3. n \in 1 .. temp_len - 1 /\ temp_len - 1 \in Nat
    <3>1. temp_len - 1 \in Nat \ {0}
      BY <2>1, BufferBounds
    <3> QED BY <3>1, BlockLenFits
  <2>4. ASSUME NEW from \in 0 .. temp_len - n PROVE InMemory(Touch(from, n))
    BY <2>1, <2>3, BufferBounds DEF InMemory, Touch
  <2>5. BufferInv' /\ hphase' = "tweak"
    BY <1>6, <2>1 DEF OverwriteBlock, BufferInv
  <2>6. \A x \in access' : InMemory(x)
    BY <2>2, <2>4
  <2> QED BY <2>5, <2>6 DEF OpsInv, InMemory
<1>7. CASE OverwriteToken
  <2>1. BufferInv /\ Tweaking
    BY <1>7 DEF OverwriteToken, OpsInv, Tweaking
  <2>2. PICK n \in UserTokens \cup AutoTokens : n <= temp_len /\ \E at \in 0 .. temp_len - n : InPlace(at, n)
    BY <1>7 DEF OverwriteToken
  <2>3. PICK at \in 0 .. temp_len - n : InPlace(at, n)
    BY <2>2
  <2>4. n \in Nat
    BY OpsFacts
  <2>5. at \in Nat /\ at + n <= temp_len
    BY <2>1, <2>4, BufferBounds
  <2> QED BY <2>1, <2>3, <2>4, <2>5, InPlaceInv
<1>8. CASE InsertToken
  <2>1. BufferInv /\ Tweaking
    BY <1>8 DEF InsertToken, OpsInv, Tweaking
  <2>2. PICK n \in UserTokens \cup AutoTokens :
          temp_len + n < MAX_FILE /\ \E at \in 0 .. temp_len : Insert(at, n, {})
    BY <1>8 DEF InsertToken
  <2>3. PICK at \in 0 .. temp_len : Insert(at, n, {})
    BY <2>2
  <2>4. n \in Nat
    BY OpsFacts
  <2>5. at \in Nat /\ at <= temp_len /\ temp_len + n <= MAX_FILE
    BY <2>1, <2>2, <2>4, BufferBounds, OpsFacts
  <2> QED BY <2>1, <2>3, <2>4, <2>5, InsertInv
<1>9. CASE RunAndRestore
  <2>1. BufferInv /\ hphase = "tweak"
    BY <1>9 DEF RunAndRestore, OpsInv, Tweaking
  <2>2. BufferInv' /\ hphase' = "tweak"
    BY <1>9, <2>1, BufferBounds DEF RunAndRestore, BufferInv
  <2>3. InMemory([at |-> 0, n |-> len, of |-> cap'])
    BY <1>9, <2>1, BufferBounds DEF RunAndRestore, InMemory
  <2>4. \A x \in access' : InMemory(x)
    BY <1>9, <2>3 DEF RunAndRestore
  <2> QED BY <2>2, <2>4 DEF OpsInv, InMemory
<1>10. CASE Splice
  BY <1>10, SplicePlace
<1>11. CASE HavocJoined
  <2>1. PICK m \in StartLens : DifferBehind(splice.seed, splice.other, orig, m, splice.at) /\ orig \in StartLens
    BY <1>11 DEF HavocJoined, OpsInv, PlaceInv
  <2>2. m \in Nat /\ m \in 1 .. MAX_FILE
    BY OpsFacts
  <2>3. Len(splice.other) = m
    BY <2>1, <2>2 DEF DifferBehind, Contents
  <2>4. BufferInv' /\ hphase' = "tweak"
    BY <1>11, <2>1, <2>2, <2>3 DEF HavocJoined, BufferInv
  <2>5. InMemory([at |-> 0, n |-> splice.at, of |-> Len(splice.other)])
    BY <2>1, <2>2, <2>3 DEF DifferBehind, InMemory
  <2>6. \A x \in access' : InMemory(x)
    BY <1>11, <2>5 DEF HavocJoined
  <2> QED BY <2>4, <2>6 DEF OpsInv, InMemory
<1>12. CASE LeaveSeed
  BY <1>12 DEF LeaveSeed, OpsInv
<1>13. CASE UNCHANGED opsVars
  BY <1>13 DEF opsVars, OpsInv, BufferInv, PlaceInv, InMemory
<1> QED BY <1>1, <1>3, <1>4, <1>5, <1>6, <1>7, <1>8, <1>9, <1>10, <1>11, <1>12, <1>13 DEF OpsNext

\* The invariant is strong enough.
LEMMA OpsInvEnough == OpsInv => AccessInBounds /\ SpliceIsNew
<1> SUFFICES ASSUME OpsInv PROVE AccessInBounds /\ SpliceIsNew
  OBVIOUS
<1>1. AccessInBounds
  BY BufferBounds DEF OpsInv, AccessInBounds, InMemory
<1>2. ASSUME hphase = "splice" PROVE Joined(splice) # splice.seed
  <2>1. PICK m \in StartLens : DifferBehind(splice.seed, splice.other, orig, m, splice.at)
    BY <1>2 DEF OpsInv, PlaceInv
  <2>2. PICK k \in 1 .. m : splice.at < k /\ splice.seed[k] # splice.other[k] /\ splice.at \in Nat
    BY <2>1 DEF DifferBehind
  <2>3. m \in Nat /\ Len(splice.other) = m
    BY <2>1, OpsFacts DEF DifferBehind, Contents
  <2>4. Joined(splice)[k] = splice.other[k]
    BY <2>2, <2>3 DEF Joined
  <2> QED BY <2>2, <2>4
<1> QED BY <1>1, <1>2 DEF SpliceIsNew

-----------------------------------------------------------------------------
(* However the score is chosen and the stage prolonged, and however tweaks *)
(* are stacked, the stage does not outgrow what the score allows, accesses *)
(* stay in their buffers, and a splice differs from the seed               *)
(* (src/afl-fuzz.c:5131-5195, 6527-7113).                                  *)
THEOREM HavocRightHolds == HavocSpec /\ OpsSpec => []HavocRight
<1>1. HavocSpec => []HavocInv
  BY HavocInitInv, HavocStepInv, PTL DEF HavocSpec
<1>2. OpsInit => OpsInv
  BY DEF OpsInit, OpsInv
<1>3. OpsSpec => []OpsInv
  BY <1>2, OpsStepInv, PTL DEF OpsSpec
<1>4. HavocInv /\ OpsInv => HavocRight
  BY OpsInvEnough DEF HavocInv, HavocRight
<1> QED BY <1>1, <1>3, <1>4, PTL

-----------------------------------------------------------------------------
(***************************************************************************)
(* Skipped values.  One or two bytes, and their differences.               *)
(***************************************************************************)
Bytes == 0..255
Pieces == {<<b>> : b \in Bytes} \cup {<<p[1], p[2]>> : p \in Bytes \X Bytes}

\* What the limits of the stages are.
LEMMA Limits ==
  /\ ARITH_LIMIT \in Nat /\ ARITH_LIMIT <= 255
  /\ \A j \in Steps : j \in Nat /\ j > 0 /\ j <= ARITH_LIMIT /\ j <= 255
  /\ INTERESTING_8 \subseteq Bytes /\ INTERESTING_16 \subseteq 0 .. WordSize - 1
<1>1. ARITH_LIMIT \in Nat /\ ARITH_LIMIT <= 255
  BY ByteOpsAssumption
<1>2. \A j \in Steps : j \in Nat /\ j > 0 /\ j <= ARITH_LIMIT /\ j <= 255
  BY <1>1 DEF Steps
<1>3. INTERESTING_8 \subseteq Bytes /\ INTERESTING_16 \subseteq 0 .. WordSize - 1
  <2>1. INTERESTING_8 \subseteq 0..255
    BY ByteOpsAssumption
  <2>2. INTERESTING_16 \subseteq 0 .. WordSize - 1
    BY ByteOpsAssumption
  <2> QED BY <2>1, <2>2 DEF Bytes
<1> HIDE DEF Bytes
<1> QED BY <1>1, <1>2, <1>3

\* A piece is a sequence of one or two bytes.
LEMMA PieceIs ==
  ASSUME NEW w \in Pieces
  PROVE  /\ Len(w) \in {1, 2} /\ DOMAIN w = 1 .. Len(w) /\ w \in Seq(Bytes)
         /\ \A i \in 1 .. Len(w) : w[i] \in Bytes
         /\ Len(w) = 1 => w = <<w[1]>>
         /\ Len(w) = 2 => w = <<w[1], w[2]>>
<1>1. CASE w \in {<<b>> : b \in Bytes}
  <2>1. PICK b \in Bytes : w = <<b>>
    BY <1>1
  <2>2. Len(w) = 1 /\ w[1] = b /\ \A i \in 1..1 : i = 1
    BY <2>1
  <2> QED BY <2>1, <2>2
<1>2. CASE w \in {<<p[1], p[2]>> : p \in Bytes \X Bytes}
  <2>1. PICK p \in Bytes \X Bytes : w = <<p[1], p[2]>>
    BY <1>2
  <2>2. Len(w) = 2 /\ w[1] = p[1] /\ w[2] = p[2] /\ (\A i \in 1..2 : i = 1 \/ i = 2)
        /\ p[1] \in Bytes /\ p[2] \in Bytes
    BY <2>1
  <2> QED BY <2>1, <2>2
<1> QED BY <1>1, <1>2 DEF Pieces

\* A piece with one byte replaced.
LEMMA PieceWith ==
  ASSUME NEW w \in Pieces, NEW i \in 1 .. Len(w), NEW x \in Bytes
  PROVE  /\ [w EXCEPT ![i] = x] \in Pieces /\ Len([w EXCEPT ![i] = x]) = Len(w)
         /\ [w EXCEPT ![i] = x][i] = x
         /\ \A k \in 1 .. Len(w) : k # i => [w EXCEPT ![i] = x][k] = w[k]
<1> DEFINE v == [w EXCEPT ![i] = x]
<1>1. v \in Seq(Bytes) /\ Len(v) = Len(w) /\ DOMAIN v = 1 .. Len(w) /\ v[i] = x
      /\ \A k \in 1 .. Len(w) : k # i => v[k] = w[k]
  BY PieceIs
<1> HIDE DEF v
<1>2. v \in Pieces
  <2>0. \A k \in 1 .. Len(w) : v[k] \in Bytes
    BY <1>1
  <2>1. CASE Len(w) = 1
    <3>1. v = <<v[1]>> /\ v[1] \in Bytes
      BY <1>1, <2>0, <2>1
    <3> QED BY <3>1 DEF Pieces
  <2>2. CASE Len(w) = 2
    <3>1. v = <<v[1], v[2]>> /\ <<v[1], v[2]>> \in Bytes \X Bytes
      BY <1>1, <2>0, <2>2
    <3> DEFINE p == <<v[1], v[2]>>
    <3>2. p \in Bytes \X Bytes /\ v = <<p[1], p[2]>>
      BY <3>1
    <3> HIDE DEF p
    <3> QED BY <3>2 DEF Pieces
  <2> QED BY <2>1, <2>2, PieceIs
<1> QED BY <1>1, <1>2 DEF v

\* A byte is the sum of its bits.
LEMMA BitsDecide ==
  ASSUME NEW a \in Bytes, NEW b \in Bytes, BitSet(a) = BitSet(b)
  PROVE  a = b
<1> DEFINE Bit(x, m) == (x \div m) % 2
<1>1. ASSUME NEW x \in Bytes
      PROVE  x = Bit(x, 1) + 2 * Bit(x, 2) + 4 * Bit(x, 4) + 8 * Bit(x, 8) + 16 * Bit(x, 16)
                 + 32 * Bit(x, 32) + 64 * Bit(x, 64) + 128 * Bit(x, 128)
  BY DEF Bytes
<1>2. ASSUME NEW k \in 0..7 PROVE Bit(a, Weight[k + 1]) = Bit(b, Weight[k + 1])
  <2>1. k \in BitSet(a) <=> Bit(a, Weight[k + 1]) = 1
    BY DEF BitSet
  <2>2. k \in BitSet(b) <=> Bit(b, Weight[k + 1]) = 1
    BY DEF BitSet
  <2>3. Weight[k + 1] \in Nat \ {0}
    <3>1. k + 1 \in 1..8
      OBVIOUS
    <3> QED BY <3>1 DEF Weight
  <2>4. Bit(a, Weight[k + 1]) \in {0, 1} /\ Bit(b, Weight[k + 1]) \in {0, 1}
    <3> DEFINE m == Weight[k + 1]
    <3>1. m \in Nat \ {0}
      BY <2>3
    <3> HIDE DEF m
    <3>2. a \div m \in Int /\ b \div m \in Int
      BY <3>1 DEF Bytes
    <3>3. \A y \in Int : y % 2 \in {0, 1}
      OBVIOUS
    <3> QED BY <3>2, <3>3 DEF m
  <2> HIDE DEF Bit
  <2> QED BY <2>1, <2>2, <2>4
<1> HIDE DEF Bit
<1>3. /\ Bit(a, 1) = Bit(b, 1) /\ Bit(a, 2) = Bit(b, 2) /\ Bit(a, 4) = Bit(b, 4) /\ Bit(a, 8) = Bit(b, 8)
      /\ Bit(a, 16) = Bit(b, 16) /\ Bit(a, 32) = Bit(b, 32) /\ Bit(a, 64) = Bit(b, 64)
      /\ Bit(a, 128) = Bit(b, 128)
  <2>1. /\ Weight[0 + 1] = 1 /\ Weight[1 + 1] = 2 /\ Weight[2 + 1] = 4 /\ Weight[3 + 1] = 8
        /\ Weight[4 + 1] = 16 /\ Weight[5 + 1] = 32 /\ Weight[6 + 1] = 64 /\ Weight[7 + 1] = 128
    BY DEF Weight
  <2>2. \A k \in 0..7 : Bit(a, Weight[k + 1]) = Bit(b, Weight[k + 1])
    BY <1>2
  <2>3. /\ Bit(a, Weight[0 + 1]) = Bit(b, Weight[0 + 1]) /\ Bit(a, Weight[1 + 1]) = Bit(b, Weight[1 + 1])
        /\ Bit(a, Weight[2 + 1]) = Bit(b, Weight[2 + 1]) /\ Bit(a, Weight[3 + 1]) = Bit(b, Weight[3 + 1])
        /\ Bit(a, Weight[4 + 1]) = Bit(b, Weight[4 + 1]) /\ Bit(a, Weight[5 + 1]) = Bit(b, Weight[5 + 1])
        /\ Bit(a, Weight[6 + 1]) = Bit(b, Weight[6 + 1]) /\ Bit(a, Weight[7 + 1]) = Bit(b, Weight[7 + 1])
    BY <2>2
  <2> QED BY <2>1, <2>3
<1> QED BY <1>1, <1>3

\* The bits of a difference are those of the piece, and no difference means
\* the same bytes.
LEMMA XorIs ==
  ASSUME NEW w \in Pieces, NEW v \in Pieces, Len(v) = Len(w)
  PROVE  /\ XorByte(w, v) \subseteq 0 .. 8 * Len(w) - 1
         /\ XorByte(w, v) = {} => v = w
<1> DEFINE At(i) == (BitSet(w[i]) \ BitSet(v[i])) \cup (BitSet(v[i]) \ BitSet(w[i]))
           Moved(i) == {8 * (i - 1) + k : k \in At(i)}
<1>1. XorByte(w, v) = UNION {Moved(i) : i \in 1 .. Len(w)}
  BY DEF XorByte
<1>2. ASSUME NEW i \in 1 .. Len(w) PROVE At(i) \subseteq 0..7
  BY DEF BitSet
<1> HIDE DEF At
<1>3. ASSUME NEW i \in 1 .. Len(w) PROVE Moved(i) \subseteq 0 .. 8 * Len(w) - 1
  <2>1. ASSUME NEW k \in 0..7 PROVE 8 * (i - 1) + k \in 0 .. 8 * Len(w) - 1
    <3>1. Len(w) \in {1, 2}
      BY PieceIs
    <3> QED BY <3>1
  <2> QED BY <1>2, <2>1
<1>4. ASSUME XorByte(w, v) = {} PROVE v = w
  <2>1. ASSUME NEW i \in 1 .. Len(w) PROVE v[i] = w[i]
    <3>1. At(i) = {}
      <4>1. Moved(i) = {}
        <5> HIDE DEF Moved
        <5>1. Moved(i) \subseteq UNION {Moved(k) : k \in 1 .. Len(w)}
          OBVIOUS
        <5> QED BY <1>1, <1>4, <5>1
      <4> QED BY <4>1
    <3>2. BitSet(w[i]) = BitSet(v[i])
      BY <3>1 DEF At
    <3>3. w[i] \in Bytes /\ v[i] \in Bytes
      BY PieceIs
    <3> QED BY <3>2, <3>3, BitsDecide
  <2>2. CASE Len(w) = 1
    BY <2>1, <2>2, PieceIs
  <2>3. CASE Len(w) = 2
    BY <2>1, <2>3, PieceIs
  <2> QED BY <2>2, <2>3, PieceIs
<1> HIDE DEF Moved
<1> QED BY <1>1, <1>3, <1>4

-----------------------------------------------------------------------------
(***************************************************************************)
(* Flips.                                                                  *)
(***************************************************************************)
LEMMA FileBitIs ==
  ASSUME NEW f \in 0..15
  PROVE  FileBit(f) = IF f <= 7 THEN 7 - f ELSE 23 - f
BY DEF FileBit

\* A run of bits inside one byte is walked over.
LEMMA RunIsWalked ==
  ASSUME NEW sh \in Nat, NEW m \in {0, 1, 3}, sh + m <= 7 \/ sh >= 8, sh + m <= 15
  PROVE  LET a == IF sh >= 8 THEN 23 - sh - m ELSE 7 - sh - m
         IN  a \in 0..15 /\ a + m <= 15 /\ (sh <= 7 => a + m <= 7) /\ Walk(a, m + 1) = sh .. sh + m
<1> DEFINE a == IF sh >= 8 THEN 23 - sh - m ELSE 7 - sh - m
           top == IF sh >= 8 THEN 23 ELSE 7
<1>1. /\ a \in 0..15 /\ a + m <= 15 /\ (sh <= 7 => a + m <= 7) /\ (sh >= 8 => a >= 8)
      /\ a = top - sh - m /\ top \in Nat
  OBVIOUS
<1>2. \A f \in a .. a + m : FileBit(f) = top - f /\ f \in 0..15
  <2>1. ASSUME NEW f \in a .. a + m PROVE FileBit(f) = top - f /\ f \in 0..15
    <3>1. f \in 0..15 /\ (sh >= 8 <=> f > 7)
      BY <1>1
    <3> QED BY <3>1, FileBitIs
  <2> QED BY <2>1
<1> HIDE DEF a, top
<1>3. a + (m + 1) - 1 = a + m
  BY <1>1
<1>4. Walk(a, m + 1) = {FileBit(f) : f \in a .. a + m}
  BY <1>3 DEF Walk
<1>5. ASSUME NEW f \in a .. a + m PROVE FileBit(f) \in sh .. sh + m
  BY <1>1, <1>2
<1>6. ASSUME NEW b \in sh .. sh + m PROVE \E f \in a .. a + m : FileBit(f) = b
  <2>1. top - b \in a .. a + m /\ top - (top - b) = b
    BY <1>1
  <2> QED BY <1>2, <2>1
<1>7. Walk(a, m + 1) = sh .. sh + m
  BY <1>4, <1>5, <1>6
<1> QED BY <1>1, <1>7 DEF a

\* What the test takes for a flip is one, unless it lies over the border.
LEMMA FlipIsWalked ==
  ASSUME NEW w \in Pieces, NEW d \in SUBSET (0 .. 8 * Len(w) - 1),
         could_be_bitflip(d), d # {}, ~Straddles(d)
  PROVE  d \in Flips(w)
<1>1. PICK sh \in d :
        /\ \A b \in d : sh <= b
        /\ \/ {b - sh : b \in d} \in {0..0, 0..1, 0..3}
           \/ sh % 8 = 0 /\ {b - sh : b \in d} \in {0..7, 0..15, 0..31}
  BY DEF could_be_bitflip
<1>2. Len(w) \in {1, 2} /\ d \subseteq 0..15 /\ sh \in 0..15
  <2>1. Len(w) \in {1, 2}
    BY PieceIs
  <2>2. 0 .. 8 * Len(w) - 1 \subseteq 0..15
    <3>1. 8 * Len(w) - 1 = 7 \/ 8 * Len(w) - 1 = 15
      <4>1. CASE Len(w) = 1
        BY <4>1
      <4>2. CASE Len(w) = 2
        BY <4>2
      <4> QED BY <2>1, <4>1, <4>2
    <3>2. 0..7 \subseteq 0..15
      OBVIOUS
    <3> QED BY <3>1, <3>2
  <2> QED BY <2>1, <2>2
<1>3. ASSUME NEW m \in Nat, {b - sh : b \in d} = 0..m PROVE d = sh .. sh + m /\ sh + m \in d
  <2>1. ASSUME NEW b \in d PROVE b \in sh .. sh + m
    <3>1. b - sh \in 0..m /\ b \in Nat /\ sh \in Nat
      <4>1. b - sh \in {c - sh : c \in d}
        OBVIOUS
      <4>2. b - sh \in 0..m
        BY <1>3, <4>1, Zenon
      <4>3. b \in Nat /\ sh \in Nat
        BY <1>2
      <4> QED BY <4>2, <4>3
    <3> QED BY <3>1
  <2>2. ASSUME NEW b \in sh .. sh + m PROVE b \in d
    <3>1. b - sh \in 0..m /\ b \in Int /\ sh \in Nat
      BY <1>2
    <3>2. PICK c \in d : c - sh = b - sh
      BY <1>3, <3>1
    <3>3. c = b
      BY <1>2, <3>1, <3>2
    <3> QED BY <3>3
  <2>3. sh + m \in sh .. sh + m
    BY <1>2
  <2> QED BY <2>1, <2>2, <2>3
<1>4. \/ \A b \in d : b >= 8
      \/ \A b \in d : b <= 7
      \/ d = 0..15
  <2>1. \A b \in d : b \in Nat /\ (~(b < 8) => b >= 8) /\ (~(b > 7) => b <= 7)
    BY <1>2
  <2> QED BY <2>1 DEF Straddles
<1>5. ASSUME NEW m \in {0, 1, 3}, {b - sh : b \in d} = 0..m PROVE d \in Flips(w)
  <2>0. m \in Nat /\ m <= 3 /\ m + 1 \in {1, 2, 4}
    OBVIOUS
  <2>1. d = sh .. sh + m /\ sh + m \in d
    BY <1>3, <1>5, <2>0
  <2>2. sh + m <= 15 /\ (sh + m <= 7 \/ sh >= 8) /\ sh \in Nat
    <3>1. sh + m <= 15 /\ sh \in Nat
      BY <1>2, <2>1
    <3>2. CASE d = 0..15
      <4>1. 0 \in d /\ 15 \in d
        BY <3>2
      <4> QED BY <2>0, <2>1, <3>1, <4>1
    <3>3. CASE \A b \in d : b >= 8
      BY <3>1, <3>3
    <3>4. CASE \A b \in d : b <= 7
      BY <2>1, <3>1, <3>4
    <3> QED BY <1>4, <3>2, <3>3, <3>4
  <2> DEFINE a == IF sh >= 8 THEN 23 - sh - m ELSE 7 - sh - m
             n == 8 * Len(w)
  <2>3. a \in 0..15 /\ a + m <= 15 /\ (sh <= 7 => a + m <= 7) /\ Walk(a, m + 1) = sh .. sh + m
    BY <2>2, RunIsWalked
  <2> HIDE DEF a
  <2>4. a \in 0 .. n - 1 /\ a + (m + 1) <= n
    <3>1. CASE Len(w) = 1
      <4>1. sh <= 7
        BY <3>1
      <4> QED BY <2>0, <2>3, <3>1, <4>1
    <3>2. CASE Len(w) = 2
      BY <2>0, <2>3, <3>2
    <3> QED BY <1>2, <3>1, <3>2
  <2> DEFINE p == <<a, m + 1>>
  <2>5. p \in (0 .. n - 1) \X {1, 2, 4} /\ p[1] + p[2] <= n /\ Walk(p[1], p[2]) = d
    BY <2>0, <2>1, <2>3, <2>4
  <2> HIDE DEF p, n
  <2> QED BY <2>5 DEF Flips, n
<1>6. ASSUME sh % 8 = 0, {b - sh : b \in d} \in {0..7, 0..15, 0..31} PROVE d \in Flips(w)
  <2>1. sh = 0 \/ sh = 8
    BY <1>2, <1>6
  <2>2. CASE {b - sh : b \in d} = 0..7
    <3>1. d = sh .. sh + 7
      BY <1>3, <2>2
    <3>2. CASE sh = 0
      <4>1. d = 0..7
        BY <3>1, <3>2
      <4> QED BY <4>1 DEF Flips
    <3>3. CASE sh = 8
      <4>1. d = 8..15
        BY <3>1, <3>3
      <4>2. Len(w) = 2
        <5>1. 8 \in 0 .. 8 * Len(w) - 1
          BY <3>3
        <5>2. CASE Len(w) = 1
          <6>1. 8 * Len(w) - 1 = 7 /\ ~(8 \in 0..7)
            BY <5>2
          <6> QED BY <5>1, <6>1
        <5> QED BY <1>2, <5>2
      <4> QED BY <4>1, <4>2 DEF Flips
    <3> QED BY <2>1, <3>2, <3>3
  <2>3. CASE {b - sh : b \in d} = 0..15
    <3>1. d = sh .. sh + 15 /\ sh + 15 \in d
      BY <1>3, <2>3
    <3>2. sh = 0
      BY <1>2, <2>1, <3>1
    <3>3. d = 0..15
      BY <3>1, <3>2
    <3>4. Len(w) = 2
      <4>1. 15 \in 0 .. 8 * Len(w) - 1
        <5>1. 15 \in d
          BY <3>1, <3>2
        <5> QED BY <5>1
      <4>2. CASE Len(w) = 1
        <5>1. 8 * Len(w) - 1 = 7 /\ ~(15 \in 0..7)
          BY <4>2
        <5> QED BY <4>1, <5>1
      <4> QED BY <1>2, <4>2
    <3> QED BY <3>3, <3>4 DEF Flips
  <2>4. CASE {b - sh : b \in d} = 0..31
    <3>1. sh + 31 \in d
      BY <1>3, <2>4
    <3>2. FALSE
      BY <1>2, <3>1
    <3> QED BY <3>2
  <2> QED BY <1>6, <2>2, <2>3, <2>4
<1> QED BY <1>1, <1>5, <1>6

\* What the test for flips takes for one is one, or lies over the border.
LEMMA FlipOrLost ==
  ASSUME NEW w \in Pieces, NEW v \in Pieces, Len(v) = Len(w), could_be_bitflip(XorByte(w, v))
  PROVE  v = w \/ Flipped(w, v) \/ Lost(w, v)
<1> DEFINE d == XorByte(w, v)
<1>1. d \in SUBSET (0 .. 8 * Len(w) - 1) /\ (d = {} => v = w)
  BY XorIs
<1>2. could_be_bitflip(d)
  OBVIOUS
<1>3. CASE Straddles(d)
  BY <1>3 DEF Lost
<1>4. CASE d # {} /\ ~Straddles(d)
  <2> HIDE DEF d
  <2>1. d \in Flips(w)
    BY <1>1, <1>2, <1>4, FlipIsWalked
  <2> QED BY <2>1 DEF Flipped, d
<1> QED BY <1>1, <1>3, <1>4

-----------------------------------------------------------------------------
(***************************************************************************)
(* Arithmetic.                                                             *)
(***************************************************************************)
\* Below twice the size, `%' takes off the size at most once.
LEMMA WrapOnce ==
  ASSUME NEW M \in Nat \ {0}, NEW x \in 0 .. 2 * M - 1
  PROVE  x % M = IF x < M THEN x ELSE x - M
<1>1. CASE x < M
  BY <1>1, x \in Nat, x = 0 * M + x
<1>2. CASE x >= M
  BY <1>2, x = 1 * M + (x - M), x - M \in 0 .. M - 1
<1> QED BY <1>1, <1>2

\* Steps up and down.
Strides == 1..255
Sizes == {256, WordSize}
Below(size) == 0 .. size - 1
Stepped(a, j, size) ==
  /\ Plus(a, j, size) = IF a + j < size THEN a + j ELSE a + j - size
  /\ Plus(a, size - j, size) = IF a < j THEN a - j + size ELSE a - j

\* Bytes and words have at least 256 values.
LEMMA SizesAre == \A size \in Sizes : size \in Nat /\ size > 255
BY DEF Sizes, WordSize

\* A step up and a step down, which go around at most once.
LEMMA PlusIs ==
  ASSUME NEW size \in Sizes, NEW a \in Below(size), NEW j \in Strides
  PROVE  Stepped(a, j, size)
<1>0. size \in Nat /\ size > 255 /\ a \in 0 .. size - 1 /\ j \in 1..255
  BY SizesAre DEF Below, Strides
<1>1. a + j \in 0 .. 2 * size - 1 /\ a + (size - j) \in 0 .. 2 * size - 1 /\ size \in Nat \ {0}
  BY <1>0
<1>2. Plus(a, j, size) = IF a + j < size THEN a + j ELSE a + j - size
  <2> DEFINE x == a + j
  <2>1. x \in 0 .. 2 * size - 1
    BY <1>1
  <2> HIDE DEF x
  <2>2. x % size = IF x < size THEN x ELSE x - size
    BY <1>1, <2>1, WrapOnce
  <2>3. Plus(a, j, size) = x % size /\ x = a + j
    BY DEF x, Plus
  <2> QED BY <1>0, <2>1, <2>2, <2>3
<1>3. Plus(a, size - j, size) = IF a < j THEN a - j + size ELSE a - j
  <2> DEFINE x == a + (size - j)
  <2>1. x \in 0 .. 2 * size - 1
    BY <1>1
  <2> HIDE DEF x
  <2>2. x % size = IF x < size THEN x ELSE x - size
    BY <1>1, <2>1, WrapOnce
  <2>3. x < size <=> a < j
    BY <1>0 DEF x
  <2>4. x = a - j + size /\ x - size = a - j
    BY <1>0 DEF x
  <2> QED BY <2>2, <2>3, <2>4 DEF x, Plus
<1> QED BY <1>2, <1>3 DEF Stepped

\* What is near was reached by a step.
LEMMA NearIsStep ==
  ASSUME NEW size \in Sizes, NEW a \in Below(size), NEW b \in Below(size),
         Near(a, b, size), a # b
  PROVE  \E j \in Steps : b = Plus(a, j, size) \/ b = Plus(a, size - j, size)
<1> DEFINE down == IF a < b THEN a - b + size ELSE a - b
           up == IF b < a THEN b - a + size ELSE b - a
<1>0. size \in Nat /\ size > 255 /\ a \in 0 .. size - 1 /\ b \in 0 .. size - 1
  BY SizesAre DEF Below
<1>1. size \in Nat \ {0} /\ a + (size - b) \in 0 .. 2 * size - 1 /\ b + (size - a) \in 0 .. 2 * size - 1
  BY <1>0
<1>2. Plus(a, size - b, size) = down
  <2> DEFINE x == a + (size - b)
  <2>1. x \in 0 .. 2 * size - 1
    BY <1>1
  <2>3. (x < size <=> a < b) /\ x = a - b + size /\ x - size = a - b
    BY <1>0
  <2> HIDE DEF x
  <2>2. x % size = IF x < size THEN x ELSE x - size
    BY <1>1, <2>1, WrapOnce
  <2> QED BY <2>2, <2>3 DEF x, Plus
<1>3. Plus(b, size - a, size) = up
  <2> DEFINE x == b + (size - a)
  <2>1. x \in 0 .. 2 * size - 1
    BY <1>1
  <2>3. (x < size <=> b < a) /\ x = b - a + size /\ x - size = b - a
    BY <1>0
  <2> HIDE DEF x
  <2>2. x % size = IF x < size THEN x ELSE x - size
    BY <1>1, <2>1, WrapOnce
  <2> QED BY <2>2, <2>3 DEF x, Plus
<1>4. down \in Nat /\ up \in Nat /\ down # 0 /\ up # 0
  BY <1>0
<1>5. CASE down <= ARITH_LIMIT
  <2>1. down \in Steps /\ down \in Strides
    <3> HIDE DEF down
    <3> QED BY <1>4, <1>5, Limits DEF Steps, Strides
  <2>2. Plus(a, size - down, size) = IF a < down THEN a - down + size ELSE a - down
    <3> HIDE DEF down
    <3>1. Stepped(a, down, size)
      BY <2>1, PlusIs, Zenon
    <3> QED BY <3>1 DEF Stepped
  <2>3. (IF a < down THEN a - down + size ELSE a - down) = b
    BY <1>0
  <2> HIDE DEF down
  <2> QED BY <2>1, <2>2, <2>3
<1>6. CASE up <= ARITH_LIMIT
  <2>1. up \in Steps /\ up \in Strides
    <3> HIDE DEF up
    <3> QED BY <1>4, <1>6, Limits DEF Steps, Strides
  <2>2. Plus(a, up, size) = IF a + up < size THEN a + up ELSE a + up - size
    <3> HIDE DEF up
    <3>1. Stepped(a, up, size)
      BY <2>1, PlusIs, Zenon
    <3> QED BY <3>1 DEF Stepped
  <2>3. (IF a + up < size THEN a + up ELSE a + up - size) = b
    BY <1>0
  <2> HIDE DEF up
  <2> QED BY <2>1, <2>2, <2>3
<1> HIDE DEF down, up
<1> QED BY <1>2, <1>3, <1>5, <1>6 DEF Near

\* Two bytes and the number that they make.
LEMMA TwoBytes ==
  ASSUME NEW lo \in Bytes, NEW hi \in Bytes
  PROVE  /\ lo + 256 * hi \in 0 .. WordSize - 1
         /\ (lo + 256 * hi) % 256 = lo /\ (lo + 256 * hi) \div 256 = hi
<1>1. lo \in 0..255 /\ hi \in 0..255
  BY DEF Bytes
<1>2. lo + 256 * hi \in 0 .. WordSize - 1
  BY <1>1, SMTT(30) DEF WordSize
<1>3. (lo + 256 * hi) % 256 = lo
  BY <1>1, SMTT(30)
<1>4. (lo + 256 * hi) \div 256 = hi
  BY <1>1, SMTT(30)
<1> QED BY <1>2, <1>3, <1>4

\* A word and its two bytes.
LEMMA SplitWord ==
  ASSUME NEW x \in 0 .. WordSize - 1
  PROVE  x % 256 \in Bytes /\ x \div 256 \in Bytes /\ x = (x % 256) + 256 * (x \div 256)
BY SMTT(30) DEF Bytes, WordSize

\* The two ways to write a number as a word.
LEMMA WordIs ==
  ASSUME NEW x \in 0 .. WordSize - 1
  PROVE  /\ LE(x) \in Pieces /\ Len(LE(x)) = 2 /\ ValueLE(LE(x)) = x
         /\ BE(x) \in Pieces /\ Len(BE(x)) = 2 /\ ValueBE(BE(x)) = x
<1> DEFINE lo == x % 256
           hi == x \div 256
<1>1. lo \in Bytes /\ hi \in Bytes /\ x = lo + 256 * hi
  BY SplitWord
<1>2. LE(x) = <<lo, hi>> /\ BE(x) = <<hi, lo>>
  BY DEF LE, BE
<1> HIDE DEF lo, hi
<1>3. LE(x) \in Pieces
  <2> DEFINE p == <<lo, hi>>
  <2>1. p \in Bytes \X Bytes /\ LE(x) = <<p[1], p[2]>>
    BY <1>1, <1>2
  <2> HIDE DEF p
  <2> QED BY <2>1 DEF Pieces
<1>4. BE(x) \in Pieces
  <2> DEFINE p == <<hi, lo>>
  <2>1. p \in Bytes \X Bytes /\ BE(x) = <<p[1], p[2]>>
    BY <1>1, <1>2
  <2> HIDE DEF p
  <2> QED BY <2>1 DEF Pieces
<1>5. Len(LE(x)) = 2 /\ Len(BE(x)) = 2 /\ ValueLE(LE(x)) = x /\ ValueBE(BE(x)) = x
  <2>1. Len(<<lo, hi>>) = 2 /\ Len(<<hi, lo>>) = 2 /\ <<lo, hi>>[1] = lo /\ <<lo, hi>>[2] = hi
        /\ <<hi, lo>>[1] = hi /\ <<hi, lo>>[2] = lo
    OBVIOUS
  <2> QED BY <1>1, <1>2, <2>1 DEF ValueLE, ValueBE
<1> QED BY <1>3, <1>4, <1>5

\* The two ways to read a word as a number.
LEMMA ValueIs ==
  ASSUME NEW w \in Pieces, Len(w) = 2
  PROVE  /\ ValueLE(w) = w[1] + 256 * w[2] /\ ValueLE(w) \in 0 .. WordSize - 1 /\ LE(ValueLE(w)) = w
         /\ ValueBE(w) = w[2] + 256 * w[1] /\ ValueBE(w) \in 0 .. WordSize - 1 /\ BE(ValueBE(w)) = w
<1>1. w[1] \in Bytes /\ w[2] \in Bytes /\ w = <<w[1], w[2]>>
  BY PieceIs
<1>2. ValueLE(w) = w[1] + 256 * w[2] /\ ValueBE(w) = w[2] + 256 * w[1]
  BY DEF ValueLE, ValueBE
<1>3. ValueLE(w) \in 0 .. WordSize - 1 /\ ValueLE(w) % 256 = w[1] /\ ValueLE(w) \div 256 = w[2]
  BY <1>1, <1>2, TwoBytes
<1>4. ValueBE(w) \in 0 .. WordSize - 1 /\ ValueBE(w) % 256 = w[2] /\ ValueBE(w) \div 256 = w[1]
  BY <1>1, <1>2, TwoBytes
<1> QED BY <1>1, <1>2, <1>3, <1>4 DEF LE, BE

\* A step of a byte without a carry, as a step of the word.
ByteSteps(lo, hi, j) ==
  LET x == lo + 256 * hi
  IN  /\ lo + j <= 255 => Plus(x, j, WordSize) = Plus(lo, j, 256) + 256 * hi
      /\ lo >= j => Plus(x, WordSize - j, WordSize) = Plus(lo, 256 - j, 256) + 256 * hi
      /\ Plus(x, j, WordSize) \in 0 .. WordSize - 1 /\ Plus(x, j, WordSize) # x
      /\ Plus(x, WordSize - j, WordSize) \in 0 .. WordSize - 1 /\ Plus(x, WordSize - j, WordSize) # x
      /\ Plus(lo, j, 256) \in Bytes /\ Plus(lo, 256 - j, 256) \in Bytes

LEMMA StepInByte ==
  ASSUME NEW lo \in Bytes, NEW hi \in Bytes, NEW j \in Strides
  PROVE  ByteSteps(lo, hi, j)
<1> DEFINE x == lo + 256 * hi
<1>0. j \in 1..255
  BY DEF Strides
<1>1. x \in 0 .. WordSize - 1 /\ WordSize \in Nat /\ WordSize > 255
  <2>1. WordSize \in Nat /\ WordSize > 255
    BY DEF WordSize
  <2> QED BY <2>1, TwoBytes
<1>2. /\ Plus(lo, j, 256) = IF lo + j < 256 THEN lo + j ELSE lo + j - 256
      /\ Plus(lo, 256 - j, 256) = IF lo < j THEN lo - j + 256 ELSE lo - j
  <2>1. 256 \in Sizes /\ lo \in Below(256)
    BY DEF Sizes, Below, Bytes
  <2>2. Stepped(lo, j, 256)
    BY <2>1, PlusIs
  <2> QED BY <2>2 DEF Stepped
<1>3. /\ Plus(x, j, WordSize) = IF x + j < WordSize THEN x + j ELSE x + j - WordSize
      /\ Plus(x, WordSize - j, WordSize) = IF x < j THEN x - j + WordSize ELSE x - j
  <2>1. WordSize \in Sizes /\ x \in Below(WordSize)
    BY <1>1 DEF Sizes, Below
  <2> HIDE DEF x
  <2>2. Stepped(x, j, WordSize)
    BY <2>1, PlusIs, Zenon
  <2> QED BY <2>2 DEF Stepped
<1>4. /\ Plus(x, j, WordSize) \in 0 .. WordSize - 1 /\ Plus(x, j, WordSize) # x
      /\ Plus(x, WordSize - j, WordSize) \in 0 .. WordSize - 1 /\ Plus(x, WordSize - j, WordSize) # x
  <2> HIDE DEF x
  <2> QED BY <1>0, <1>1, <1>3
<1>5. Plus(lo, j, 256) \in Bytes /\ Plus(lo, 256 - j, 256) \in Bytes
  BY <1>0, <1>2 DEF Bytes
<1>6. lo + j <= 255 => x + j < WordSize /\ x + j = (lo + j) + 256 * hi /\ lo + j < 256
  BY <1>0 DEF Bytes, WordSize
<1>7. lo >= j => ~(x < j) /\ x - j = (lo - j) + 256 * hi /\ ~(lo < j)
  BY <1>0 DEF Bytes
<1> HIDE DEF x
<1>8. lo + j <= 255 => Plus(x, j, WordSize) = Plus(lo, j, 256) + 256 * hi
  BY <1>2, <1>3, <1>6
<1>9. lo >= j => Plus(x, WordSize - j, WordSize) = Plus(lo, 256 - j, 256) + 256 * hi
  BY <1>2, <1>3, <1>7
<1> QED BY <1>4, <1>5, <1>8, <1>9 DEF x, ByteSteps

\* A byte's step is one of those that the first arithmetic stage has made.
LEMMA StepAdded ==
  ASSUME NEW w, NEW i \in 1 .. Len(w), NEW j \in Steps
  PROVE  /\ [w EXCEPT ![i] = Plus(w[i], j, 256)] \in Added8(w)
         /\ [w EXCEPT ![i] = Plus(w[i], 256 - j, 256)] \in Added8(w)
<1> DEFINE Both(k, m) == {[w EXCEPT ![k] = Plus(w[k], m, 256)], [w EXCEPT ![k] = Plus(w[k], 256 - m, 256)]}
<1>1. Added8(w) = UNION {Both(k, m) : k \in 1 .. Len(w), m \in Steps}
  BY DEF Added8
<1>2. [w EXCEPT ![i] = Plus(w[i], j, 256)] \in Both(i, j) /\ [w EXCEPT ![i] = Plus(w[i], 256 - j, 256)] \in Both(i, j)
  OBVIOUS
<1> HIDE DEF Both
<1>3. Both(i, j) \subseteq UNION {Both(k, m) : k \in 1 .. Len(w), m \in Steps}
  OBVIOUS
<1> QED BY <1>1, <1>2, <1>3

\* One byte of a word replaced, as a number.
LEMMA ByteOfWord ==
  ASSUME NEW w \in Pieces, Len(w) = 2, NEW y \in Bytes
  PROVE  /\ LE(y + 256 * w[2]) = [w EXCEPT ![1] = y]
         /\ BE(y + 256 * w[1]) = [w EXCEPT ![2] = y]
<1>1. w[1] \in Bytes /\ w[2] \in Bytes /\ w = <<w[1], w[2]>>
  <2>1. 1 \in 1 .. Len(w) /\ 2 \in 1 .. Len(w)
    OBVIOUS
  <2> QED BY <2>1, PieceIs
<1>2. LE(y + 256 * w[2]) = <<y, w[2]>>
  BY <1>1, TwoBytes DEF LE
<1>3. BE(y + 256 * w[1]) = <<w[1], y>>
  BY <1>1, TwoBytes DEF BE
<1>4. [w EXCEPT ![1] = y] = <<y, w[2]>> /\ [w EXCEPT ![2] = y] = <<w[1], y>>
  BY <1>1
<1> QED BY <1>2, <1>3, <1>4

\* A word that the second arithmetic stage leaves out carries nothing into the
\* other byte, so the first has made it, or it is a flip.
LEMMA ArithWord ==
  ASSUME NEW w \in Pieces, Len(w) = 2, NEW j \in Steps, NEW c \in ArithLoop16(w, j)
  PROVE  /\ c.v \in Pieces /\ Len(c.v) = 2 /\ c.v # w
         /\ ~RunsArith(w, c) => Earlier8(w, c.v) \/ Lost(w, c.v)
<1> DEFINE x == ValueLE(w)
           y == ValueBE(w)
<1>0. j \in Strides /\ j \in 1..255
  BY Limits DEF Strides
<1>1. /\ x = w[1] + 256 * w[2] /\ x \in 0 .. WordSize - 1 /\ LE(x) = w
      /\ y = w[2] + 256 * w[1] /\ y \in 0 .. WordSize - 1 /\ BE(y) = w
  BY ValueIs
<1>2. w[1] \in Bytes /\ w[2] \in Bytes /\ 1 \in 1 .. Len(w) /\ 2 \in 1 .. Len(w)
  <2>1. w[1] \in Bytes /\ w[2] \in Bytes
    BY PieceIs
  <2> QED BY <2>1
<1> DEFINE a == Plus(x, j, WordSize)
           b == Plus(x, WordSize - j, WordSize)
           d == Plus(y, j, WordSize)
           e == Plus(y, WordSize - j, WordSize)
<1>3. /\ a \in 0 .. WordSize - 1 /\ a # x /\ b \in 0 .. WordSize - 1 /\ b # x
      /\ w[1] + j <= 255 => a = Plus(w[1], j, 256) + 256 * w[2]
      /\ w[1] >= j => b = Plus(w[1], 256 - j, 256) + 256 * w[2]
      /\ Plus(w[1], j, 256) \in Bytes /\ Plus(w[1], 256 - j, 256) \in Bytes
  <2> DEFINE z == w[1] + 256 * w[2]
  <2>0. ByteSteps(w[1], w[2], j)
    BY <1>0, <1>2, StepInByte
  <2>1. /\ w[1] + j <= 255 => Plus(z, j, WordSize) = Plus(w[1], j, 256) + 256 * w[2]
        /\ w[1] >= j => Plus(z, WordSize - j, WordSize) = Plus(w[1], 256 - j, 256) + 256 * w[2]
        /\ Plus(z, j, WordSize) \in 0 .. WordSize - 1 /\ Plus(z, j, WordSize) # z
        /\ Plus(z, WordSize - j, WordSize) \in 0 .. WordSize - 1 /\ Plus(z, WordSize - j, WordSize) # z
        /\ Plus(w[1], j, 256) \in Bytes /\ Plus(w[1], 256 - j, 256) \in Bytes
    BY <2>0 DEF ByteSteps
  <2>2. x = z
    BY <1>1
  <2> HIDE DEF x, z
  <2> QED BY <2>1, <2>2
<1>4. /\ d \in 0 .. WordSize - 1 /\ d # y /\ e \in 0 .. WordSize - 1 /\ e # y
      /\ w[2] + j <= 255 => d = Plus(w[2], j, 256) + 256 * w[1]
      /\ w[2] >= j => e = Plus(w[2], 256 - j, 256) + 256 * w[1]
      /\ Plus(w[2], j, 256) \in Bytes /\ Plus(w[2], 256 - j, 256) \in Bytes
  <2> DEFINE z == w[2] + 256 * w[1]
  <2>0. ByteSteps(w[2], w[1], j)
    BY <1>0, <1>2, StepInByte
  <2>1. /\ w[2] + j <= 255 => Plus(z, j, WordSize) = Plus(w[2], j, 256) + 256 * w[1]
        /\ w[2] >= j => Plus(z, WordSize - j, WordSize) = Plus(w[2], 256 - j, 256) + 256 * w[1]
        /\ Plus(z, j, WordSize) \in 0 .. WordSize - 1 /\ Plus(z, j, WordSize) # z
        /\ Plus(z, WordSize - j, WordSize) \in 0 .. WordSize - 1 /\ Plus(z, WordSize - j, WordSize) # z
        /\ Plus(w[2], j, 256) \in Bytes /\ Plus(w[2], 256 - j, 256) \in Bytes
    BY <2>0 DEF ByteSteps
  <2>2. y = z
    BY <1>1
  <2> HIDE DEF y, z
  <2> QED BY <2>1, <2>2
<1>5. \/ c = [v |-> LE(a), moves |-> w[1] + j > 255]
      \/ c = [v |-> LE(b), moves |-> w[1] < j]
      \/ c = [v |-> BE(d), moves |-> w[2] + j > 255]
      \/ c = [v |-> BE(e), moves |-> w[2] < j]
  BY DEF ArithLoop16
<1>6. (~(w[1] + j > 255) => w[1] + j <= 255) /\ (~(w[1] < j) => w[1] >= j)
      /\ (~(w[2] + j > 255) => w[2] + j <= 255) /\ (~(w[2] < j) => w[2] >= j)
  <2>1. w[1] \in Nat /\ w[2] \in Nat /\ j \in Nat
    BY <1>0, <1>2 DEF Bytes
  <2> QED BY <2>1
<1> HIDE DEF x, y, a, b, d, e
<1>7. /\ LE(a) \in Pieces /\ Len(LE(a)) = 2 /\ LE(a) # w
      /\ LE(b) \in Pieces /\ Len(LE(b)) = 2 /\ LE(b) # w
  <2>1. ValueLE(LE(a)) = a /\ ValueLE(LE(b)) = b /\ ValueLE(w) = x
    BY <1>1, <1>3, WordIs
  <2>2. LE(a) \in Pieces /\ Len(LE(a)) = 2 /\ LE(b) \in Pieces /\ Len(LE(b)) = 2
    BY <1>3, WordIs
  <2> QED BY <1>3, <2>1, <2>2
<1>8. /\ BE(d) \in Pieces /\ Len(BE(d)) = 2 /\ BE(d) # w
      /\ BE(e) \in Pieces /\ Len(BE(e)) = 2 /\ BE(e) # w
  <2>1. ValueBE(BE(d)) = d /\ ValueBE(BE(e)) = e /\ ValueBE(w) = y
    BY <1>1, <1>4, WordIs
  <2>2. BE(d) \in Pieces /\ Len(BE(d)) = 2 /\ BE(e) \in Pieces /\ Len(BE(e)) = 2
    BY <1>4, WordIs
  <2> QED BY <1>4, <2>1, <2>2
<1>9. c.v \in Pieces /\ Len(c.v) = 2 /\ c.v # w
  BY <1>5, <1>7, <1>8
<1>10. c.moves \/ c.v \in Added8(w)
  <2>1. CASE c = [v |-> LE(a), moves |-> w[1] + j > 255]
    <3>1. SUFFICES ASSUME ~(w[1] + j > 255) PROVE LE(a) \in Added8(w)
      BY <2>1
    <3>2. a = Plus(w[1], j, 256) + 256 * w[2] /\ Plus(w[1], j, 256) \in Bytes
      BY <1>3, <1>6, <3>1
    <3>3. LE(Plus(w[1], j, 256) + 256 * w[2]) = [w EXCEPT ![1] = Plus(w[1], j, 256)]
      BY <3>2, ByteOfWord
    <3>4. [w EXCEPT ![1] = Plus(w[1], j, 256)] \in Added8(w)
      BY <1>2, StepAdded
    <3> QED BY <3>2, <3>3, <3>4
  <2>2. CASE c = [v |-> LE(b), moves |-> w[1] < j]
    <3>1. SUFFICES ASSUME ~(w[1] < j) PROVE LE(b) \in Added8(w)
      BY <2>2
    <3>2. b = Plus(w[1], 256 - j, 256) + 256 * w[2] /\ Plus(w[1], 256 - j, 256) \in Bytes
      BY <1>3, <1>6, <3>1
    <3>3. LE(Plus(w[1], 256 - j, 256) + 256 * w[2]) = [w EXCEPT ![1] = Plus(w[1], 256 - j, 256)]
      BY <3>2, ByteOfWord
    <3>4. [w EXCEPT ![1] = Plus(w[1], 256 - j, 256)] \in Added8(w)
      BY <1>2, StepAdded
    <3> QED BY <3>2, <3>3, <3>4
  <2>3. CASE c = [v |-> BE(d), moves |-> w[2] + j > 255]
    <3>1. SUFFICES ASSUME ~(w[2] + j > 255) PROVE BE(d) \in Added8(w)
      BY <2>3
    <3>2. d = Plus(w[2], j, 256) + 256 * w[1] /\ Plus(w[2], j, 256) \in Bytes
      BY <1>4, <1>6, <3>1
    <3>3. BE(Plus(w[2], j, 256) + 256 * w[1]) = [w EXCEPT ![2] = Plus(w[2], j, 256)]
      BY <3>2, ByteOfWord
    <3>4. [w EXCEPT ![2] = Plus(w[2], j, 256)] \in Added8(w)
      BY <1>2, StepAdded
    <3> QED BY <3>2, <3>3, <3>4
  <2>4. CASE c = [v |-> BE(e), moves |-> w[2] < j]
    <3>1. SUFFICES ASSUME ~(w[2] < j) PROVE BE(e) \in Added8(w)
      BY <2>4
    <3>2. e = Plus(w[2], 256 - j, 256) + 256 * w[1] /\ Plus(w[2], 256 - j, 256) \in Bytes
      BY <1>4, <1>6, <3>1
    <3>3. BE(Plus(w[2], 256 - j, 256) + 256 * w[1]) = [w EXCEPT ![2] = Plus(w[2], 256 - j, 256)]
      BY <3>2, ByteOfWord
    <3>4. [w EXCEPT ![2] = Plus(w[2], 256 - j, 256)] \in Added8(w)
      BY <1>2, StepAdded
    <3> QED BY <3>2, <3>3, <3>4
  <2> QED BY <1>5, <2>1, <2>2, <2>3, <2>4
<1>11. ASSUME ~RunsArith(w, c) PROVE Earlier8(w, c.v) \/ Lost(w, c.v)
  <2>1. CASE c.v \in Added8(w)
    BY <2>1 DEF Earlier8
  <2>2. CASE could_be_bitflip(XorByte(w, c.v))
    <3>1. c.v = w \/ Flipped(w, c.v) \/ Lost(w, c.v)
      BY <1>9, <2>2, FlipOrLost
    <3> QED BY <1>9, <3>1 DEF Earlier8
  <2> QED BY <1>10, <1>11, <2>1, <2>2 DEF RunsArith
<1> QED BY <1>9, <1>11

-----------------------------------------------------------------------------
(***************************************************************************)
(* Interesting values.                                                     *)
(***************************************************************************)
\* One byte moved by a step.
LEMMA NearByte ==
  ASSUME NEW w \in Pieces, NEW i \in 1 .. Len(w), NEW x \in Bytes, Near(w[i], x, 256), w[i] # x
  PROVE  [w EXCEPT ![i] = x] \in Added8(w)
<1>1. 256 \in Sizes /\ w[i] \in Below(256) /\ x \in Below(256)
  <2>1. w[i] \in Bytes
    BY PieceIs
  <2> QED BY <2>1 DEF Sizes, Below, Bytes
<1>2. PICK j \in Steps : x = Plus(w[i], j, 256) \/ x = Plus(w[i], 256 - j, 256)
  BY <1>1, NearIsStep
<1> QED BY <1>2, StepAdded

\* An interesting byte that is left out.
LEMMA Skip8 ==
  ASSUME NEW w \in Pieces, NEW i \in 1 .. Len(w), NEW x \in Bytes, ~RunsInt8(w, i, x)
  PROVE  LET v == [w EXCEPT ![i] = x] IN v = w \/ Earlier8(w, v) \/ Lost(w, v)
<1> DEFINE v == [w EXCEPT ![i] = x]
<1> SUFFICES v = w \/ Earlier8(w, v) \/ Lost(w, v)
  OBVIOUS
<1>1. v \in Pieces /\ Len(v) = Len(w)
  BY PieceWith
<1>2. could_be_bitflip(XorByte(w, v)) \/ could_be_arith(<<w[i]>>, <<x>>)
  BY DEF RunsInt8
<1>3. CASE could_be_bitflip(XorByte(w, v))
  <2> HIDE DEF v
  <2> QED BY <1>1, <1>3, FlipOrLost DEF Earlier8
<1>4. CASE could_be_arith(<<w[i]>>, <<x>>)
  <2>1. w[i] = x \/ Near(w[i], x, 256)
    <3> DEFINE old == <<w[i]>>
               new == <<x>>
    <3>1. Len(old) = 1 /\ old[1] = w[i] /\ new[1] = x
      OBVIOUS
    <3>2. old = new => w[i] = x
      BY <3>1
    <3>3. could_be_arith(old, new)
      BY <1>4
    <3> HIDE DEF old, new
    <3>4. old = new \/ \E k \in 1 .. 1 : Near(old[k], new[k], 256)
      BY <3>1, <3>3 DEF could_be_arith
    <3> QED BY <3>1, <3>2, <3>4
  <2>2. w[i] = x => v = w
    BY PieceIs
  <2>3. CASE w[i] # x /\ Near(w[i], x, 256)
    BY <2>3, NearByte DEF Earlier8
  <2> QED BY <2>1, <2>2, <2>3
<1> QED BY <1>2, <1>3, <1>4

\* What the arithmetic test takes for a step of the word is one.
LEMMA StepOfWord ==
  ASSUME NEW w \in Pieces, Len(w) = 2, NEW v \in Pieces, Len(v) = 2, v # w,
         \/ Near(ValueLE(w), ValueLE(v), WordSize)
         \/ Near(ValueBE(w), ValueBE(v), WordSize)
  PROVE  \E j \in Steps : \E c \in ArithLoop16(w, j) : c.v = v
<1> DEFINE x == ValueLE(w)
           y == ValueBE(w)
           s == ValueLE(v)
           t == ValueBE(v)
<1>1. /\ x \in Below(WordSize) /\ y \in Below(WordSize) /\ LE(x) = w /\ BE(y) = w
      /\ s \in Below(WordSize) /\ t \in Below(WordSize) /\ LE(s) = v /\ BE(t) = v
      /\ WordSize \in Sizes
  BY ValueIs DEF Below, Sizes
<1> HIDE DEF x, y, s, t
<1>2. CASE Near(x, s, WordSize)
  <2>1. x # s
    BY <1>1
  <2>2. PICK j \in Steps : s = Plus(x, j, WordSize) \/ s = Plus(x, WordSize - j, WordSize)
    BY <1>1, <1>2, <2>1, NearIsStep
  <2>3. \/ [v |-> LE(s), moves |-> w[1] + j > 255] \in ArithLoop16(w, j)
        \/ [v |-> LE(s), moves |-> w[1] < j] \in ArithLoop16(w, j)
    BY <2>2 DEF ArithLoop16, x
  <2>4. \E c \in ArithLoop16(w, j) : c.v = v
    BY <1>1, <2>3
  <2> QED BY <2>4
<1>3. CASE Near(y, t, WordSize)
  <2>1. y # t
    BY <1>1
  <2>2. PICK j \in Steps : t = Plus(y, j, WordSize) \/ t = Plus(y, WordSize - j, WordSize)
    BY <1>1, <1>3, <2>1, NearIsStep
  <2>3. \/ [v |-> BE(t), moves |-> w[2] + j > 255] \in ArithLoop16(w, j)
        \/ [v |-> BE(t), moves |-> w[2] < j] \in ArithLoop16(w, j)
    BY <2>2 DEF ArithLoop16, y
  <2>4. \E c \in ArithLoop16(w, j) : c.v = v
    BY <1>1, <2>3
  <2> QED BY <2>4
<1> QED BY <1>2, <1>3 DEF x, y, s, t

\* What the test for arithmetic takes for a step of it is one that was run.
LEMMA ArithSkips ==
  ASSUME NEW w \in Pieces, Len(w) = 2, NEW v \in Pieces, Len(v) = 2, could_be_arith(w, v)
  PROVE  v = w \/ Earlier8(w, v) \/ v \in Added16(w) \/ Lost(w, v)
<1>1. SUFFICES ASSUME v # w PROVE Earlier8(w, v) \/ v \in Added16(w) \/ Lost(w, v)
  OBVIOUS
<1>2. CASE \E i \in 1..Len(w) :
             /\ \A k \in 1..Len(w) \ {i} : w[k] = v[k]
             /\ Near(w[i], v[i], 256)
  <2>1. PICK i \in 1..Len(w) :
               /\ \A k \in 1..Len(w) \ {i} : w[k] = v[k]
               /\ Near(w[i], v[i], 256)
    BY <1>2
  <2>2. v[i] \in Bytes /\ w \in Seq(Bytes) /\ v \in Seq(Bytes) /\ DOMAIN w = 1 .. Len(w) /\ DOMAIN v = 1 .. Len(w)
    BY PieceIs
  <2>3. v = [w EXCEPT ![i] = v[i]]
    BY <2>1, <2>2
  <2>4. w[i] # v[i]
    <3> DEFINE u == v[i]
    <3>1. w[i] = u => [w EXCEPT ![i] = u] = w
      BY <2>2
    <3> QED BY <1>1, <2>3, <3>1
  <2>5. [w EXCEPT ![i] = v[i]] \in Added8(w)
    BY <2>1, <2>2, <2>4, NearByte
  <2> QED BY <2>3, <2>5 DEF Earlier8
<1>3. CASE Near(ValueLE(w), ValueLE(v), WordSize) \/ Near(ValueBE(w), ValueBE(v), WordSize)
  <2>1. PICK j \in Steps : \E c \in ArithLoop16(w, j) : c.v = v
    BY <1>1, <1>3, StepOfWord
  <2>2. PICK c \in ArithLoop16(w, j) : c.v = v
    BY <2>1
  <2>3. CASE RunsArith(w, c)
    BY <2>2, <2>3 DEF Added16
  <2>4. CASE ~RunsArith(w, c)
    BY <2>2, <2>4, ArithWord
  <2> QED BY <2>3, <2>4
<1> QED BY <1>1, <1>2, <1>3 DEF could_be_arith

\* What the test for interesting values takes for one is one that was run, or
\* one that was left out itself.
LEMMA InterestSkips ==
  ASSUME NEW w \in Pieces, Len(w) = 2, NEW v \in Pieces, Len(v) = 2,
         NEW be \in BOOLEAN, could_be_interest(w, v, be)
  PROVE  \/ v = w
         \/ Earlier8(w, v) \/ v \in Set8(w) \/ Lost(w, v)
         \/ be /\ \E x \in INTERESTING_16 : v = LE(x)
<1>1. CASE \E i \in 1..Len(w), x \in INTERESTING_8 : v = [w EXCEPT ![i] = x]
  <2>1. PICK i \in 1..Len(w), x \in INTERESTING_8 : v = [w EXCEPT ![i] = x]
    BY <1>1
  <2>2. x \in Bytes
    BY Limits
  <2>3. CASE RunsInt8(w, i, x)
    <3> DEFINE p == <<i, x>>
    <3>1. p \in (1..Len(w)) \X INTERESTING_8 /\ p[1] = i /\ p[2] = x
      OBVIOUS
    <3>2. RunsInt8(w, p[1], p[2]) /\ v = [w EXCEPT ![p[1]] = p[2]]
      BY <2>1, <2>3
    <3> HIDE DEF p
    <3>3. p \in {q \in (1..Len(w)) \X INTERESTING_8 : RunsInt8(w, q[1], q[2])}
      BY <3>1, <3>2
    <3> QED BY <3>2, <3>3 DEF Set8
  <2>4. CASE ~RunsInt8(w, i, x)
    BY <2>1, <2>2, <2>4, Skip8
  <2> QED BY <2>3, <2>4
<1> QED BY <1>1 DEF could_be_interest

\* An interesting word that is left out.
LEMMA SkipLittle ==
  ASSUME NEW w \in Pieces, Len(w) = 2, NEW v \in Pieces, Len(v) = 2, ~RunsInt16(w, v, FALSE)
  PROVE  Earlier16(w, v) \/ Lost(w, v)
<1>1. CASE could_be_bitflip(XorByte(w, v))
  BY <1>1, FlipOrLost DEF Earlier16, Earlier8
<1>2. CASE could_be_arith(w, v)
  BY <1>2, ArithSkips DEF Earlier16
<1>3. CASE could_be_interest(w, v, FALSE)
  BY <1>3, InterestSkips DEF Earlier16
<1> QED BY <1>1, <1>2, <1>3 DEF RunsInt16

\* An interesting word, in the order of big-endian machines, that is left out.
LEMMA SkipBig ==
  ASSUME NEW w \in Pieces, Len(w) = 2, NEW v \in Pieces, Len(v) = 2, ~RunsInt16(w, v, TRUE)
  PROVE  Earlier16(w, v) \/ v \in Set16LE(w) \/ Lost(w, v)
<1>1. CASE could_be_bitflip(XorByte(w, v))
  BY <1>1, FlipOrLost DEF Earlier16, Earlier8
<1>2. CASE could_be_arith(w, v)
  BY <1>2, ArithSkips DEF Earlier16
<1>3. CASE \E x \in INTERESTING_16 : v = LE(x)
  <2>1. PICK x \in INTERESTING_16 : v = LE(x)
    BY <1>3
  <2>2. CASE RunsInt16(w, LE(x), FALSE)
    BY <2>1, <2>2 DEF Set16LE
  <2>3. CASE ~RunsInt16(w, LE(x), FALSE)
    BY <2>1, <2>3, SkipLittle
  <2> QED BY <2>2, <2>3
<1>4. CASE could_be_interest(w, v, TRUE)
  BY <1>3, <1>4, InterestSkips DEF Earlier16
<1> QED BY <1>1, <1>2, <1>4 DEF RunsInt16

-----------------------------------------------------------------------------
\* What the stages leave out of a piece of the file.
LEMMA PieceSkips ==
  ASSUME word \in {<<>>} \cup Pieces
  PROVE  SkipsAreRepeats
<1>0. Len(word) > 0 => word \in Pieces
  BY DEF Pieces
<1>1. ASSUME Len(word) = 1, NEW x \in 0..255 \ {word[1]}, could_be_bitflip(XorByte(word, <<x>>))
      PROVE  Flipped(word, <<x>>)
  <2>1. word \in Pieces /\ x \in Bytes
    BY <1>0, <1>1 DEF Bytes
  <2>2. <<x>> \in Pieces /\ Len(<<x>>) = 1 /\ <<x>> # word
    BY <1>1, <2>1 DEF Pieces
  <2>3. <<x>> = word \/ Flipped(word, <<x>>) \/ Lost(word, <<x>>)
    BY <1>1, <2>1, <2>2, FlipOrLost
  <2>4. ~Lost(word, <<x>>)
    <3>1. XorByte(word, <<x>>) \subseteq 0 .. 8 * Len(word) - 1
      BY <1>1, <2>1, <2>2, XorIs
    <3>2. 8 * Len(word) - 1 = 7 /\ \A b \in 0 .. 7 : ~(b > 7)
      BY <1>1
    <3> QED BY <3>1, <3>2 DEF Lost, Straddles
  <2> QED BY <2>2, <2>3, <2>4
<1>2. ASSUME Len(word) = 1, NEW x \in INTERESTING_8, ~RunsInt8(word, 1, x)
      PROVE  Earlier8(word, <<x>>) \/ <<x>> = word
  <2>1. word \in Pieces /\ x \in Bytes /\ 1 \in 1 .. Len(word)
    BY <1>0, <1>2, Limits
  <2>2. [word EXCEPT ![1] = x] = <<x>>
    <3>1. word = <<word[1]>>
      BY <1>2, <2>1, PieceIs
    <3> QED BY <3>1
  <2>3. <<x>> = word \/ Earlier8(word, <<x>>) \/ Lost(word, <<x>>)
    BY <1>2, <2>1, <2>2, Skip8
  <2>4. ~Lost(word, <<x>>)
    <3>0. <<x>> \in Pieces /\ Len(<<x>>) = 1
      BY <2>1 DEF Pieces
    <3>1. XorByte(word, <<x>>) \subseteq 0 .. 8 * Len(word) - 1
      BY <1>2, <2>1, <3>0, XorIs
    <3>2. 8 * Len(word) - 1 = 7 /\ \A b \in 0 .. 7 : ~(b > 7)
      BY <1>2
    <3> QED BY <3>1, <3>2 DEF Lost, Straddles
  <2> QED BY <2>3, <2>4
<1>3. ASSUME Len(word) = 2, NEW j \in Steps, NEW c \in ArithLoop16(word, j), ~RunsArith(word, c)
      PROVE  Earlier8(word, c.v) \/ Lost(word, c.v)
  <2>1. word \in Pieces
    BY <1>0, <1>3
  <2> QED BY <1>3, <2>1, ArithWord
<1>4. ASSUME Len(word) = 2, NEW x \in INTERESTING_16, ~RunsInt16(word, LE(x), FALSE)
      PROVE  Earlier16(word, LE(x)) \/ Lost(word, LE(x))
  <2>1. word \in Pieces /\ x \in 0 .. WordSize - 1
    BY <1>0, <1>4, Limits
  <2>2. LE(x) \in Pieces /\ Len(LE(x)) = 2
    BY <2>1, WordIs
  <2> QED BY <1>4, <2>1, <2>2, SkipLittle
<1>5. ASSUME Len(word) = 2, NEW x \in INTERESTING_16, ~RunsInt16(word, BE(x), TRUE)
      PROVE  Earlier16(word, BE(x)) \/ BE(x) \in Set16LE(word) \/ Lost(word, BE(x))
  <2>1. word \in Pieces /\ x \in 0 .. WordSize - 1
    BY <1>0, <1>5, Limits
  <2>2. BE(x) \in Pieces /\ Len(BE(x)) = 2
    BY <2>1, WordIs
  <2> QED BY <1>5, <2>1, <2>2, SkipBig
<1> QED BY <1>1, <1>2, <1>3, <1>4, <1>5 DEF SkipsAreRepeats

(* For all bytes and words, all tables of interesting values and all limits: *)
(* a value that a deterministic stage leaves out as done before was done   *)
(* before, except those over the border of two bytes that could_be_bitflip *)
(* takes for flips (src/afl-fuzz.c:5205-5380).                             *)
THEOREM SkipsAreRepeatsHolds == ByteOpsSpec => []SkipsAreRepeats
<1> DEFINE Inv == word \in {<<>>} \cup Pieces
<1>1. ByteOpsInit => Inv
  BY DEF ByteOpsInit
<1>2. ASSUME Inv, [ByteOpsNext]_word PROVE Inv'
  <2>1. ASSUME NEW b \in ByteSample, PickByte(b) PROVE Inv'
    <3>1. b \in Bytes
      BY ByteOpsAssumption DEF Bytes
    <3> QED BY <2>1, <3>1 DEF PickByte, Pieces
  <2>2. ASSUME NEW v \in WordSample, PickWord(v) PROVE Inv'
    <3>1. v \in 0 .. WordSize - 1
      BY ByteOpsAssumption
    <3>2. LE(v) \in Pieces
      BY <3>1, WordIs
    <3> QED BY <2>2, <3>2 DEF PickWord, LE
  <2>3. CASE UNCHANGED word
    BY <1>2, <2>3
  <2> QED BY <1>2, <2>1, <2>2, <2>3 DEF ByteOpsNext
<1>3. Inv => SkipsAreRepeats
  BY PieceSkips
<1> QED BY <1>1, <1>2, <1>3, PTL DEF ByteOpsSpec

-----------------------------------------------------------------------------
(***************************************************************************)
(* Trampoline.  What a process keeps true of its memory.                   *)
(***************************************************************************)
MemoryType == [area : [Objects -> BOOLEAN], prev : [Objects -> MapCells],
               failure : [Objects -> BOOLEAN], global : BOOLEAN]
StepType == Objects \X MapCells

TrampolineTypes ==
  /\ proc \in {"program", "server", "child", "dead"}
  /\ mem \in MemoryType /\ serverMem \in MemoryType
  /\ trace \in [MapCells -> Nat] /\ stepsRun \in Seq(StepType)
  /\ helloes \in Nat /\ getenvs \in [Objects -> Nat]
  /\ proc \in {"server", "child"} => first \in StepType

(* An object file that has the map did not fail, and there is a map. *)
Consistent(m) == \A o \in Objects : m.area[o] => m.global /\ ~m.failure[o]

(* The fork server stopped in its first step, before anything was logged.  *)
Untouched(m) ==
  /\ Consistent(m) /\ m.global /\ m.area[first[1]]
  /\ \A o \in Objects : m.prev[o] = {}

Running == proc \in {"program", "child"}

OneSetUp ==
  /\ helloes <= 1 /\ (proc = "program" => helloes = 0)
  /\ proc = "server" => Untouched(mem)
  /\ proc = "child" => Untouched(serverMem) /\ mem.global
  /\ \A o \in Objects : /\ getenvs[o] <= 1
                        /\ proc = "program" /\ getenvs[o] = 1 => mem.area[o] \/ mem.failure[o]

(* What prev_loc of an object file remembers: its last step, halved. *)
StepsOf(o) == {j \in 1 .. Len(stepsRun) : stepsRun[j][1] = o}
LastOf(o) == IF StepsOf(o) = {} THEN {} ELSE stepsRun[Latest(StepsOf(o))][2]
Remembered ==
  Running =>
    /\ Consistent(mem)
    /\ \A i \in 1 .. Len(stepsRun) : mem.area[stepsRun[i][1]] \/ mem.failure[stepsRun[i][1]]
    /\ \A o \in Objects : mem.prev[o] = IF mem.area[o] THEN ShiftedRight(LastOf(o)) ELSE {}

InCell(c) == {i \in LoggedSteps : Cell(i) = c}
CountsSteps ==
  Running => \A c \in MapCells : trace[c] = Cardinality(InCell(c)) % CountMod

TrampolineInv == TrampolineTypes /\ OneSetUp /\ Remembered /\ CountsSteps

-----------------------------------------------------------------------------
(* The largest member of a set of numbers that has a bound. *)
LEMMA GreatestBelow ==
  ASSUME NEW N \in Nat, NEW T \in SUBSET (0 .. N), T # {}
  PROVE  \E x \in T : \A y \in T : y <= x
<1> DEFINE R == OpToRel(<, Nat)
           U == {n \in Nat : \E x \in T : n + x = N}
<1>1. IsWellFoundedOn(R, Nat)
  BY NatLessThanWellFounded
<1>2. \A x, y \in Nat : x < y => <<x, y>> \in R
  BY DEF OpToRel
<1>3. U # {} /\ U \subseteq Nat
  <2>1. PICK x \in T : TRUE
    OBVIOUS
  <2>2. N - x \in U
    BY <2>1
  <2> QED BY <2>2
<1> HIDE DEF R
<1>4. PICK n \in U : \A k \in U : ~(<<k, n>> \in R)
  <2> HIDE DEF U
  <2> QED BY <1>1, <1>3, WFMin
<1>5. PICK x \in T : n + x = N
  BY <1>4
<1>6. ASSUME NEW y \in T PROVE y <= x
  <2>1. N - y \in U
    OBVIOUS
  <2>2. ~(N - y < n)
    BY <1>2, <1>4, <2>1
  <2> QED BY <1>5, <2>2
<1> QED BY <1>6

\* The latest of some steps is one of them.
LEMMA LatestIn ==
  ASSUME NEW n \in Nat, NEW S \in SUBSET (1 .. n), S # {}
  PROVE  Latest(S) \in S
<1>1. S \subseteq 0 .. n
  OBVIOUS
<1>2. \E x \in S : \A y \in S : y <= x
  BY <1>1, GreatestBelow
<1> QED BY <1>2 DEF Latest

(* Two steps between the same two locations, there and back, are in        *)
(* different cells: at the highest bit in which the locations differ the   *)
(* two cells differ.                                                       *)
LEMMA ThereAndBack ==
  ASSUME NEW a \in MapCells, NEW b \in MapCells, a # b
  PROVE  Xor(a, ShiftedRight(b)) # Xor(b, ShiftedRight(a))
<1> MapWidth \in Nat \ {0}
  BY TrampolineAssumption
<1> DEFINE D == Xor(a, b)
<1>1. D \subseteq 0 .. MapWidth /\ D # {} /\ MapWidth \in Nat
  BY DEF Xor, MapCells
<1>2. PICK k \in D : \A j \in D : j <= k
  <2> HIDE DEF D
  <2> QED BY <1>1, GreatestBelow
<1>3. k \in Nat /\ k + 1 \notin D
  BY <1>1, <1>2
<1>4. k \in ShiftedRight(a) <=> k + 1 \in a
  BY <1>3 DEF ShiftedRight, MapCells
<1>5. k \in ShiftedRight(b) <=> k + 1 \in b
  BY <1>3 DEF ShiftedRight, MapCells
<1>6. k + 1 \in a <=> k + 1 \in b
  BY <1>3 DEF Xor
<1>7. (k \in a) <=> ~(k \in b)
  BY DEF Xor
<1>8. k \in Xor(a, ShiftedRight(b)) <=> ~(k \in Xor(b, ShiftedRight(a)))
  BY <1>4, <1>5, <1>6, <1>7 DEF Xor
<1> QED BY <1>8

\* Shifted and combined locations are locations.
LEMMA MapFacts ==
  /\ {} \in MapCells /\ ShiftedRight({}) = {}
  /\ \A a \in MapCells : ShiftedRight(a) \in MapCells
  /\ \A a, b \in MapCells : Xor(a, b) \in MapCells
<1> MapWidth \in Nat \ {0}
  BY TrampolineAssumption
<1> QED BY DEF MapCells, ShiftedRight, Xor

\* Counting modulo the range of a byte.
LEMMA CountUp ==
  ASSUME NEW n \in Nat
  PROVE  ((n % CountMod) + 1) % CountMod = (n + 1) % CountMod
<1>1. CountMod \in Nat /\ CountMod > 1
  BY TrampolineAssumption
<1>2. PICK q \in Int, r \in 0 .. CountMod - 1 : n = q * CountMod + r /\ n % CountMod = r
  BY <1>1
<1>3. CASE r + 1 < CountMod
  BY <1>1, <1>2, <1>3, n + 1 = q * CountMod + (r + 1), r + 1 = 0 * CountMod + (r + 1)
<1>4. CASE r + 1 = CountMod
  BY <1>1, <1>2, <1>4, n + 1 = (q + 1) * CountMod + 0, r + 1 = 1 * CountMod + 0
<1> QED BY <1>1, <1>2, <1>3, <1>4

(* The location before a step is one. *)
LEMMA BeforeIs ==
  ASSUME stepsRun \in Seq(StepType), NEW i \in 1 .. Len(stepsRun)
  PROVE  /\ Before(i) \in MapCells /\ Cell(i) \in MapCells
         /\ stepsRun[i][1] \in Objects /\ stepsRun[i][2] \in MapCells
<1> DEFINE E == {j \in 1 .. (i - 1) : stepsRun[j][1] = stepsRun[i][1]}
<1>1. i - 1 \in Nat /\ E \subseteq 1 .. (i - 1) /\ Len(stepsRun) \in Nat
  OBVIOUS
<1>2. \A j \in 1 .. Len(stepsRun) : stepsRun[j] \in StepType
  BY ElementOfSeq
<1>3. \A j \in 1 .. Len(stepsRun) : stepsRun[j][1] \in Objects /\ stepsRun[j][2] \in MapCells
  BY <1>2 DEF StepType
<1>4. Before(i) = IF E = {} THEN {} ELSE stepsRun[Latest(E)][2]
  BY DEF Before
<1> HIDE DEF E
<1>5. E # {} => Latest(E) \in E
  BY <1>1, LatestIn
<1>7. E \subseteq 1 .. Len(stepsRun)
  BY <1>1
<1>6. Before(i) \in MapCells
  BY <1>3, <1>4, <1>5, <1>7, MapFacts
<1> QED BY <1>3, <1>6, MapFacts DEF Cell

(* What was counted stays what it was when a step is added. *)
LEMMA CellStays ==
  ASSUME stepsRun \in Seq(StepType), NEW e \in StepType, stepsRun' = Append(stepsRun, e)
  PROVE  /\ Len(stepsRun) \in Nat /\ Len(stepsRun') = Len(stepsRun) + 1 /\ stepsRun' \in Seq(StepType)
         /\ stepsRun'[Len(stepsRun) + 1] = e
         /\ \A i \in 1 .. Len(stepsRun) : stepsRun'[i] = stepsRun[i] /\ Cell(i)' = Cell(i)
         /\ \A n \in Nat : n = Len(stepsRun) + 1 => Before(n)' = LastOf(e[1])
<1>1. /\ Len(stepsRun) \in Nat /\ Len(stepsRun') = Len(stepsRun) + 1 /\ stepsRun' \in Seq(StepType)
      /\ stepsRun'[Len(stepsRun) + 1] = e
      /\ \A i \in 1 .. Len(stepsRun) : stepsRun'[i] = stepsRun[i]
  BY AppendProperties
<1>2. ASSUME NEW i \in 1 .. Len(stepsRun) PROVE Cell(i)' = Cell(i)
  <2> DEFINE E == {j \in 1 .. (i - 1) : stepsRun[j][1] = stepsRun[i][1]}
             F == {j \in 1 .. (i - 1) : stepsRun'[j][1] = stepsRun'[i][1]}
  <2>1. E = F /\ i - 1 \in Nat /\ E \subseteq 1 .. (i - 1)
    BY <1>1
  <2>2. /\ Before(i) = IF E = {} THEN {} ELSE stepsRun[Latest(E)][2]
        /\ Before(i)' = IF F = {} THEN {} ELSE stepsRun'[Latest(F)][2]
    BY DEF Before, Latest
  <2> HIDE DEF E, F
  <2>3. E # {} => Latest(E) \in E
    BY <2>1, LatestIn
  <2>5. E \subseteq 1 .. Len(stepsRun)
    BY <1>1, <2>1
  <2>4. Before(i)' = Before(i)
    BY <1>1, <2>1, <2>2, <2>3, <2>5
  <2> QED BY <1>1, <2>4 DEF Cell
<1>3. ASSUME NEW n \in Nat, n = Len(stepsRun) + 1 PROVE Before(n)' = LastOf(e[1])
  <2> DEFINE F == {j \in 1 .. (n - 1) : stepsRun'[j][1] = stepsRun'[n][1]}
  <2>1. F = StepsOf(e[1]) /\ F \subseteq 1 .. Len(stepsRun)
    BY <1>1, <1>3 DEF StepsOf
  <2>2. Before(n)' = IF F = {} THEN {} ELSE stepsRun'[Latest(F)][2]
    BY DEF Before, Latest
  <2>3. LastOf(e[1]) = IF F = {} THEN {} ELSE stepsRun[Latest(F)][2]
    BY <2>1 DEF LastOf
  <2> HIDE DEF F
  <2>4. F # {} => Latest(F) \in F
    BY <1>1, <2>1, LatestIn
  <2>5. F # {} => stepsRun'[Latest(F)] = stepsRun[Latest(F)]
    BY <1>1, <2>1, <2>4
  <2> QED BY <2>2, <2>3, <2>5
<1> QED BY <1>1, <1>2, <1>3

(* The last step of an object file after another step was added. *)
LEMMA LastAfter ==
  ASSUME stepsRun \in Seq(StepType), NEW e \in StepType, stepsRun' = Append(stepsRun, e), NEW o
  PROVE  LastOf(o)' = IF o = e[1] THEN e[2] ELSE LastOf(o)
<1> DEFINE n == Len(stepsRun) + 1
           F == {j \in 1 .. Len(stepsRun') : stepsRun'[j][1] = o}
<1>1. /\ Len(stepsRun) \in Nat /\ n \in Nat /\ Len(stepsRun') = n /\ stepsRun'[n] = e
      /\ \A i \in 1 .. Len(stepsRun) : stepsRun'[i] = stepsRun[i]
  BY CellStays
<1>2. LastOf(o)' = IF F = {} THEN {} ELSE stepsRun'[Latest(F)][2]
  BY DEF LastOf, StepsOf, Latest
<1> HIDE DEF n
<1>3. CASE o = e[1]
  <2>1. n \in F /\ \A j \in F : j \in Nat /\ j <= n
    BY <1>1, <1>3 DEF n
  <2>2. \A j \in F : (\A i \in F : i <= j) => j = n
    BY <1>1, <2>1
  <2> HIDE DEF F
  <2>3. Latest(F) = n
    BY <2>1, <2>2 DEF Latest
  <2> QED BY <1>1, <1>2, <1>3, <2>1, <2>3
<1>4. CASE o # e[1]
  <2>1. F = StepsOf(o) /\ F \subseteq 1 .. Len(stepsRun)
    BY <1>1, <1>4 DEF StepsOf, n
  <2> HIDE DEF F
  <2>2. F # {} => Latest(F) \in F
    BY <1>1, <2>1, LatestIn
  <2>3. F # {} => stepsRun'[Latest(F)] = stepsRun[Latest(F)]
    BY <1>1, <2>1, <2>2
  <2> QED BY <1>2, <1>4, <2>1, <2>3 DEF LastOf
<1> QED BY <1>3, <1>4

\* The invariant holds before the program starts.
LEMMA TrampolineInitInv == TrampolineInit => TrampolineInv
<1> SUFFICES ASSUME TrampolineInit PROVE TrampolineInv
  OBVIOUS
<1> USE DEF TrampolineInit
<1>1. mem \in MemoryType /\ serverMem \in MemoryType
  BY MapFacts DEF MemoryType
<1>2. TrampolineTypes
  BY <1>1, EmptySeq DEF TrampolineTypes, NoCount
<1>3. Len(stepsRun) = 0
  BY EmptySeq
<1>4. ASSUME NEW c \in MapCells PROVE trace[c] = Cardinality(InCell(c)) % CountMod
  <2>1. InCell(c) = {}
    BY <1>3 DEF InCell, LoggedSteps
  <2>2. Cardinality(InCell(c)) = 0
    BY <2>1, FS_EmptySet
  <2>3. 0 % CountMod = 0
    BY TrampolineAssumption, 0 = 0 * CountMod + 0
  <2> QED BY <2>2, <2>3 DEF NoCount
<1>5. OneSetUp /\ Remembered
  BY <1>3 DEF OneSetUp, Remembered, Consistent, Running
<1> QED BY <1>2, <1>4, <1>5 DEF TrampolineInv, CountsSteps

(* A step that is logged: its cell counts one more, and it is what its     *)
(* object file remembers next.                                             *)
LEMMA LogStep ==
  ASSUME TrampolineInv, Running, proc' = proc, NEW o \in Objects, NEW loc \in MapCells, NEW m \in MemoryType,
         m.area = [mem.area EXCEPT ![o] = TRUE], m.prev = mem.prev, m.failure = mem.failure, m.global,
         mem.area[o] \/ ~mem.failure[o], Store(m, o, loc), stepsRun' = Append(stepsRun, <<o, loc>>)
  PROVE  /\ mem' \in MemoryType /\ trace' \in [MapCells -> Nat] /\ stepsRun' \in Seq(StepType)
         /\ mem'.global /\ mem'.failure = mem.failure /\ \A p \in Objects : mem.area[p] => mem'.area[p]
         /\ mem'.area[o] /\ Remembered' /\ CountsSteps'
<1>1. /\ stepsRun \in Seq(StepType) /\ <<o, loc>> \in StepType /\ mem \in MemoryType
      /\ trace \in [MapCells -> Nat]
  BY DEF TrampolineInv, TrampolineTypes, StepType
<1>0. PICK n \in Nat : n = Len(stepsRun) + 1
  BY <1>1
<1>k. PICK k : k = Xor(loc, mem.prev[o])
  OBVIOUS
<1>2. /\ Len(stepsRun) \in Nat /\ Len(stepsRun') = n /\ stepsRun' \in Seq(StepType)
      /\ stepsRun'[n] = <<o, loc>> /\ n \in Nat
      /\ \A i \in 1 .. Len(stepsRun) : stepsRun'[i] = stepsRun[i] /\ Cell(i)' = Cell(i)
  BY <1>0, <1>1, CellStays
<1>3. Before(n)' = LastOf(o)
  <2>1. \A i \in Nat : i = Len(stepsRun) + 1 => Before(i)' = LastOf(<<o, loc>>[1])
    BY <1>1, CellStays
  <2> QED BY <1>0, <2>1
<1>4. /\ mem' \in MemoryType /\ mem'.area = [mem.area EXCEPT ![o] = TRUE] /\ mem'.failure = mem.failure
      /\ mem'.global /\ mem'.prev = [mem.prev EXCEPT ![o] = ShiftedRight(loc)]
  <2> DEFINE q == [m.prev EXCEPT ![o] = ShiftedRight(loc)]
  <2>1. mem' = [m EXCEPT !.prev = q]
    BY DEF Store, Stored, NextPrev
  <2>2. q \in [Objects -> MapCells]
    BY MapFacts DEF MemoryType
  <2> HIDE DEF q
  <2>3. mem' \in MemoryType /\ mem'.area = m.area /\ mem'.failure = m.failure /\ mem'.global = m.global /\ mem'.prev = q
    BY <2>1, <2>2 DEF MemoryType
  <2> QED BY <2>3 DEF q
<1>5. /\ k \in MapCells /\ trace' = [trace EXCEPT ![k] = (trace[k] + 1) % CountMod]
      /\ trace' \in [MapCells -> Nat]
  <2>1. k \in MapCells
    BY <1>1, <1>k, MapFacts DEF MemoryType
  <2>2. trace' = [trace EXCEPT ![k] = (trace[k] + 1) % CountMod]
    BY <1>k DEF Store, Counted
  <2>3. (trace[k] + 1) % CountMod \in Nat
    BY <1>1, <2>1, TrampolineAssumption
  <2> QED BY <1>1, <2>1, <2>2, <2>3
<1>6. /\ \A i \in 1 .. Len(stepsRun) : mem.area[stepsRun[i][1]] \/ mem.failure[stepsRun[i][1]]
      /\ \A p \in Objects : mem.prev[p] = IF mem.area[p] THEN ShiftedRight(LastOf(p)) ELSE {}
      /\ Consistent(mem)
  BY DEF TrampolineInv, Remembered
<1>7. \A i \in 1 .. Len(stepsRun) : stepsRun[i][1] \in Objects
  BY <1>1, BeforeIs
<1>8. \A i \in 1 .. Len(stepsRun) : mem'.area[stepsRun[i][1]] = mem.area[stepsRun[i][1]]
  <2> SUFFICES ASSUME NEW i \in 1 .. Len(stepsRun), NEW p, p = stepsRun[i][1] PROVE mem'.area[p] = mem.area[p]
    OBVIOUS
  <2>1. p \in Objects /\ (mem.area[p] \/ mem.failure[p])
    BY <1>6, <1>7
  <2>2. mem.area \in [Objects -> BOOLEAN]
    BY <1>1 DEF MemoryType
  <2>3. CASE p = o
    <3>1. mem.area[p] = TRUE
      BY <2>1, <2>2, <2>3
    <3>2. mem'.area[p] = TRUE
      BY <1>4, <2>2, <2>3
    <3> QED BY <3>1, <3>2
  <2>4. CASE p # o
    BY <1>4, <2>1, <2>2, <2>4
  <2> QED BY <2>3, <2>4
<1>9. LoggedSteps' = LoggedSteps \cup {n} /\ LoggedSteps \subseteq 1 .. Len(stepsRun)
  <2>1. mem'.area[stepsRun'[n][1]]
    BY <1>1, <1>2, <1>4 DEF MemoryType
  <2> QED BY <1>0, <1>2, <1>8, <2>1 DEF LoggedSteps
<1>10. mem.prev[o] = ShiftedRight(LastOf(o))
  <2>1. CASE mem.area[o]
    BY <1>6, <2>1
  <2>2. CASE ~mem.area[o]
    <3>1. StepsOf(o) = {}
      BY <1>6, <2>2 DEF StepsOf
    <3> QED BY <1>6, <2>2, <3>1, MapFacts DEF LastOf
  <2> QED BY <2>1, <2>2
<1>11. Cell(n)' = k
  <2>1. \A i \in Nat : Cell(i)' = Xor(stepsRun'[i][2], ShiftedRight(Before(i)'))
    BY DEF Cell, Xor, ShiftedRight
  <2> QED BY <1>2, <1>3, <1>10, <1>k, <2>1
<1>12. /\ InCell(k)' = InCell(k) \cup {n} /\ n \notin InCell(k)
       /\ \A c \in MapCells \ {k} : InCell(c)' = InCell(c)
  <2> DEFINE was == [i \in 1 .. Len(stepsRun) |-> Cell(i)]
  <2>1. \A c : InCell(c) = {i \in LoggedSteps : was[i] = c}
    BY <1>9 DEF InCell
  <2>2. \A c : InCell(c)' = {i \in LoggedSteps' : (Cell(i)') = c}
    BY DEF InCell
  <2>3. \A i \in LoggedSteps : Cell(i)' = was[i]
    BY <1>2, <1>9
  <2>4. n \notin LoggedSteps
    BY <1>0, <1>2, <1>9
  <2> HIDE DEF was
  <2> QED BY <1>9, <1>11, <2>1, <2>2, <2>3, <2>4
<1>13. CountsSteps'
  <2>1. \A c \in MapCells : trace[c] = Cardinality(InCell(c)) % CountMod
    BY DEF TrampolineInv, CountsSteps
  <2>2. \A c : InCell(c) \subseteq 1 .. Len(stepsRun)
    BY <1>9 DEF InCell
  <2>3. IsFiniteSet(1 .. Len(stepsRun))
    BY <1>2, FS_Interval
  <2>4. /\ Cardinality(InCell(k)) \in Nat
        /\ Cardinality(InCell(k) \cup {n}) = Cardinality(InCell(k)) + 1
    <3>1. IsFiniteSet(InCell(k))
      BY <2>2, <2>3, FS_Subset
    <3> QED BY <1>12, <3>1, FS_AddElement, FS_CardinalityType
  <2>5. trace'[k] = Cardinality(InCell(k)') % CountMod
    <3>1. trace'[k] = (trace[k] + 1) % CountMod
      BY <1>1, <1>5
    <3>2. trace[k] = Cardinality(InCell(k)) % CountMod
      BY <1>5, <2>1
    <3> QED BY <1>12, <2>4, <3>1, <3>2, CountUp
  <2>6. ASSUME NEW c \in MapCells \ {k} PROVE trace'[c] = Cardinality(InCell(c)') % CountMod
    BY <1>1, <1>5, <1>12, <2>1, <2>6
  <2> QED BY <2>5, <2>6 DEF CountsSteps
<1>14. Remembered'
  <2>1. Consistent(mem)'
    BY <1>1, <1>4, <1>6 DEF Consistent, MemoryType
  <2>2. ASSUME NEW i \in 1 .. Len(stepsRun') PROVE mem'.area[stepsRun'[i][1]] \/ mem'.failure[stepsRun'[i][1]]
    <3>1. CASE i = n
      BY <1>1, <1>2, <1>4, <3>1 DEF MemoryType
    <3>2. CASE i # n
      <4>1. i \in 1 .. Len(stepsRun)
        BY <1>0, <1>2, <2>2, <3>2
      <4> QED BY <1>2, <1>4, <1>6, <1>8, <4>1
    <3> QED BY <3>1, <3>2
  <2>3. ASSUME NEW p \in Objects
        PROVE  mem'.prev[p] = IF mem'.area[p] THEN ShiftedRight(LastOf(p)') ELSE {}
    <3>1. LastOf(p)' = IF p = o THEN loc ELSE LastOf(p)
      BY <1>1, LastAfter
    <3>2. mem.prev \in [Objects -> MapCells] /\ mem.area \in [Objects -> BOOLEAN]
      BY <1>1 DEF MemoryType
    <3>3. CASE p = o
      BY <1>4, <3>1, <3>2, <3>3
    <3>4. CASE p # o
      BY <1>4, <1>6, <3>1, <3>2, <3>4
    <3> QED BY <3>3, <3>4
  <2>4. \A p \in Objects : mem'.prev[p] = IF mem'.area[p] THEN ShiftedRight(LastOf(p))' ELSE {}
    BY <2>3 DEF ShiftedRight
  <2> QED BY <2>1, <2>2, <2>4 DEF Remembered
<1>15. mem'.area[o] /\ \A p \in Objects : mem.area[p] => mem'.area[p]
  BY <1>1, <1>4 DEF MemoryType
<1> QED BY <1>2, <1>4, <1>5, <1>13, <1>14, <1>15

(* A call of __afl_maybe_log: logged, given up, or the fork server starts. *)
LEMMA MaybeLogStep ==
  ASSUME TrampolineInv, NEW o \in Objects, NEW loc \in MapCells, MaybeLog(o, loc)
  PROVE  TrampolineInv'
<1>1. /\ proc \in {"program", "child"} /\ Running /\ stepsRun' = Append(stepsRun, <<o, loc>>)
      /\ serverMem' = serverMem /\ mem \in MemoryType /\ serverMem \in MemoryType
      /\ trace \in [MapCells -> Nat] /\ stepsRun \in Seq(StepType) /\ <<o, loc>> \in StepType
      /\ getenvs \in [Objects -> Nat] /\ helloes \in Nat
      /\ proc = "child" => first \in StepType
  BY DEF MaybeLog, Running, TrampolineInv, TrampolineTypes, StepType
<1>2. /\ helloes <= 1 /\ (proc = "program" => helloes = 0)
      /\ proc = "child" => Untouched(serverMem) /\ mem.global
      /\ \A p \in Objects : /\ getenvs[p] <= 1
                            /\ proc = "program" /\ getenvs[p] = 1 => mem.area[p] \/ mem.failure[p]
      /\ Consistent(mem)
      /\ \A i \in 1 .. Len(stepsRun) : mem.area[stepsRun[i][1]] \/ mem.failure[stepsRun[i][1]]
      /\ \A p \in Objects : mem.prev[p] = IF mem.area[p] THEN ShiftedRight(LastOf(p)) ELSE {}
  BY <1>1 DEF TrampolineInv, OneSetUp, Remembered
<1> DEFINE withMap == [mem.area EXCEPT ![o] = TRUE]
           attached == [mem EXCEPT !.area = [@ EXCEPT ![o] = TRUE], !.global = TRUE]
<1>3. /\ attached \in MemoryType /\ attached.area = withMap /\ attached.prev = mem.prev
      /\ attached.failure = mem.failure /\ attached.global = TRUE
  <2>1. withMap \in [Objects -> BOOLEAN]
    BY <1>1 DEF MemoryType
  <2>2. attached = [mem EXCEPT !.area = withMap, !.global = TRUE]
    OBVIOUS
  <2> HIDE DEF withMap, attached
  <2> QED BY <1>1, <2>1, <2>2 DEF MemoryType
\* Whatever is logged: the rest of the invariant follows.
<1>4. ASSUME NEW m \in MemoryType, m.area = withMap, m.prev = mem.prev, m.failure = mem.failure, m.global,
             mem.area[o] \/ ~mem.failure[o], Store(m, o, loc), UNCHANGED <<proc, first, helloes>>,
             \/ getenvs' = getenvs
             \/ proc = "program" /\ ~mem.area[o] /\ ~mem.failure[o] /\ getenvs' = [getenvs EXCEPT ![o] = @ + 1]
      PROVE  TrampolineInv'
  <2>1. /\ mem' \in MemoryType /\ trace' \in [MapCells -> Nat] /\ stepsRun' \in Seq(StepType)
        /\ mem'.global /\ mem'.failure = mem.failure /\ \A p \in Objects : mem.area[p] => mem'.area[p]
        /\ mem'.area[o] /\ Remembered' /\ CountsSteps'
    BY <1>1, <1>4, LogStep
  <2>2. getenvs' \in [Objects -> Nat]
    BY <1>1, <1>4
  <2>3. TrampolineTypes'
    BY <1>1, <1>4, <2>1, <2>2 DEF TrampolineTypes
  <2>4. ASSUME NEW p \in Objects
        PROVE  getenvs'[p] <= 1 /\ (proc = "program" /\ getenvs'[p] = 1 => mem'.area[p] \/ mem'.failure[p])
    <3>1. CASE getenvs' = getenvs
      BY <1>2, <2>1, <3>1
    <3>2. CASE proc = "program" /\ ~mem.area[o] /\ ~mem.failure[o] /\ getenvs' = [getenvs EXCEPT ![o] = @ + 1]
      <4>1. getenvs[o] = 0
        BY <1>1, <1>2, <3>2
      <4> QED BY <1>1, <1>2, <2>1, <3>2, <4>1
    <3> QED BY <1>4, <3>1, <3>2
  <2>5. OneSetUp'
    BY <1>1, <1>2, <1>4, <2>1, <2>4 DEF OneSetUp, Untouched, Consistent
  <2> QED BY <2>1, <2>3, <2>5 DEF TrampolineInv
<1>5. CASE mem.area[o] \/ (~mem.failure[o] /\ mem.global)
  <2> DEFINE m == [mem EXCEPT !.area = [@ EXCEPT ![o] = TRUE]]
  <2>1. /\ m \in MemoryType /\ m.area = withMap /\ m.prev = mem.prev /\ m.failure = mem.failure
        /\ m.global = mem.global
    <3>1. withMap \in [Objects -> BOOLEAN]
      BY <1>1 DEF MemoryType
    <3>2. m = [mem EXCEPT !.area = withMap]
      OBVIOUS
    <3> HIDE DEF withMap, m
    <3> QED BY <1>1, <3>1, <3>2 DEF MemoryType
  <2>2. mem.global
    BY <1>2, <1>5 DEF Consistent
  <2>3. Store(m, o, loc) /\ UNCHANGED <<proc, first, helloes, getenvs>>
    BY <1>2, <1>5 DEF MaybeLog, Consistent
  <2> HIDE DEF m, withMap
  <2> QED BY <1>4, <1>5, <2>1, <2>2, <2>3
<1>6. ASSUME \/ /\ ~mem.area[o] /\ mem.failure[o]
                /\ UNCHANGED <<proc, mem, trace, first, helloes, getenvs>>
             \/ /\ ~mem.area[o] /\ ~mem.failure[o] /\ ~mem.global
                /\ getenvs' = [getenvs EXCEPT ![o] = @ + 1]
                /\ mem' = [mem EXCEPT !.failure = [@ EXCEPT ![o] = TRUE]]
                /\ UNCHANGED <<proc, trace, first, helloes>>
      PROVE  TrampolineInv'
  <2>1. /\ mem' \in MemoryType /\ mem'.area = mem.area /\ mem'.prev = mem.prev /\ mem'.global = mem.global
        /\ mem'.failure = [mem.failure EXCEPT ![o] = TRUE]
    <3>1. CASE mem' = mem
      BY <1>1, <1>6, <3>1 DEF MemoryType
    <3>2. CASE mem' = [mem EXCEPT !.failure = [@ EXCEPT ![o] = TRUE]]
      <4> DEFINE f == [mem.failure EXCEPT ![o] = TRUE]
      <4>1. f \in [Objects -> BOOLEAN] /\ mem' = [mem EXCEPT !.failure = f]
        BY <1>1, <3>2 DEF MemoryType
      <4> HIDE DEF f
      <4>2. /\ mem' \in MemoryType /\ mem'.area = mem.area /\ mem'.prev = mem.prev
            /\ mem'.global = mem.global /\ mem'.failure = f
        BY <1>1, <4>1 DEF MemoryType
      <4> QED BY <4>2 DEF f
    <3> QED BY <1>6, <3>1, <3>2
  <2>2. /\ ~mem.area[o] /\ trace' = trace /\ helloes' = helloes /\ proc' = proc /\ first' = first
        /\ mem'.failure[o] /\ \A p \in Objects : p # o => mem'.failure[p] = mem.failure[p]
    BY <1>1, <1>6, <2>1 DEF MemoryType
  <2>3. \/ getenvs' = getenvs
        \/ proc = "program" /\ ~mem.failure[o] /\ getenvs' = [getenvs EXCEPT ![o] = @ + 1]
    BY <1>1, <1>2, <1>6
  <2>4. getenvs' \in [Objects -> Nat]
    BY <1>1, <2>3
  <2>0. PICK n \in Nat : n = Len(stepsRun) + 1
    BY <1>1
  <2>5. /\ Len(stepsRun) \in Nat /\ Len(stepsRun') = n /\ stepsRun' \in Seq(StepType)
        /\ stepsRun'[n] = <<o, loc>>
        /\ \A i \in 1 .. Len(stepsRun) : stepsRun'[i] = stepsRun[i] /\ Cell(i)' = Cell(i)
    BY <1>1, <2>0, CellStays
  <2>6. TrampolineTypes'
    BY <1>1, <2>1, <2>2, <2>4, <2>5 DEF TrampolineTypes
  <2>7. ASSUME NEW p \in Objects
        PROVE  getenvs'[p] <= 1 /\ (proc = "program" /\ getenvs'[p] = 1 => mem'.area[p] \/ mem'.failure[p])
    <3>1. CASE getenvs' = getenvs
      BY <1>2, <2>1, <2>2, <3>1
    <3>2. CASE proc = "program" /\ ~mem.failure[o] /\ getenvs' = [getenvs EXCEPT ![o] = @ + 1]
      <4>1. getenvs[o] = 0
        BY <1>1, <1>2, <2>2, <3>2
      <4> QED BY <1>1, <1>2, <2>1, <2>2, <3>2, <4>1
    <3> QED BY <2>3, <3>1, <3>2
  <2>8. OneSetUp'
    BY <1>1, <1>2, <2>1, <2>2, <2>7 DEF OneSetUp, Untouched, Consistent
  <2>9. Remembered'
    <3>1. Consistent(mem)'
      BY <1>2, <2>1, <2>2 DEF Consistent
    <3>2. ASSUME NEW i \in 1 .. Len(stepsRun') PROVE mem'.area[stepsRun'[i][1]] \/ mem'.failure[stepsRun'[i][1]]
      <4>1. CASE i = n
        BY <2>2, <2>5, <4>1
      <4>2. CASE i # n
        <5>1. i \in 1 .. Len(stepsRun) /\ stepsRun[i][1] \in Objects
          BY <1>1, <2>0, <2>5, <3>2, <4>2, BeforeIs
        <5> QED BY <1>2, <2>1, <2>2, <2>5, <5>1
      <4> QED BY <4>1, <4>2
    <3>3. \A p \in Objects : mem'.prev[p] = IF mem'.area[p] THEN ShiftedRight(LastOf(p)') ELSE {}
      <4>1. \A p \in Objects : mem.area[p] => LastOf(p)' = LastOf(p)
        BY <1>1, <2>2, LastAfter
      <4> QED BY <1>2, <2>1, <4>1
    <3>4. \A p \in Objects : mem'.prev[p] = IF mem'.area[p] THEN ShiftedRight(LastOf(p))' ELSE {}
      BY <3>3 DEF ShiftedRight
    <3> QED BY <3>1, <3>2, <3>4 DEF Remembered
  <2>10. CountsSteps'
    <3>1. LoggedSteps' = LoggedSteps /\ LoggedSteps \subseteq 1 .. Len(stepsRun)
      BY <2>0, <2>1, <2>2, <2>5 DEF LoggedSteps
    <3>2. \A c : InCell(c)' = InCell(c)
      <4> DEFINE was == [i \in 1 .. Len(stepsRun) |-> Cell(i)]
      <4>1. \A c : InCell(c) = {i \in LoggedSteps : was[i] = c}
        BY <3>1 DEF InCell
      <4>2. \A c : InCell(c)' = {i \in LoggedSteps' : (Cell(i)') = c}
        BY DEF InCell
      <4>3. \A i \in LoggedSteps : Cell(i)' = was[i]
        BY <2>5, <3>1
      <4> HIDE DEF was
      <4> QED BY <3>1, <4>1, <4>2, <4>3
    <3> QED BY <1>1, <2>2, <3>2 DEF CountsSteps, TrampolineInv
  <2> QED BY <2>6, <2>8, <2>9, <2>10 DEF TrampolineInv
\* The first trampoline of a program that the fuzzer started.
<1>7. ASSUME ~mem.area[o], ~mem.failure[o], ~mem.global, getenvs' = [getenvs EXCEPT ![o] = @ + 1],
             mem' = attached, proc' = "server", first' = <<o, loc>>, helloes' = helloes + 1, trace' = trace
      PROVE  TrampolineInv'
  <2>1. proc = "program" /\ helloes = 0
    BY <1>1, <1>2, <1>7
  <2>2. \A p \in Objects : ~mem.area[p] /\ mem.prev[p] = {}
    BY <1>2, <1>7 DEF Consistent
  <2>3. stepsRun' \in Seq(StepType) /\ getenvs' \in [Objects -> Nat]
    BY <1>1, <1>7, AppendProperties
  <2>4. TrampolineTypes'
    BY <1>1, <1>3, <1>7, <2>1, <2>3 DEF TrampolineTypes
  <2>5. \A p \in Objects : withMap[p] <=> p = o
    BY <1>1, <2>2 DEF MemoryType
  <2>6. Untouched(mem)'
    <3> HIDE DEF attached, withMap
    <3> QED BY <1>3, <1>7, <2>2, <2>5 DEF Untouched, Consistent
  <2>7. \A p \in Objects : getenvs'[p] <= 1
    <3>1. getenvs[o] = 0
      BY <1>1, <1>2, <1>7, <2>1
    <3> QED BY <1>1, <1>2, <1>7, <3>1
  <2>8. OneSetUp'
    BY <1>7, <2>1, <2>6, <2>7 DEF OneSetUp
  <2> QED BY <1>7, <2>4, <2>8 DEF TrampolineInv, Remembered, CountsSteps, Running
<1>8. CASE ~mem.area[o] /\ ~mem.failure[o] /\ ~mem.global
  <2>1. proc = "program"
    BY <1>1, <1>2, <1>8
  <2>2. CASE shmId /\ canAttach /\ ~fds
    <3>1. /\ Store(attached, o, loc) /\ UNCHANGED <<proc, first, helloes>>
          /\ getenvs' = [getenvs EXCEPT ![o] = @ + 1]
      BY <1>8, <2>2 DEF MaybeLog
    <3> HIDE DEF attached, withMap
    <3> QED BY <1>3, <1>4, <1>8, <2>1, <3>1
  <2>3. CASE shmId /\ canAttach /\ fds
    <3>1. /\ getenvs' = [getenvs EXCEPT ![o] = @ + 1]
          /\ mem' = attached /\ proc' = "server" /\ first' = <<o, loc>> /\ helloes' = helloes + 1
          /\ trace' = trace
      BY <1>8, <2>3 DEF MaybeLog
    <3> HIDE DEF attached, withMap
    <3> QED BY <1>7, <1>8, <3>1
  <2>4. CASE ~shmId \/ ~canAttach
    <3>1. /\ getenvs' = [getenvs EXCEPT ![o] = @ + 1]
          /\ mem' = [mem EXCEPT !.failure = [@ EXCEPT ![o] = TRUE]]
          /\ UNCHANGED <<proc, trace, first, helloes>>
      BY <1>8, <2>4 DEF MaybeLog
    <3> HIDE DEF attached, withMap
    <3> QED BY <1>6, <1>8, <3>1
  <2> QED BY <2>2, <2>3, <2>4
<1>9. CASE ~mem.area[o] /\ mem.failure[o]
  <2>1. UNCHANGED <<proc, mem, trace, first, helloes, getenvs>>
    BY <1>9 DEF MaybeLog
  <2> QED BY <1>6, <1>9, <2>1
<1> QED BY <1>5, <1>8, <1>9

(* The fork server's child begins with the step that its parent stopped in. *)
LEMMA ForkResumeStep ==
  ASSUME TrampolineInv, ForkResume
  PROVE  TrampolineInv'
<1>1. PICK o \in Objects, loc \in MapCells : first = <<o, loc>>
  BY DEF TrampolineInv, TrampolineTypes, ForkResume, StepType
<1>2. /\ proc = "server" /\ proc' = "child" /\ serverMem' = mem /\ stepsRun' = <<<<o, loc>>>>
      /\ first' = first /\ helloes' = helloes /\ getenvs' = getenvs
      /\ mem' = Stored(mem, o, loc) /\ trace' = [NoCount EXCEPT ![Xor(loc, mem.prev[o])] = 1]
      /\ mem \in MemoryType /\ Untouched(mem) /\ mem.prev[o] = {}
  BY <1>1 DEF ForkResume, TrampolineInv, TrampolineTypes, OneSetUp, Untouched
<1>3. Xor(loc, mem.prev[o]) = loc
  BY <1>2 DEF Xor
<1>4. /\ mem' \in MemoryType /\ mem'.area = mem.area /\ mem'.failure = mem.failure /\ mem'.global = mem.global
      /\ mem'.prev = [mem.prev EXCEPT ![o] = ShiftedRight(loc)]
  <2> DEFINE q == [mem.prev EXCEPT ![o] = ShiftedRight(loc)]
  <2>1. mem' = [mem EXCEPT !.prev = q]
    BY <1>2 DEF Stored, NextPrev
  <2>2. q \in [Objects -> MapCells]
    BY <1>2, MapFacts DEF MemoryType
  <2> HIDE DEF q
  <2>3. /\ mem' \in MemoryType /\ mem'.area = mem.area /\ mem'.failure = mem.failure
        /\ mem'.global = mem.global /\ mem'.prev = q
    BY <1>2, <2>1, <2>2 DEF MemoryType
  <2> QED BY <2>3 DEF q
<1>5. /\ stepsRun' \in Seq(StepType) /\ Len(stepsRun') = 1 /\ stepsRun'[1] = <<o, loc>>
  BY <1>2 DEF StepType
<1>6. trace' \in [MapCells -> Nat] /\ trace' = [NoCount EXCEPT ![loc] = 1]
  BY <1>2, <1>3 DEF NoCount
<1>7. TrampolineTypes'
  BY <1>1, <1>2, <1>4, <1>5, <1>6 DEF TrampolineInv, TrampolineTypes, StepType
<1>8. OneSetUp'
  <2>1. Untouched(serverMem)'
    BY <1>2 DEF Untouched, Consistent
  <2> QED BY <1>2, <1>4, <2>1 DEF TrampolineInv, OneSetUp, Untouched
<1>9. Remembered'
  <2>1. Consistent(mem)' /\ mem.area[o]
    BY <1>1, <1>2, <1>4 DEF Untouched, Consistent
  <2>2. \A p : LastOf(p)' = IF p = o THEN loc ELSE {}
    <3> SUFFICES ASSUME NEW p PROVE LastOf(p)' = IF p = o THEN loc ELSE {}
      OBVIOUS
    <3> DEFINE F == {j \in 1 .. Len(stepsRun') : stepsRun'[j][1] = p}
    <3>1. LastOf(p)' = IF F = {} THEN {} ELSE stepsRun'[Latest(F)][2]
      BY DEF LastOf, StepsOf, Latest
    <3>2. F = IF p = o THEN {1} ELSE {}
      BY <1>5
    <3>3. Latest({1}) = 1
      BY DEF Latest
    <3> HIDE DEF F
    <3>4. CASE p = o
      BY <1>5, <3>1, <3>2, <3>3, <3>4
    <3>5. CASE p # o
      BY <3>1, <3>2, <3>5
    <3> QED BY <3>4, <3>5
  <2>3. ASSUME NEW p \in Objects
        PROVE  mem'.prev[p] = IF mem'.area[p] THEN ShiftedRight(LastOf(p)') ELSE {}
    <3>1. mem.prev \in [Objects -> MapCells] /\ mem.prev[p] = {}
      BY <1>2 DEF MemoryType, Untouched
    <3>2. CASE p = o
      BY <1>4, <2>1, <2>2, <3>1, <3>2
    <3>3. CASE p # o
      BY <1>4, <2>2, <3>1, <3>3, MapFacts
    <3> QED BY <3>2, <3>3
  <2>4. \A p \in Objects : mem'.prev[p] = IF mem'.area[p] THEN ShiftedRight(LastOf(p))' ELSE {}
    BY <2>3 DEF ShiftedRight
  <2>5. \A i \in 1 .. Len(stepsRun') : mem'.area[stepsRun'[i][1]]
    BY <1>4, <1>5, <2>1
  <2> QED BY <2>1, <2>4, <2>5 DEF Remembered
<1>10. CountsSteps'
  <2>1. mem'.area[o]
    BY <1>1, <1>2, <1>4 DEF Untouched
  <2>2. LoggedSteps' = {1}
    BY <1>5, <2>1 DEF LoggedSteps
  <2>3. Cell(1)' = loc
    <3>1. Before(1)' = {}
      BY DEF Before
    <3>2. \A i \in Nat : Cell(i)' = Xor(stepsRun'[i][2], ShiftedRight(Before(i)'))
      BY DEF Cell, Xor, ShiftedRight
    <3>3. Xor(loc, {}) = loc
      BY DEF Xor
    <3>4. Cell(1)' = Xor(stepsRun'[1][2], ShiftedRight(Before(1)'))
      BY <3>2
    <3>5. stepsRun'[1][2] = loc
      BY <1>5
    <3>6. ShiftedRight(Before(1)') = {}
      BY <3>1, MapFacts
    <3>7. Cell(1)' = Xor(loc, {})
      BY <3>4, <3>5, <3>6
    <3> QED BY <3>3, <3>7
  <2>4. \A c : InCell(c)' = {i \in {1} : (Cell(i)') = c}
    BY <2>2 DEF InCell
  <2>5. \A c : InCell(c)' = IF c = loc THEN {1} ELSE {}
    BY <2>3, <2>4
  <2>6. Cardinality({1}) = 1 /\ Cardinality({}) = 0
    BY FS_Singleton, FS_EmptySet
  <2>7. 1 % CountMod = 1 /\ 0 % CountMod = 0
    BY TrampolineAssumption, 0 = 0 * CountMod + 0, 1 = 0 * CountMod + 1
  <2>8. \A c \in MapCells : trace'[c] = IF c = loc THEN 1 ELSE 0
    BY <1>6 DEF NoCount
  <2> QED BY <2>5, <2>6, <2>7, <2>8 DEF CountsSteps
<1> QED BY <1>7, <1>8, <1>9, <1>10 DEF TrampolineInv

\* Every step of the instrumented program keeps the invariant.
LEMMA TrampolineStepInv == TrampolineInv /\ [TrampolineNext]_tVars => TrampolineInv'
<1> SUFFICES ASSUME TrampolineInv, [TrampolineNext]_tVars PROVE TrampolineInv'
  OBVIOUS
<1>1. ASSUME NEW o \in Objects, NEW loc \in MapCells, MaybeLog(o, loc) PROVE TrampolineInv'
  BY <1>1, MaybeLogStep
<1>2. CASE UNCHANGED <<proc, mem, serverMem, first, trace, stepsRun, helloes, getenvs>>
  <2>1. TrampolineTypes' /\ OneSetUp'
    BY <1>2 DEF TrampolineInv, TrampolineTypes, OneSetUp, Untouched, Consistent
  <2>2. Remembered'
    <3>1. \A p : LastOf(p)' = LastOf(p)
      BY <1>2 DEF LastOf, StepsOf, Latest
    <3>2. \A p : ShiftedRight(LastOf(p))' = ShiftedRight(LastOf(p))
      BY <3>1 DEF ShiftedRight
    <3> QED BY <1>2, <3>2 DEF TrampolineInv, Remembered, Running, Consistent
  <2>3. CountsSteps'
    <3>1. \A i : Before(i)' = Before(i)
      BY <1>2 DEF Before, Latest
    <3>2. \A i : Cell(i)' = Cell(i)
      BY <1>2, <3>1 DEF Cell, Xor, ShiftedRight
    <3>3. LoggedSteps' = LoggedSteps
      BY <1>2 DEF LoggedSteps
    <3>4. \A c : InCell(c)' = InCell(c)
      BY <3>2, <3>3 DEF InCell
    <3> QED BY <1>2, <3>4 DEF TrampolineInv, CountsSteps, Running
  <2> QED BY <2>1, <2>2, <2>3 DEF TrampolineInv
<1>3. CASE AttachChanges
  BY <1>2, <1>3 DEF AttachChanges
<1>4. CASE ForkResume
  BY <1>4, ForkResumeStep
<1>5. CASE ChildEnds
  <2>1. /\ proc = "child" /\ proc' = "server" /\ mem' = serverMem /\ stepsRun' = <<>>
        /\ UNCHANGED <<serverMem, first, trace, helloes, getenvs>>
    BY <1>5 DEF ChildEnds
  <2>2. TrampolineTypes'
    BY <2>1, EmptySeq DEF TrampolineInv, TrampolineTypes
  <2>3. Untouched(mem)'
    BY <2>1 DEF TrampolineInv, OneSetUp, Untouched, Consistent
  <2>4. OneSetUp'
    BY <2>1, <2>3 DEF TrampolineInv, OneSetUp
  <2> QED BY <2>1, <2>2, <2>4 DEF TrampolineInv, Remembered, CountsSteps, Running
<1>6. CASE ServerDies
  <2>1. /\ proc = "server" /\ proc' = "dead"
        /\ UNCHANGED <<mem, serverMem, first, trace, stepsRun, helloes, getenvs>>
    BY <1>6 DEF ServerDies
  <2>2. TrampolineTypes' /\ OneSetUp'
    BY <2>1 DEF TrampolineInv, TrampolineTypes, OneSetUp
  <2> QED BY <2>1, <2>2 DEF TrampolineInv, Remembered, CountsSteps, Running
<1>7. CASE UNCHANGED tVars
  BY <1>2, <1>7 DEF tVars
<1> QED BY <1>1, <1>3, <1>4, <1>5, <1>6, <1>7 DEF TrampolineNext

(* For any number of object files, bits of a location, calls and runs of    *)
(* the fork server: the map of a process counts its own steps and no        *)
(* others, a step and the way back are told apart, and what sets up runs    *)
(* once.                                                                    *)
THEOREM TraceIsStepsHolds == TrampolineSpec => []TraceIsSteps
<1>1. TrampolineInv => TraceIsSteps
  <2> SUFFICES ASSUME TrampolineInv PROVE TraceIsSteps
    OBVIOUS
  <2>1. stepsRun \in Seq(StepType)
    BY DEF TrampolineInv, TrampolineTypes
  <2>2. ASSUME NEW i \in 1 .. Len(stepsRun), NEW j \in 1 .. Len(stepsRun), Before(i) # stepsRun[i][2],
               stepsRun[j][2] = Before(i), Before(j) = stepsRun[i][2]
        PROVE  Cell(i) # Cell(j)
    <3>1. Before(i) \in MapCells /\ stepsRun[i][2] \in MapCells
      BY <2>1, BeforeIs
    <3>2. Xor(stepsRun[i][2], ShiftedRight(Before(i))) # Xor(Before(i), ShiftedRight(stepsRun[i][2]))
      BY <2>2, <3>1, ThereAndBack
    <3> QED BY <2>2, <3>2 DEF Cell
  <2>3. Running => \A c \in MapCells : trace[c] = Cardinality({i \in LoggedSteps : Cell(i) = c}) % CountMod
    BY DEF TrampolineInv, CountsSteps, InCell
  <2>4. helloes <= 1 /\ \A o \in Objects : getenvs[o] <= 1
    BY DEF TrampolineInv, OneSetUp
  <2> QED BY <2>2, <2>3, <2>4 DEF TraceIsSteps, Running
<1> QED BY <1>1, TrampolineInitInv, TrampolineStepInv, PTL DEF TrampolineSpec
=============================================================================
