----------------------------- MODULE FilesProofs -----------------------------
(***************************************************************************)
(* The programs that work on the contents of a file or an array, for all   *)
(* contents: what the run-length coder decodes is what it coded, the       *)
(* threads of the prime queue find each prime as often as it is in the     *)
(* file, the pipe of the Caesar text hands on what was written to it, and  *)
(* the merge sort leaves the elements it was given, in ascending order.    *)
(***************************************************************************)
EXTENDS Rle, PrimeQueue, Caesar, Sort, SumProofs, SequenceTheorems

-----------------------------------------------------------------------------
(* Induction up to a number, and functions that are defined by it *)

LEMMA UpTo ==
    ASSUME NEW n \in Nat, NEW Good, 0 \in Good, \A m \in 0 .. n - 1 : m \in Good => m + 1 \in Good
    PROVE  0 .. n \subseteq Good
<1> DEFINE S == 1 .. n
           Fine == {T \in SUBSET S : \A m \in 0 .. n : T = 1 .. m => m \in Good}
<1>1. IsFiniteSet(S) BY FS_Interval
<1>2. ASSUME NEW T \in SUBSET S, \A U \in SUBSET T : U # T => U \in Fine PROVE T \in Fine
  <2> SUFFICES ASSUME NEW m \in 0 .. n, T = 1 .. m PROVE m \in Good OBVIOUS
  <2>1. CASE m = 0 BY <2>1
  <2>2. CASE m # 0
    <3>1. m - 1 \in 0 .. n - 1 /\ m - 1 \in 0 .. n /\ (m - 1) + 1 = m BY <2>2
    <3>2. m \in T /\ m \notin 1 .. (m - 1) /\ 1 .. (m - 1) \subseteq T BY <2>2
    <3>3. 1 .. (m - 1) \in Fine BY <1>2, <3>2
    <3>4. m - 1 \in Good BY <3>1, <3>3
    <3> QED BY <3>1, <3>4
  <2> QED BY <2>1, <2>2
<1> HIDE DEF Fine, S
<1>3. SUBSET S \subseteq Fine BY <1>1, <1>2, SubsetInduction
<1>4. ASSUME NEW m \in 0 .. n PROVE m \in Good
  <2>1. 1 .. m \in SUBSET S BY DEF S
  <2>2. 1 .. m \in Fine BY <1>3, <2>1
  <2> QED BY <2>2 DEF Fine
<1> QED BY <1>4

\* g[1] is first, and each further g[i] is what next[i] makes of the one before.
StepByStep(g, n, R, first, next) ==
    g \in [1 .. n -> R] /\ \A i \in 1 .. n : g[i] = IF i = 1 THEN first ELSE next[i][g[i - 1]]

LEMMA StepByStepExists ==
    ASSUME NEW n \in Nat, NEW R, NEW first \in R, NEW next, \A i \in 1 .. n, x \in R : next[i][x] \in R
    PROVE  \E g : StepByStep(g, n, R, first, next)
<1> DEFINE Good == {m \in 0 .. n : \E g : StepByStep(g, m, R, first, next)}
<1>1. 0 \in Good
  <2>1. StepByStep([i \in 1 .. 0 |-> first], 0, R, first, next) BY DEF StepByStep
  <2> QED BY <2>1
<1>2. ASSUME NEW m \in 0 .. n - 1, m \in Good PROVE m + 1 \in Good
  <2>1. PICK g : StepByStep(g, m, R, first, next) BY <1>2
  <2> DEFINE h == [i \in 1 .. m + 1 |-> IF i <= m THEN g[i] ELSE IF m = 0 THEN first ELSE next[m + 1][g[m]]]
  <2>2. ASSUME NEW i \in 1 .. m + 1
        PROVE  h[i] \in R /\ h[i] = IF i = 1 THEN first ELSE next[i][h[i - 1]]
    <3>1. CASE i <= m
      <4>1. i \in 1 .. m /\ h[i] = g[i] BY <3>1
      <4>2. g[i] \in R /\ g[i] = IF i = 1 THEN first ELSE next[i][g[i - 1]] BY <2>1, <4>1 DEF StepByStep
      <4>3. i # 1 => h[i - 1] = g[i - 1] BY <3>1
      <4> QED BY <4>1, <4>2, <4>3
    <3>2. CASE i = m + 1
      <4>1. CASE m = 0 BY <3>2, <4>1
      <4>2. CASE m # 0
        <5>1. h[i] = next[i][g[m]] /\ h[i - 1] = g[m] /\ i # 1 BY <3>2, <4>2
        <5>2. m \in 1 .. m BY <4>2
        <5>3. g[m] \in R BY <2>1, <5>2 DEF StepByStep
        <5>4. i \in 1 .. n BY <3>2
        <5> QED BY <5>1, <5>3, <5>4
      <4> QED BY <4>1, <4>2
    <3> QED BY <3>1, <3>2
  <2>3. h \in [1 .. m + 1 -> R] BY <2>2
  <2>4. DOMAIN h = 1 .. m + 1 OBVIOUS
  <2> HIDE DEF h
  <2>5. StepByStep(h, m + 1, R, first, next) BY <2>2, <2>3 DEF StepByStep
  <2>6. m + 1 \in 0 .. n OBVIOUS
  <2> QED BY <2>5, <2>6
<1> HIDE DEF Good
<1>3. 0 .. n \subseteq Good BY <1>1, <1>2, UpTo
<1>4. n \in Good BY <1>3
<1> QED BY <1>4 DEF Good

LEMMA StepByStepUnique ==
    ASSUME NEW n \in Nat, NEW m \in 0 .. n, NEW R, NEW first, NEW next, NEW g, StepByStep(g, n, R, first, next),
           NEW Q, NEW other, \A i \in 1 .. m, x \in R : other[i][x] = next[i][x],
           NEW h, StepByStep(h, m, Q, first, other)
    PROVE  \A i \in 1 .. m : h[i] = g[i]
<1> DEFINE Good == {k \in 0 .. m : k = 0 \/ h[k] = g[k]}
<1>1. 0 \in Good OBVIOUS
<1>2. ASSUME NEW k \in 0 .. m - 1, k \in Good PROVE k + 1 \in Good
  <2>1. k + 1 \in 1 .. m /\ k + 1 \in 1 .. n /\ k + 1 \in 0 .. m OBVIOUS
  <2>2. /\ h[k + 1] = IF k + 1 = 1 THEN first ELSE other[k + 1][h[(k + 1) - 1]]
        /\ g[k + 1] = IF k + 1 = 1 THEN first ELSE next[k + 1][g[(k + 1) - 1]]
    BY <2>1 DEF StepByStep
  <2>3. CASE k = 0 BY <2>1, <2>2, <2>3
  <2>4. CASE k # 0
    <3>1. (k + 1) - 1 = k /\ k + 1 # 1 /\ k \in 1 .. n BY <2>4
    <3>2. h[k] = g[k] BY <1>2, <2>4
    <3>3. g[k] \in R BY <3>1 DEF StepByStep
    <3>4. other[k + 1][g[k]] = next[k + 1][g[k]] BY <2>1, <3>3
    <3> QED BY <2>1, <2>2, <3>1, <3>2, <3>4
  <2> QED BY <2>3, <2>4
<1> HIDE DEF Good
<1>3. m \in Nat /\ 0 .. m \subseteq Good BY <1>1, <1>2, UpTo
<1> QED BY <1>3 DEF Good

-----------------------------------------------------------------------------
(* FlattenSeq *)

Joins(seqs, S) == [i \in DOMAIN seqs |-> [x \in Seq(S) |-> x \o seqs[i]]]

LEMMA FlattenSteps ==
    ASSUME NEW S, NEW seqs \in Seq(Seq(S)), Len(seqs) # 0
    PROVE  \E g : /\ StepByStep(g, Len(seqs), Seq(S), seqs[1], Joins(seqs, S))
                  /\ FlattenSeq(seqs) = g[Len(seqs)]
<1> DEFINE n == Len(seqs)
           P(g) == g = [i \in 1 .. n |-> IF i = 1 THEN seqs[i] ELSE g[i - 1] \o seqs[i]]
<1>1. n \in Nat /\ n # 0 /\ DOMAIN seqs = 1 .. n /\ seqs[1] \in Seq(S) OBVIOUS
<1>2. \A i \in 1 .. n : seqs[i] \in Seq(S) OBVIOUS
<1>3. \A i \in 1 .. n, x \in Seq(S) : Joins(seqs, S)[i][x] = x \o seqs[i] /\ x \o seqs[i] \in Seq(S)
  BY <1>1, <1>2 DEF Joins
<1> HIDE DEF n
<1>4. \E g : P(g)
  <2>1. PICK g : StepByStep(g, n, Seq(S), seqs[1], Joins(seqs, S)) BY <1>1, <1>3, StepByStepExists
  <2>2. ASSUME NEW i \in 1 .. n PROVE g[i] = IF i = 1 THEN seqs[i] ELSE g[i - 1] \o seqs[i]
    <3>1. CASE i = 1 BY <2>1, <3>1 DEF StepByStep
    <3>2. CASE i # 1
      <4>1. i - 1 \in 1 .. n BY <1>1, <3>2
      <4>2. g[i - 1] \in Seq(S) BY <2>1, <4>1 DEF StepByStep
      <4>3. g[i] = Joins(seqs, S)[i][g[i - 1]] BY <2>1, <3>2 DEF StepByStep
      <4> QED BY <1>3, <3>2, <4>2, <4>3
    <3> QED BY <3>1, <3>2
  <2>3. g = [i \in 1 .. n |-> g[i]] BY <2>1 DEF StepByStep
  <2> QED BY <2>2, <2>3
<1>5. PICK g : g = (CHOOSE h : P(h)) OBVIOUS
<1>6. P(g) BY <1>4, <1>5
<1>7. FlattenSeq(seqs) = g[n] BY <1>1, <1>5 DEF FlattenSeq, n
<1>8. StepByStep(g, n, Seq(S), seqs[1], Joins(seqs, S))
  <2> DEFINE Good == {k \in 0 .. n : k = 0 \/ g[k] \in Seq(S)}
  <2>1. 0 \in Good BY <1>1
  <2>2. ASSUME NEW k \in 0 .. n - 1, k \in Good PROVE k + 1 \in Good
    <3>1. k + 1 \in 1 .. n /\ k + 1 \in 0 .. n /\ (k + 1) - 1 = k BY <1>1
    <3>2. g[k + 1] = IF k + 1 = 1 THEN seqs[k + 1] ELSE g[(k + 1) - 1] \o seqs[k + 1] BY <1>6, <3>1
    <3>3. g[k + 1] \in Seq(S)
      <4>1. CASE k = 0 BY <1>2, <3>1, <3>2, <4>1
      <4>2. CASE k # 0
        <5>1. g[k] \in Seq(S) BY <2>2, <4>2
        <5>2. k + 1 # 1 BY <1>1, <4>2
        <5>3. g[k + 1] = g[k] \o seqs[k + 1] BY <3>1, <3>2, <5>2
        <5> QED BY <1>3, <3>1, <5>1, <5>3
      <4> QED BY <4>1, <4>2
    <3> QED BY <3>1, <3>3
  <2> HIDE DEF Good
  <2>3. 0 .. n \subseteq Good BY <1>1, <2>1, <2>2, UpTo
  <2>4. ASSUME NEW i \in 1 .. n PROVE g[i] \in Seq(S)
    <3>1. i \in 0 .. n /\ i # 0 BY <1>1
    <3> QED BY <2>3, <3>1 DEF Good
  <2>5. DOMAIN g = 1 .. n /\ g = [i \in 1 .. n |-> g[i]] BY <1>6
  <2>6. g \in [1 .. n -> Seq(S)] BY <2>4, <2>5
  <2>7. ASSUME NEW i \in 1 .. n PROVE g[i] = IF i = 1 THEN seqs[1] ELSE Joins(seqs, S)[i][g[i - 1]]
    <3>1. g[i] = IF i = 1 THEN seqs[i] ELSE g[i - 1] \o seqs[i] BY <1>6
    <3>2. i # 1 => i - 1 \in 1 .. n BY <1>1
    <3> QED BY <1>3, <2>4, <3>1, <3>2
  <2> QED BY <2>6, <2>7 DEF StepByStep
<1> QED BY <1>7, <1>8 DEF n

LEMMA FlattenEmpty == FlattenSeq(<<>>) = <<>>
<1>1. Len(<<>>) = 0 OBVIOUS
<1> QED BY <1>1 DEF FlattenSeq

LEMMA FlattenType ==
    ASSUME NEW S, NEW seqs \in Seq(Seq(S)) PROVE FlattenSeq(seqs) \in Seq(S)
<1>1. CASE Len(seqs) = 0
  <2>1. seqs = <<>> BY <1>1
  <2> QED BY <2>1, FlattenEmpty, EmptySeq
<1>2. CASE Len(seqs) # 0
  <2>1. PICK g : StepByStep(g, Len(seqs), Seq(S), seqs[1], Joins(seqs, S)) /\ FlattenSeq(seqs) = g[Len(seqs)]
    BY <1>2, FlattenSteps
  <2>2. Len(seqs) \in 1 .. Len(seqs) BY <1>2
  <2> QED BY <2>1, <2>2 DEF StepByStep
<1> QED BY <1>1, <1>2

LEMMA FlattenAppend ==
    ASSUME NEW S, NEW seqs \in Seq(Seq(S)), NEW x \in Seq(S)
    PROVE  FlattenSeq(Append(seqs, x)) = FlattenSeq(seqs) \o x
<1> DEFINE more == Append(seqs, x)
           n == Len(seqs)
<1>1. /\ more \in Seq(Seq(S)) /\ n \in Nat /\ Len(more) = n + 1 /\ more[n + 1] = x
      /\ \A i \in 1 .. n : more[i] = seqs[i]
      /\ DOMAIN seqs = 1 .. n /\ DOMAIN more = 1 .. n + 1
  OBVIOUS
<1> HIDE DEF more
<1>2. PICK g : StepByStep(g, n + 1, Seq(S), more[1], Joins(more, S)) /\ FlattenSeq(more) = g[n + 1]
  <2>1. Len(more) # 0 BY <1>1
  <2>2. \E g : StepByStep(g, Len(more), Seq(S), more[1], Joins(more, S)) /\ FlattenSeq(more) = g[Len(more)]
    BY <1>1, <2>1, FlattenSteps
  <2> QED BY <1>1, <2>2
<1>3. CASE n = 0
  <2>1. seqs = <<>> BY <1>3
  <2>2. g[n + 1] = more[1] /\ more[1] = x BY <1>1, <1>2, <1>3 DEF StepByStep
  <2>3. FlattenSeq(seqs) = <<>> BY <2>1, FlattenEmpty
  <2>4. <<>> \o x = x BY ConcatEmptySeq
  <2> QED BY <1>2, <2>2, <2>3, <2>4 DEF more
<1>4. CASE n # 0
  <2>1. PICK h : StepByStep(h, n, Seq(S), seqs[1], Joins(seqs, S)) /\ FlattenSeq(seqs) = h[n]
    BY <1>4, FlattenSteps
  <2>2. 1 \in 1 .. n /\ n \in 1 .. n /\ n \in 0 .. n + 1 /\ n + 1 \in Nat BY <1>1, <1>4
  <2>3. seqs[1] = more[1] BY <1>1, <2>2
  <2>4. ASSUME NEW i \in 1 .. n, NEW y \in Seq(S) PROVE Joins(seqs, S)[i][y] = Joins(more, S)[i][y]
    <3>1. i \in DOMAIN seqs /\ i \in DOMAIN more /\ more[i] = seqs[i] BY <1>1
    <3>2. Joins(seqs, S)[i][y] = y \o seqs[i] BY <3>1 DEF Joins
    <3>3. Joins(more, S)[i][y] = y \o more[i] BY <3>1 DEF Joins
    <3> QED BY <3>1, <3>2, <3>3
  <2>5. StepByStep(h, n, Seq(S), more[1], Joins(seqs, S)) BY <2>1, <2>3
  <2> HIDE DEF n
  <2>6. \A i \in 1 .. n : h[i] = g[i]
    <3> DEFINE first == more[1]
               other == Joins(seqs, S)
               next == Joins(more, S)
               R == Seq(S)
    <3>1. StepByStep(g, n + 1, R, first, next) /\ StepByStep(h, n, R, first, other) BY <1>2, <2>5
    <3>2. \A i \in 1 .. n, y \in R : other[i][y] = next[i][y] BY <2>4
    <3> HIDE DEF first, other, next, R
    <3> QED BY <2>2, <3>1, <3>2, StepByStepUnique
  <2>7. g[n] \in Seq(S) /\ g[n + 1] = Joins(more, S)[n + 1][g[n]]
    BY <1>1, <1>2, <1>4, <2>2 DEF StepByStep
  <2>8. g[n + 1] = g[n] \o x
    <3>1. n + 1 \in DOMAIN more BY <1>1
    <3>2. Joins(more, S)[n + 1][g[n]] = g[n] \o more[n + 1] BY <2>7, <3>1 DEF Joins
    <3> QED BY <1>1, <2>7, <3>2
  <2> QED BY <1>2, <2>1, <2>2, <2>6, <2>8 DEF more
<1> QED BY <1>3, <1>4

-----------------------------------------------------------------------------
(* The run-length coder *)

UChar == 0 .. BYTE - 1

LEMMA ByteArithmetic ==
    ASSUME NEW c \in UChar
    PROVE  (c + 1) % BYTE \in UChar /\ (c < MAX_RUN => (c + 1) % BYTE = c + 1)
<1>1. BYTE \in Nat \ {0} /\ c \in Nat /\ c + 1 <= BYTE BY RleAssumption DEF UChar
<1>2. (c + 1) % BYTE \in UChar BY <1>1 DEF UChar
<1>3. ASSUME c < MAX_RUN PROVE (c + 1) % BYTE = c + 1
  <2>1. c + 1 < BYTE BY <1>1, <1>3, RleAssumption
  <2> QED BY <1>1, <2>1
<1> QED BY <1>2, <1>3

LEMMA TimesBytes ==
    ASSUME NEW S, NEW n \in Nat, NEW b \in S
    PROVE  Times(n, b) \in Seq(S) /\ Times(1, b) = <<b>> /\ Times(n + 1, b) = Times(n, b) \o <<b>>
<1>1. Times(n, b) \in Seq(S) /\ Len(Times(n, b)) = n /\ \A i \in 1 .. n : Times(n, b)[i] = b BY DEF Times
<1>2. Times(n + 1, b) \in Seq(S) /\ Len(Times(n + 1, b)) = n + 1 /\ \A i \in 1 .. n + 1 : Times(n + 1, b)[i] = b
  BY DEF Times
<1>3. Times(1, b) = <<b>> BY DEF Times
<1>4. /\ Times(n, b) \o <<b>> \in Seq(S) /\ Len(Times(n, b) \o <<b>>) = n + 1
      /\ \A i \in 1 .. n + 1 : (Times(n, b) \o <<b>>)[i] = b
  <2> DEFINE t == Times(n, b)
  <2> HIDE DEF t
  <2> QED BY <1>1 DEF t
<1>5. Times(n + 1, b) = Times(n, b) \o <<b>>
  <2> DEFINE t == Times(n + 1, b)
             u == Times(n, b) \o <<b>>
  <2>1. t \in Seq(S) /\ u \in Seq(S) /\ Len(t) = Len(u) /\ \A i \in 1 .. Len(t) : t[i] = u[i] BY <1>2, <1>4
  <2> HIDE DEF t, u
  <2>2. t = u BY <2>1, SeqEqual
  <2> QED BY <2>2 DEF t, u
<1> QED BY <1>1, <1>3, <1>5

\* What a compressed file stands for, pair by pair.
Pairs(out) == [k \in 1 .. Len(out) \div 2 |-> Times(out[2*k - 1], out[2*k])]

LEMMA PairsBytes ==
    ASSUME NEW j \in Nat, NEW out \in Seq(UChar), Len(out) = 2 * j
    PROVE  /\ Pairs(out) = [k \in 1 .. j |-> Times(out[2*k - 1], out[2*k])]
           /\ Pairs(out) \in Seq(Seq(UChar)) /\ Len(Pairs(out)) = j
<1>1. Len(out) \div 2 = j OBVIOUS
<1>2. ASSUME NEW k \in 1 .. j PROVE Times(out[2*k - 1], out[2*k]) \in Seq(UChar)
  <2>1. 2*k - 1 \in 1 .. Len(out) /\ 2*k \in 1 .. Len(out) OBVIOUS
  <2>2. out[2*k - 1] \in UChar /\ out[2*k] \in UChar BY <2>1
  <2>3. out[2*k - 1] \in Nat BY <2>2, RleAssumption DEF UChar
  <2> QED BY <2>2, <2>3, TimesBytes
<1>3. Pairs(out) = [k \in 1 .. j |-> Times(out[2*k - 1], out[2*k])] BY <1>1 DEF Pairs
<1> QED BY <1>2, <1>3

LEMMA AppendPair ==
    ASSUME NEW j \in Nat, NEW s \in Seq(UChar), Len(s) = 2 * j, NEW c \in UChar, NEW b \in UChar
    PROVE  LET more == s \o <<c, b>> IN
           /\ more \in Seq(UChar) /\ Len(more) = 2 * (j + 1)
           /\ \A i \in 1 .. 2 * j : more[i] = s[i]
           /\ more[2 * j + 1] = c /\ more[2 * j + 2] = b
<1> DEFINE t == <<c, b>>
<1>1. t \in Seq(UChar) /\ Len(t) = 2 /\ t[1] = c /\ t[2] = b OBVIOUS
<1> HIDE DEF t
<1> DEFINE n == Len(s)
<1>2. n \in Nat /\ n = 2 * j /\ n + 1 \in 1 .. n + 2 /\ n + 2 \in 1 .. n + 2 OBVIOUS
<1> HIDE DEF n
<1>3. /\ s \o t \in Seq(UChar) /\ Len(s \o t) = n + 2
      /\ \A i \in 1 .. n + 2 : (s \o t)[i] = IF i <= n THEN s[i] ELSE t[i - n]
  <2> DEFINE whole == s \o t
  <2>1. /\ whole \in Seq(UChar) /\ Len(whole) = Len(s) + Len(t)
        /\ \A i \in 1 .. Len(s) + Len(t) : whole[i] = IF i <= Len(s) THEN s[i] ELSE t[i - Len(s)]
    BY <1>1, ConcatProperties
  <2> HIDE DEF whole
  <2>2. Len(s) + Len(t) = n + 2 BY <1>1 DEF n
  <2>3. /\ whole \in Seq(UChar) /\ Len(whole) = n + 2
        /\ \A i \in 1 .. n + 2 : whole[i] = IF i <= n THEN s[i] ELSE t[i - n]
    BY <2>1, <2>2 DEF n
  <2> QED BY <2>3 DEF whole
<1>4. (s \o t)[n + 1] = t[1] /\ (s \o t)[n + 2] = t[2] BY <1>2, <1>3
<1>5. \A i \in 1 .. n : (s \o t)[i] = s[i] BY <1>2, <1>3
<1>6. n + 2 = 2 * (j + 1) BY <1>2
<1> QED BY <1>1, <1>2, <1>3, <1>4, <1>5, <1>6 DEF t

LEMMA DecodePair ==
    ASSUME NEW j \in Nat, NEW out \in Seq(UChar), Len(out) = 2 * j, NEW c \in UChar, NEW b \in UChar
    PROVE  /\ DecompressedFile(out) \in Seq(UChar)
           /\ DecompressedFile(out \o <<c, b>>) = DecompressedFile(out) \o Times(c, b)
<1> DEFINE more == out \o <<c, b>>
<1>1. /\ more \in Seq(UChar) /\ Len(more) = 2 * (j + 1)
      /\ \A i \in 1 .. 2 * j : more[i] = out[i]
      /\ more[2 * j + 1] = c /\ more[2 * j + 2] = b
  BY AppendPair
<1>2. c \in Nat BY RleAssumption DEF UChar
<1>3. Times(c, b) \in Seq(UChar) BY <1>2, TimesBytes
<1>4. Pairs(out) \in Seq(Seq(UChar)) /\ Len(Pairs(out)) = j
      /\ Pairs(out) = [k \in 1 .. j |-> Times(out[2*k - 1], out[2*k])]
  BY PairsBytes
<1> HIDE DEF more
<1>5. Pairs(more) \in Seq(Seq(UChar)) /\ Len(Pairs(more)) = j + 1
      /\ Pairs(more) = [k \in 1 .. j + 1 |-> Times(more[2*k - 1], more[2*k])]
  <2>1. j + 1 \in Nat OBVIOUS
  <2> QED BY <1>1, <2>1, PairsBytes
<1>6. ASSUME NEW k \in 1 .. j + 1 PROVE Pairs(more)[k] = Append(Pairs(out), Times(c, b))[k]
  <2>1. CASE k = j + 1
    <3>1. 2*k - 1 = 2*j + 1 /\ 2*k = 2*j + 2 BY <2>1
    <3>2. Pairs(more)[k] = Times(more[2*k - 1], more[2*k]) BY <1>5
    <3>3. Append(Pairs(out), Times(c, b))[k] = Times(c, b) BY <1>4, <2>1
    <3> QED BY <1>1, <3>1, <3>2, <3>3
  <2>2. CASE k # j + 1
    <3>1. k \in 1 .. j BY <2>2
    <3>2. 2*k - 1 \in 1 .. 2*j /\ 2*k \in 1 .. 2*j BY <3>1
    <3>3. Pairs(more)[k] = Times(more[2*k - 1], more[2*k]) BY <1>5
    <3>4. Pairs(out)[k] = Times(out[2*k - 1], out[2*k]) BY <1>4, <3>1
    <3>5. Append(Pairs(out), Times(c, b))[k] = Pairs(out)[k] BY <1>4, <3>1
    <3> QED BY <1>1, <3>2, <3>3, <3>4, <3>5
  <2> QED BY <2>1, <2>2
<1>7. Pairs(more) = Append(Pairs(out), Times(c, b))
  <2> DEFINE t == Pairs(more)
             u == Append(Pairs(out), Times(c, b))
  <2>1. t \in Seq(Seq(UChar)) /\ u \in Seq(Seq(UChar)) /\ Len(t) = Len(u) /\ \A i \in 1 .. Len(t) : t[i] = u[i]
    BY <1>3, <1>4, <1>5, <1>6
  <2> HIDE DEF t, u
  <2>2. t = u BY <2>1, SeqEqual
  <2> QED BY <2>2 DEF t, u
<1>8. DecompressedFile(out) = FlattenSeq(Pairs(out)) /\ DecompressedFile(more) = FlattenSeq(Pairs(more))
  BY DEF DecompressedFile, Pairs
<1>9. FlattenSeq(Pairs(out)) \in Seq(UChar) BY <1>4, FlattenType
<1>10. FlattenSeq(Pairs(more)) = FlattenSeq(Pairs(out)) \o Times(c, b) BY <1>3, <1>4, <1>7, FlattenAppend
<1> QED BY <1>8, <1>9, <1>10 DEF more

\* Complete pairs, each count from 1 to MAX_RUN, and a byte repeated only after
\* a full run: what RoundTrip says of the compressed file.
WholePairs(s, j) ==
    /\ s \in Seq(UChar) /\ Len(s) = 2 * j
    /\ \A k \in 1 .. j : s[2*k - 1] \in 1 .. MAX_RUN
    /\ \A k \in 2 .. j : s[2*k] = s[2*k - 2] => s[2*k - 3] = MAX_RUN

LEMMA WholeFirst ==
    ASSUME NEW b \in UChar
    PROVE  WholePairs(<<>> \o <<1, b>>, 1)
<1>1. 1 \in UChar /\ 1 \in 1 .. MAX_RUN BY RleAssumption DEF UChar
<1> DEFINE t == <<1, b>>
<1>2. t \in Seq(UChar) /\ Len(t) = 2 /\ t[1] = 1 /\ t[2] = b BY <1>1
<1>3. <<>> \o t = t BY <1>2, ConcatEmptySeq
<1> HIDE DEF t
<1>4. \A k \in 1 .. 1 : t[2*k - 1] \in 1 .. MAX_RUN
  <2>1. \A k \in 1 .. 1 : k = 1 /\ 2*k - 1 = 1 OBVIOUS
  <2> QED BY <1>1, <1>2, <2>1
<1>5. 2 .. 1 = {} /\ Len(t) = 2 * 1 BY <1>2
<1> QED BY <1>2, <1>3, <1>4, <1>5 DEF WholePairs, t

\* The count of the last pair may grow up to MAX_RUN.
LEMMA WholeExtended ==
    ASSUME NEW j \in Nat, NEW out \in Seq(UChar), Len(out) = 2 * j, NEW c \in UChar, NEW b \in UChar,
           NEW d \in UChar, d \in 1 .. MAX_RUN, WholePairs(out \o <<c, b>>, j + 1)
    PROVE  WholePairs(out \o <<d, b>>, j + 1)
<1> DEFINE s == out \o <<c, b>>
           t == out \o <<d, b>>
<1>1. /\ \A i \in 1 .. 2 * j : s[i] = out[i]
      /\ s[2 * j + 1] = c /\ s[2 * j + 2] = b
  BY AppendPair
<1>2. /\ t \in Seq(UChar) /\ Len(t) = 2 * (j + 1)
      /\ \A i \in 1 .. 2 * j : t[i] = out[i]
      /\ t[2 * j + 1] = d /\ t[2 * j + 2] = b
  BY AppendPair
<1>3. WholePairs(s, j + 1) OBVIOUS
<1> HIDE DEF s, t
<1>4. ASSUME NEW k \in 1 .. j + 1 PROVE t[2*k - 1] \in 1 .. MAX_RUN /\ t[2*k] = s[2*k]
  <2>1. CASE k = j + 1
    <3>1. 2*k - 1 = 2 * j + 1 /\ 2*k = 2 * j + 2 BY <2>1
    <3> QED BY <1>1, <1>2, <3>1
  <2>2. CASE k # j + 1
    <3>1. 2*k - 1 \in 1 .. 2 * j /\ 2*k \in 1 .. 2 * j BY <2>2
    <3>2. t[2*k - 1] = s[2*k - 1] /\ t[2*k] = s[2*k] BY <1>1, <1>2, <3>1
    <3>3. s[2*k - 1] \in 1 .. MAX_RUN BY <1>3 DEF WholePairs
    <3> QED BY <3>2, <3>3
  <2> QED BY <2>1, <2>2
<1>5. ASSUME NEW k \in 2 .. j + 1, t[2*k] = t[2*k - 2] PROVE t[2*k - 3] = MAX_RUN
  <2>1. k \in 1 .. j + 1 /\ k - 1 \in 1 .. j + 1 /\ 2*(k - 1) = 2*k - 2 OBVIOUS
  <2>2. t[2*k] = s[2*k] /\ t[2*k - 2] = s[2*k - 2]
    <3>1. t[2*k] = s[2*k] /\ t[2*(k - 1)] = s[2*(k - 1)] BY <1>4, <2>1
    <3> QED BY <2>1, <3>1
  <2>3. s[2*k - 3] = MAX_RUN BY <1>3, <1>5, <2>2 DEF WholePairs
  <2>4. 2*k - 3 \in 1 .. 2 * j OBVIOUS
  <2> QED BY <1>1, <1>2, <2>3, <2>4
<1> QED BY <1>2, <1>4, <1>5 DEF WholePairs, t

\* A pair for a further byte, or for the same one after a full run.
LEMMA WholeAppended ==
    ASSUME NEW j \in Nat, NEW out \in Seq(UChar), Len(out) = 2 * j, NEW c \in UChar, NEW b \in UChar,
           NEW next \in UChar, WholePairs(out \o <<c, b>>, j + 1), next = b => c = MAX_RUN
    PROVE  WholePairs((out \o <<c, b>>) \o <<1, next>>, j + 2)
<1> DEFINE s == out \o <<c, b>>
           t == s \o <<1, next>>
<1>1. /\ s \in Seq(UChar) /\ Len(s) = 2 * (j + 1)
      /\ s[2 * j + 1] = c /\ s[2 * j + 2] = b
  BY AppendPair
<1>2. 1 \in UChar /\ 1 \in 1 .. MAX_RUN BY RleAssumption DEF UChar
<1>3. WholePairs(s, j + 1) OBVIOUS
<1> HIDE DEF s
<1>4. /\ t \in Seq(UChar) /\ Len(t) = 2 * ((j + 1) + 1)
      /\ \A i \in 1 .. 2 * (j + 1) : t[i] = s[i]
      /\ t[2 * (j + 1) + 1] = 1 /\ t[2 * (j + 1) + 2] = next
  <2>1. j + 1 \in Nat OBVIOUS
  <2> QED BY <1>1, <1>2, <2>1, AppendPair
<1> HIDE DEF t
<1>5. ASSUME NEW k \in 1 .. j + 2 PROVE t[2*k - 1] \in 1 .. MAX_RUN
  <2>1. CASE k = j + 2
    <3>1. 2*k - 1 = 2 * (j + 1) + 1 BY <2>1
    <3> QED BY <1>2, <1>4, <3>1
  <2>2. CASE k # j + 2
    <3>1. 2*k - 1 \in 1 .. 2 * (j + 1) /\ k \in 1 .. j + 1 BY <2>2
    <3>2. s[2*k - 1] \in 1 .. MAX_RUN BY <1>3, <3>1 DEF WholePairs
    <3> QED BY <1>4, <3>1, <3>2
  <2> QED BY <2>1, <2>2
<1>6. ASSUME NEW k \in 2 .. j + 2, t[2*k] = t[2*k - 2] PROVE t[2*k - 3] = MAX_RUN
  <2>1. CASE k = j + 2
    <3>1. /\ 2*k = 2 * (j + 1) + 2 /\ 2*k - 2 = 2 * j + 2 /\ 2*k - 3 = 2 * j + 1
          /\ 2 * j + 2 \in 1 .. 2 * (j + 1) /\ 2 * j + 1 \in 1 .. 2 * (j + 1)
      BY <2>1
    <3>2. t[2*k] = next /\ t[2*k - 2] = b /\ t[2*k - 3] = c BY <1>1, <1>4, <3>1
    <3> QED BY <1>6, <3>2
  <2>2. CASE k # j + 2
    <3>1. /\ k \in 2 .. j + 1 /\ 2*k \in 1 .. 2 * (j + 1) /\ 2*k - 2 \in 1 .. 2 * (j + 1)
          /\ 2*k - 3 \in 1 .. 2 * (j + 1)
      BY <2>2
    <3>2. t[2*k] = s[2*k] /\ t[2*k - 2] = s[2*k - 2] /\ t[2*k - 3] = s[2*k - 3] BY <1>4, <3>1
    <3>3. s[2*k - 3] = MAX_RUN BY <1>3, <1>6, <3>1, <3>2 DEF WholePairs
    <3> QED BY <3>2, <3>3
  <2> QED BY <2>1, <2>2
<1>7. Len(t) = 2 * (j + 2) BY <1>4
<1> QED BY <1>4, <1>5, <1>6, <1>7 DEF WholePairs, t, s
\* What the loop of CompressedFile carries from byte to byte, and its steps.
RunStates == [counter : UChar, current_byte : UChar, out : Seq(UChar)]

FirstRun(file) == [counter |-> 1, current_byte |-> file[1], out |-> <<>>]

RunCounted(r, byte) ==
    IF Extends(r.counter, r.current_byte, byte)
    THEN [r EXCEPT !.counter = (@ + 1) % BYTE]
    ELSE [counter |-> 1, current_byte |-> byte, out |-> r.out \o <<r.counter, r.current_byte>>]

CountSteps(file) == [i \in 1 .. Len(file) |-> [r \in RunStates |-> RunCounted(r, file[i])]]

LEMMA CountedType ==
    ASSUME NEW r \in RunStates, NEW b \in UChar
    PROVE  RunCounted(r, b) \in RunStates
<1>1. r.counter \in UChar /\ r.current_byte \in UChar /\ r.out \in Seq(UChar) BY DEF RunStates
<1>2. (r.counter + 1) % BYTE \in UChar BY <1>1, ByteArithmetic
<1>3. <<r.counter, r.current_byte>> \in Seq(UChar) BY <1>1
<1>4. r.out \o <<r.counter, r.current_byte>> \in Seq(UChar) BY <1>1, <1>3, ConcatProperties
<1>5. 1 \in UChar BY RleAssumption DEF UChar
<1>6. CASE Extends(r.counter, r.current_byte, b)
  <2>1. RunCounted(r, b) = [r EXCEPT !.counter = (r.counter + 1) % BYTE] BY <1>6 DEF RunCounted
  <2> QED BY <1>2, <2>1 DEF RunStates
<1>7. CASE ~Extends(r.counter, r.current_byte, b)
  <2>1. RunCounted(r, b) = [counter |-> 1, current_byte |-> b, out |-> r.out \o <<r.counter, r.current_byte>>]
    BY <1>7 DEF RunCounted
  <2> QED BY <1>4, <1>5, <2>1 DEF RunStates
<1> QED BY <1>6, <1>7

LEMMA CompressedSteps ==
    ASSUME NEW file \in Seq(UChar), file # <<>>
    PROVE  \E g : /\ StepByStep(g, Len(file), RunStates, FirstRun(file), CountSteps(file))
                  /\ CompressedFile(file)
                       = g[Len(file)].out \o <<g[Len(file)].counter, g[Len(file)].current_byte>>
<1> DEFINE n == Len(file)
           P(g) == g = [i \in 1 .. n |->
                          IF i = 1 THEN [counter |-> 1, current_byte |-> file[1], out |-> <<>>]
                          ELSE LET r == g[i - 1] IN
                               IF Extends(r.counter, r.current_byte, file[i])
                               THEN [r EXCEPT !.counter = (@ + 1) % BYTE]
                               ELSE [counter |-> 1, current_byte |-> file[i],
                                     out |-> r.out \o <<r.counter, r.current_byte>>]]
           Q(g) == g = [i \in 1 .. n |-> IF i = 1 THEN FirstRun(file) ELSE RunCounted(g[i - 1], file[i])]
<1>1. n \in Nat /\ n # 0 /\ 1 \in 1 .. n /\ \A i \in 1 .. n : file[i] \in UChar OBVIOUS
<1>2. \A g : P(g) <=> Q(g) BY DEF FirstRun, RunCounted
<1>3. FirstRun(file) \in RunStates
  <2>1. 1 \in UChar /\ <<>> \in Seq(UChar) BY RleAssumption, EmptySeq DEF UChar
  <2> QED BY <1>1, <2>1 DEF FirstRun, RunStates
<1>4. \A i \in 1 .. n, r \in RunStates :
          CountSteps(file)[i][r] = RunCounted(r, file[i]) /\ RunCounted(r, file[i]) \in RunStates
  BY <1>1, CountedType DEF CountSteps
<1>5. \E g : Q(g)
  <2>1. PICK g : StepByStep(g, n, RunStates, FirstRun(file), CountSteps(file))
    <3> HIDE DEF n
    <3>1. \A i \in 1 .. n, r \in RunStates : CountSteps(file)[i][r] \in RunStates BY <1>4
    <3> QED BY <1>1, <1>3, <3>1, StepByStepExists
  <2> HIDE DEF n
  <2>2. ASSUME NEW i \in 1 .. n PROVE g[i] = IF i = 1 THEN FirstRun(file) ELSE RunCounted(g[i - 1], file[i])
    <3>1. CASE i = 1 BY <2>1, <3>1 DEF StepByStep
    <3>2. CASE i # 1
      <4>1. i - 1 \in 1 .. n BY <1>1, <3>2
      <4>2. g[i - 1] \in RunStates BY <2>1, <4>1 DEF StepByStep
      <4>3. g[i] = CountSteps(file)[i][g[i - 1]] BY <2>1, <3>2 DEF StepByStep
      <4> QED BY <1>4, <3>2, <4>2, <4>3
    <3> QED BY <3>1, <3>2
  <2>3. g = [i \in 1 .. n |-> g[i]] BY <2>1 DEF StepByStep
  <2>4. Q(g) BY <2>2, <2>3
  <2> HIDE DEF Q
  <2> QED BY <2>4
<1>6. PICK g : g = (CHOOSE h : P(h)) OBVIOUS
<1>7. P(g)
  <2> HIDE DEF P, Q
  <2> QED BY <1>2, <1>5, <1>6
<1>8. Q(g) BY <1>2, <1>7
<1>9. CompressedFile(file) = g[n].out \o <<g[n].counter, g[n].current_byte>> BY <1>6 DEF CompressedFile, n
<1> HIDE DEF P
<1>10. StepByStep(g, n, RunStates, FirstRun(file), CountSteps(file))
  <2> HIDE DEF n
  <2> DEFINE Good == {k \in 0 .. n : k = 0 \/ g[k] \in RunStates}
  <2>1. 0 \in Good BY <1>1
  <2>2. ASSUME NEW k \in 0 .. n - 1, k \in Good PROVE k + 1 \in Good
    <3>1. k + 1 \in 1 .. n /\ k + 1 \in 0 .. n /\ (k + 1) - 1 = k BY <1>1
    <3>2. g[k + 1] = IF k + 1 = 1 THEN FirstRun(file) ELSE RunCounted(g[(k + 1) - 1], file[k + 1])
      BY <1>8, <3>1
    <3>3. g[k + 1] \in RunStates
      <4>1. CASE k = 0 BY <1>3, <3>1, <3>2, <4>1
      <4>2. CASE k # 0
        <5>1. g[k] \in RunStates BY <2>2, <4>2
        <5>2. g[k + 1] = RunCounted(g[k], file[k + 1]) BY <1>1, <3>1, <3>2, <4>2
        <5> QED BY <1>4, <3>1, <5>1, <5>2
      <4> QED BY <4>1, <4>2
    <3> QED BY <3>1, <3>3
  <2> HIDE DEF Good
  <2>3. 0 .. n \subseteq Good BY <1>1, <2>1, <2>2, UpTo
  <2>4. ASSUME NEW i \in 1 .. n PROVE g[i] \in RunStates
    <3>1. i \in 0 .. n /\ i # 0 BY <1>1
    <3> QED BY <2>3, <3>1 DEF Good
  <2>5. DOMAIN g = 1 .. n /\ g = [i \in 1 .. n |-> g[i]] BY <1>8
  <2>6. g \in [1 .. n -> RunStates] BY <2>4, <2>5
  <2>7. ASSUME NEW i \in 1 .. n
        PROVE  g[i] = IF i = 1 THEN FirstRun(file) ELSE CountSteps(file)[i][g[i - 1]]
    <3>1. g[i] = IF i = 1 THEN FirstRun(file) ELSE RunCounted(g[i - 1], file[i]) BY <1>8
    <3>2. i # 1 => i - 1 \in 1 .. n BY <1>1
    <3> QED BY <1>4, <2>4, <3>1, <3>2
  <2> QED BY <2>6, <2>7 DEF StepByStep
<1> QED BY <1>9, <1>10 DEF n

\* The invariant of the loop after n bytes: the pairs that are written and the
\* run that is being counted are whole and stand for the first n bytes.
Coded(r, file, n) ==
    /\ r \in RunStates
    /\ r.counter \in 1 .. MAX_RUN /\ r.current_byte = file[n]
    /\ \E j \in Nat :
          /\ Len(r.out) = 2 * j
          /\ WholePairs(r.out \o <<r.counter, r.current_byte>>, j + 1)
          /\ DecompressedFile(r.out \o <<r.counter, r.current_byte>>) = SubSeq(file, 1, n)
LEMMA CodedFirst ==
    ASSUME NEW file \in Seq(UChar), file # <<>>
    PROVE  Coded(FirstRun(file), file, 1)
<1>1. Len(file) \in Nat /\ 1 \in 1 .. Len(file) /\ file[1] \in UChar OBVIOUS
<1>2. 1 \in UChar /\ 1 \in 1 .. MAX_RUN /\ <<>> \in Seq(UChar) /\ Len(<<>>) = 2 * 0
  BY RleAssumption, EmptySeq DEF UChar
<1> DEFINE b == file[1]
           none == <<>>
<1>3. /\ FirstRun(file).counter = 1 /\ FirstRun(file).current_byte = b /\ FirstRun(file).out = none
      /\ FirstRun(file) \in RunStates
  BY <1>1, <1>2 DEF FirstRun, RunStates
<1>4. WholePairs(none \o <<1, b>>, 1) BY <1>1, WholeFirst
<1>5. DecompressedFile(none \o <<1, b>>) = SubSeq(file, 1, 1)
  <2>1. DecompressedFile(none) = none
    <3>1. Pairs(none) \in Seq(Seq(UChar)) /\ Len(Pairs(none)) = 0 BY <1>2, PairsBytes
    <3>2. Pairs(none) = <<>> BY <3>1
    <3> QED BY <3>2, FlattenEmpty DEF DecompressedFile, Pairs
  <2>2. DecompressedFile(none \o <<1, b>>) = DecompressedFile(none) \o Times(1, b)
    BY <1>1, <1>2, DecodePair
  <2>3. Times(1, b) = <<b>> /\ <<b>> \in Seq(UChar) BY <1>1, TimesBytes
  <2>4. none \o <<b>> = <<b>> BY <2>3, ConcatEmptySeq
  <2>5. SubSeq(file, 1, 1) = SubSeq(file, 1, 0) \o <<b>> BY <1>1, SubSeqRecursiveSecond
  <2>6. SubSeq(file, 1, 0) = none BY SubSeqEmpty
  <2> QED BY <2>1, <2>2, <2>3, <2>4, <2>5, <2>6
<1> HIDE DEF b, none
<1>6. 0 \in Nat /\ Len(none) = 2 * 0 /\ 0 + 1 = 1 BY <1>2 DEF none
<1>7. \E j \in Nat :
          /\ Len(none) = 2 * j
          /\ WholePairs(none \o <<1, b>>, j + 1)
          /\ DecompressedFile(none \o <<1, b>>) = SubSeq(file, 1, 1)
  BY <1>4, <1>5, <1>6
<1> QED BY <1>2, <1>3, <1>7 DEF Coded, b

LEMMA CodedNext ==
    ASSUME NEW file \in Seq(UChar), NEW n \in 1 .. Len(file) - 1, NEW r, Coded(r, file, n)
    PROVE  Coded(RunCounted(r, file[n + 1]), file, n + 1)
<1> DEFINE next == file[n + 1]
           c == r.counter
           b == r.current_byte
           out == r.out
           before == SubSeq(file, 1, n)
<1>1. n + 1 \in 1 .. Len(file) /\ next \in UChar /\ (n + 1) - 1 = n /\ n \in 1 .. Len(file) OBVIOUS
<1>2. PICK j \in Nat :
          /\ Len(out) = 2 * j
          /\ WholePairs(out \o <<c, b>>, j + 1)
          /\ DecompressedFile(out \o <<c, b>>) = before
  BY DEF Coded
<1>3. /\ r \in RunStates /\ c \in UChar /\ b \in UChar /\ out \in Seq(UChar) /\ c \in Nat
      /\ c \in 1 .. MAX_RUN /\ b = file[n]
  BY RleAssumption DEF Coded, RunStates, UChar
<1>4. RunCounted(r, next) \in RunStates BY <1>1, <1>3, CountedType
<1>5. SubSeq(file, 1, n + 1) = before \o <<next>>
  <2>1. 1 \in 1 .. Len(file) /\ n + 1 \in 1 .. Len(file) BY <1>1
  <2>2. SubSeq(file, 1, n + 1) = SubSeq(file, 1, (n + 1) - 1) \o <<file[n + 1]>>
    BY <2>1, SubSeqRecursiveSecond
  <2> QED BY <1>1, <2>2
<1>6. DecompressedFile(out) \in Seq(UChar) /\ before = DecompressedFile(out) \o Times(c, b)
  BY <1>2, <1>3, DecodePair
<1>7. CASE Extends(c, b, next)
  <2> DEFINE d == (c + 1) % BYTE
  <2>1. next = b /\ c < MAX_RUN BY <1>7 DEF Extends
  <2>2. d \in UChar /\ d = c + 1 BY <1>3, <2>1, ByteArithmetic
  <2>3. d \in 1 .. MAX_RUN
    <3> HIDE DEF d
    <3> QED BY <1>3, <2>1, <2>2, RleAssumption
  <2>4. RunCounted(r, next) = [r EXCEPT !.counter = d] BY <1>7 DEF RunCounted
  <2> HIDE DEF d
  <2>5. RunCounted(r, next).counter = d /\ RunCounted(r, next).current_byte = b /\ RunCounted(r, next).out = out
    BY <1>3, <2>4 DEF RunStates
  <2>6. WholePairs(out \o <<d, b>>, j + 1) BY <1>2, <1>3, <2>2, <2>3, WholeExtended
  <2>7. DecompressedFile(out \o <<d, b>>) = SubSeq(file, 1, n + 1)
    <3>1. DecompressedFile(out \o <<d, b>>) = DecompressedFile(out) \o Times(d, b)
      BY <1>2, <1>3, <2>2, DecodePair
    <3>2. Times(d, b) = Times(c, b) \o <<b>> /\ Times(c, b) \in Seq(UChar) BY <1>3, <2>2, TimesBytes
    <3>3. <<b>> \in Seq(UChar) BY <1>3
    <3>4. DecompressedFile(out) \o (Times(c, b) \o <<b>>) = (DecompressedFile(out) \o Times(c, b)) \o <<b>>
      <4> DEFINE x == DecompressedFile(out)
                 y == Times(c, b)
                 z == <<b>>
      <4>1. x \in Seq(UChar) /\ y \in Seq(UChar) /\ z \in Seq(UChar) BY <1>6, <3>2, <3>3
      <4> HIDE DEF x, y, z
      <4> DEFINE Values == UChar
      <4>2. x \in Seq(Values) /\ y \in Seq(Values) /\ z \in Seq(Values) BY <4>1
      <4> HIDE DEF Values
      <4>3. x \o (y \o z) = (x \o y) \o z BY ONLY <4>2
      <4> QED BY <4>3 DEF x, y, z
    <3> QED BY <1>5, <1>6, <2>1, <3>1, <3>2, <3>4
  <2> HIDE DEF next, c, b, out, before
  <2>8. \E i \in Nat :
            /\ Len(out) = 2 * i
            /\ WholePairs(out \o <<d, b>>, i + 1)
            /\ DecompressedFile(out \o <<d, b>>) = SubSeq(file, 1, n + 1)
    BY <1>2, <2>6, <2>7
  <2>9. b = file[n + 1] BY <2>1 DEF next
  <2>10. Coded(RunCounted(r, next), file, n + 1) BY <1>4, <2>3, <2>5, <2>8, <2>9 DEF Coded
  <2> QED BY <2>10 DEF next
<1>8. CASE ~Extends(c, b, next)
  <2> DEFINE more == out \o <<c, b>>
  <2>1. next = b => c = MAX_RUN BY <1>3, <1>8, RleAssumption DEF Extends
  <2>2. RunCounted(r, next) = [counter |-> 1, current_byte |-> next, out |-> more] BY <1>8 DEF RunCounted
  <2>3. RunCounted(r, next).counter = 1 /\ RunCounted(r, next).current_byte = next /\ RunCounted(r, next).out = more
    BY <2>2
  <2>4. 1 \in UChar /\ 1 \in 1 .. MAX_RUN BY RleAssumption DEF UChar
  <2>5. more \in Seq(UChar) /\ Len(more) = 2 * (j + 1) BY <1>2 DEF WholePairs
  <2>6. WholePairs(more \o <<1, next>>, j + 2) BY <1>1, <1>2, <1>3, <2>1, WholeAppended
  <2>7. DecompressedFile(more \o <<1, next>>) = SubSeq(file, 1, n + 1)
    <3>1. j + 1 \in Nat OBVIOUS
    <3> HIDE DEF next, more
    <3>2. DecompressedFile(more \o <<1, next>>) = DecompressedFile(more) \o Times(1, next)
      BY <1>1, <2>4, <2>5, <3>1, DecodePair
    <3>3. Times(1, next) = <<next>> BY <1>1, TimesBytes
    <3>4. DecompressedFile(more) = before BY <1>2 DEF more
    <3> QED BY <1>5, <3>2, <3>3, <3>4
  <2> HIDE DEF next, c, b, out, before, more
  <2>8. \E i \in Nat :
            /\ Len(more) = 2 * i
            /\ WholePairs(more \o <<1, next>>, i + 1)
            /\ DecompressedFile(more \o <<1, next>>) = SubSeq(file, 1, n + 1)
    <3>1. j + 1 \in Nat /\ (j + 1) + 1 = j + 2 OBVIOUS
    <3> QED BY <2>5, <2>6, <2>7, <3>1
  <2>9. next = file[n + 1] BY DEF next
  <2>10. Coded(RunCounted(r, next), file, n + 1) BY <1>4, <2>3, <2>4, <2>8, <2>9 DEF Coded
  <2> QED BY <2>10 DEF next
<1> QED BY <1>7, <1>8

\* For every file, compressing gives whole pairs and decompressing gives the file.
LEMMA Coding ==
    ASSUME NEW file \in Seq(UChar)
    PROVE  /\ \E j \in Nat : WholePairs(CompressedFile(file), j)
           /\ DecompressedFile(CompressedFile(file)) = file
<1>1. CASE file = <<>>
  <2> DEFINE none == <<>>
  <2>1. CompressedFile(file) = none BY <1>1 DEF CompressedFile
  <2>2. none \in Seq(UChar) /\ Len(none) = 2 * 0 /\ 1 .. 0 = {} /\ 2 .. 0 = {} BY EmptySeq
  <2>3. WholePairs(none, 0) BY <2>2 DEF WholePairs
  <2>4. DecompressedFile(none) = none
    <3>1. Pairs(none) \in Seq(Seq(UChar)) /\ Len(Pairs(none)) = 0 BY <2>2, PairsBytes
    <3>2. Pairs(none) = <<>> BY <3>1
    <3> QED BY <3>2, FlattenEmpty DEF DecompressedFile, Pairs
  <2> QED BY <1>1, <2>1, <2>3, <2>4
<1>2. CASE file # <<>>
  <2> DEFINE m == Len(file)
             next == CountSteps(file)
             first == FirstRun(file)
  <2>1. PICK g : /\ StepByStep(g, m, RunStates, first, next)
                 /\ CompressedFile(file) = g[m].out \o <<g[m].counter, g[m].current_byte>>
    BY <1>2, CompressedSteps
  <2>2. m \in Nat /\ m # 0 /\ \A i \in 1 .. m : file[i] \in UChar BY <1>2
  <2> DEFINE Good == {k \in 0 .. m : k = 0 \/ Coded(g[k], file, k)}
  <2>3. 0 \in Good BY <2>2
  <2>4. Coded(first, file, 1) BY <1>2, CodedFirst
  <2>5. \A i \in 1 .. m, r \in RunStates : next[i][r] = RunCounted(r, file[i]) BY DEF CountSteps
  <2>6. ASSUME NEW k \in 1 .. m - 1, Coded(g[k], file, k) PROVE Coded(RunCounted(g[k], file[k + 1]), file, k + 1)
    BY <2>6, CodedNext
  <2> HIDE DEF m, next, first
  <2>7. ASSUME NEW k \in 0 .. m - 1, k \in Good PROVE k + 1 \in Good
    <3>1. k + 1 \in 1 .. m /\ k + 1 \in 0 .. m /\ (k + 1) - 1 = k BY <2>2
    <3>2. g[k + 1] = IF k + 1 = 1 THEN first ELSE next[k + 1][g[(k + 1) - 1]]
      BY <2>1, <3>1 DEF StepByStep
    <3>3. CASE k = 0 BY <2>4, <3>1, <3>2, <3>3
    <3>4. CASE k # 0
      <4>1. k \in 1 .. m - 1 /\ k \in 1 .. m /\ k + 1 # 1 BY <2>2, <3>4
      <4>2. Coded(g[k], file, k) BY <2>7, <3>4
      <4>3. g[k] \in RunStates BY <2>1, <4>1 DEF StepByStep
      <4>4. g[k + 1] = RunCounted(g[k], file[k + 1]) BY <2>5, <3>1, <3>2, <4>1, <4>3
      <4>5. Coded(g[k + 1], file, k + 1) BY <2>6, <4>1, <4>2, <4>4
      <4> QED BY <3>1, <4>5
    <3> QED BY <3>3, <3>4
  <2>8. m \in 0 .. m BY <2>2
  <2> HIDE DEF Good
  <2>9. 0 .. m \subseteq Good BY <2>2, <2>3, <2>7, UpTo
  <2>10. Coded(g[m], file, m) BY <2>2, <2>8, <2>9 DEF Good
  <2>11. \E j \in Nat : WholePairs(CompressedFile(file), j + 1) BY <2>1, <2>10 DEF Coded
  <2>12. DecompressedFile(CompressedFile(file)) = SubSeq(file, 1, m) BY <2>1, <2>10 DEF Coded
  <2>13. SubSeq(file, 1, m) = file BY SubSeqFull DEF m
  <2>14. \A j \in Nat : j + 1 \in Nat OBVIOUS
  <2> QED BY <2>11, <2>12, <2>13, <2>14
<1> QED BY <1>1, <1>2
LEMMA GeneratedType == GeneratedFile \in Seq(UChar)
<1> DEFINE runs == [k \in DOMAIN TestRuns |-> Times(TestRuns[k][1], TestRuns[k][2])]
           n == Len(TestRuns)
<1>1. TestRuns \in Seq(Nat \X UChar) BY RleAssumption DEF UChar
<1>2. n \in Nat /\ DOMAIN TestRuns = 1 .. n BY <1>1
<1>3. ASSUME NEW k \in 1 .. n PROVE Times(TestRuns[k][1], TestRuns[k][2]) \in Seq(UChar)
  <2>1. TestRuns[k] \in Nat \X UChar BY <1>1, <1>2
  <2>2. TestRuns[k][1] \in Nat /\ TestRuns[k][2] \in UChar BY <2>1
  <2> QED BY <2>2, TimesBytes
<1> HIDE DEF n
<1>4. runs \in Seq(Seq(UChar)) BY <1>2, <1>3
<1> HIDE DEF runs
<1>5. FlattenSeq(runs) \in Seq(UChar) BY <1>4, FlattenType
<1> QED BY <1>5 DEF GeneratedFile, runs

\* The inductive invariant: what the phase says has been computed.
RoundTripInv ==
    /\ original \in Seq(UChar) /\ compressed \in Seq(UChar) /\ decompressed \in Seq(UChar)
    /\ phase \in {"generate", "compress", "decompress", "exit"}
    /\ phase \in {"decompress", "exit"} => compressed = CompressedFile(original)
    /\ phase = "exit" => decompressed = DecompressedFile(compressed)

LEMMA RoundTripInit == ASSUME RleInit PROVE RoundTripInv
<1>1. <<>> \in Seq(UChar) BY EmptySeq
<1> QED BY <1>1 DEF RleInit, RoundTripInv

LEMMA RoundTripNext ==
    ASSUME RoundTripInv, [RleNext /\ UNCHANGED courseVars]_<<rleVars, courseVars>>
    PROVE  RoundTripInv'
<1>1. CASE Generate
  <2>1. original' \in Seq(UChar)
    <3>1. \A file \in Originals : file \in Seq(UChar) BY RleAssumption DEF UChar
    <3> QED BY <1>1, <3>1, GeneratedType DEF Generate
  <2> QED BY <1>1, <2>1 DEF Generate, RoundTripInv
<1>2. CASE Compress
  <2>1. original \in Seq(UChar) BY DEF RoundTripInv
  <2>2. CompressedFile(original) \in Seq(UChar) BY <2>1, Coding DEF WholePairs
  <2> QED BY <1>2, <2>2 DEF Compress, RoundTripInv
<1>3. CASE Decompress
  <2>1. original \in Seq(UChar) /\ compressed = CompressedFile(original)
    BY <1>3 DEF Decompress, RoundTripInv
  <2>2. DecompressedFile(compressed) = original BY <2>1, Coding
  <2> QED BY <1>3, <2>1, <2>2 DEF Decompress, RoundTripInv
<1>4. CASE UNCHANGED <<rleVars, courseVars>> BY <1>4 DEF rleVars, RoundTripInv
<1> QED BY <1>1, <1>2, <1>3, <1>4 DEF RleNext

LEMMA RoundTripFollows == ASSUME RoundTripInv PROVE RoundTrip /\ RleTypeOK
<1>1. original \in Seq(UChar) /\ compressed \in Seq(UChar) /\ decompressed \in Seq(UChar) BY DEF RoundTripInv
<1>2. RleTypeOK
  <2>1. ASSUME NEW S, NEW f \in Seq(S) PROVE \A i \in DOMAIN f : f[i] \in S OBVIOUS
  <2>2. \A f \in {original, compressed, decompressed} : \A i \in DOMAIN f : f[i] \in UChar BY <1>1, <2>1
  <2> QED BY <2>2 DEF RoundTripInv, RleTypeOK, UChar
<1>3. phase = "exit" => decompressed = original BY <1>1, Coding DEF RoundTripInv
<1>4. ASSUME phase \in {"decompress", "exit"}
      PROVE  /\ Len(compressed) % 2 = 0
             /\ \A k \in 1 .. Len(compressed) \div 2 :
                   /\ compressed[2*k - 1] \in 1 .. MAX_RUN
                   /\ k > 1 /\ compressed[2*k] = compressed[2*k - 2] => compressed[2*k - 3] = MAX_RUN
  <2>1. PICK j \in Nat : WholePairs(compressed, j) BY <1>1, <1>4, Coding DEF RoundTripInv
  <2>2. Len(compressed) = 2 * j BY <2>1 DEF WholePairs
  <2>3. Len(compressed) % 2 = 0 /\ Len(compressed) \div 2 = j BY <2>2
  <2>4. ASSUME NEW k \in 1 .. j
        PROVE  /\ compressed[2*k - 1] \in 1 .. MAX_RUN
               /\ k > 1 /\ compressed[2*k] = compressed[2*k - 2] => compressed[2*k - 3] = MAX_RUN
    <3>1. k > 1 => k \in 2 .. j OBVIOUS
    <3> QED BY <2>1, <3>1 DEF WholePairs
  <2> QED BY <2>3, <2>4
<1> QED BY <1>2, <1>3, <1>4 DEF RoundTrip

\* Section5/H1: whatever file the program is given, what it decompresses is that
\* file, and the compressed file is complete pairs of runs as long as they can be.
THEOREM FilesRoundTrip == RleSpec => [](RoundTrip /\ RleTypeOK)
<1>1. RleInit => RoundTripInv BY RoundTripInit
<1>2. RoundTripInv /\ [RleNext /\ UNCHANGED courseVars]_<<rleVars, courseVars>> => RoundTripInv'
  BY RoundTripNext
<1>3. RoundTripInv => RoundTrip /\ RleTypeOK BY RoundTripFollows
<1> QED BY <1>1, <1>2, <1>3, PTL DEF RleSpec

-----------------------------------------------------------------------------
(* The prime queue: how often a number occurs *)

\* Where n is in s.
Places(n, s) == {i \in DOMAIN s : s[i] = n}

LEMMA PlacesFinite ==
    ASSUME NEW s \in Seq(Int), NEW n
    PROVE  IsFiniteSet(Places(n, s)) /\ Occurrences(n, s) = Cardinality(Places(n, s)) /\ Occurrences(n, s) \in Nat
<1>1. DOMAIN s = 1 .. Len(s) /\ Len(s) \in Nat OBVIOUS
<1>2. IsFiniteSet(1 .. Len(s)) BY <1>1, FS_Interval
<1>3. Places(n, s) \subseteq 1 .. Len(s) BY <1>1 DEF Places
<1>4. IsFiniteSet(Places(n, s)) BY <1>2, <1>3, FS_Subset
<1>5. Occurrences(n, s) = Cardinality(Places(n, s)) BY DEF Occurrences, Places
<1> QED BY <1>4, <1>5, FS_CardinalityType

LEMMA ShiftedFinite ==
    ASSUME NEW A \in SUBSET Int, IsFiniteSet(A), NEW k \in Int
    PROVE  LET B == {i + k : i \in A} IN IsFiniteSet(B) /\ Cardinality(B) = Cardinality(A)
<1> DEFINE B == {i + k : i \in A}
           f == [i \in A |-> i + k]
<1>1. f \in [A -> B] OBVIOUS
<1>2. \A i, j \in A : f[i] = f[j] => i = j OBVIOUS
<1>3. \A b \in B : \E i \in A : f[i] = b OBVIOUS
<1> HIDE DEF f, B
<1>4. f \in Bijection(A, B) BY <1>1, <1>2, <1>3 DEF Bijection, Injection, Surjection, IsInjective
<1>5. ExistsBijection(A, B) BY <1>4 DEF ExistsBijection
<1>6. IsFiniteSet(B) /\ Cardinality(B) = Cardinality(A) BY <1>5, FS_Bijection
<1> QED BY <1>6 DEF B

LEMMA OccurrencesConcat ==
    ASSUME NEW s \in Seq(Int), NEW t \in Seq(Int), NEW n
    PROVE  Occurrences(n, s \o t) = Occurrences(n, s) + Occurrences(n, t)
<1> DEFINE both == s \o t
           k == Len(s)
           A == Places(n, s)
           C == Places(n, t)
           B == {i + k : i \in C}
<1>1. /\ both \in Seq(Int) /\ Len(both) = k + Len(t) /\ k \in Nat /\ Len(t) \in Nat
      /\ \A i \in 1 .. k + Len(t) : both[i] = IF i <= k THEN s[i] ELSE t[i - k]
  BY ConcatProperties
<1> HIDE DEF both
<1>2. DOMAIN both = 1 .. k + Len(t) /\ DOMAIN s = 1 .. k /\ DOMAIN t = 1 .. Len(t) BY <1>1
<1>3. A \subseteq 1 .. k /\ C \subseteq 1 .. Len(t) BY <1>2 DEF Places
<1> HIDE DEF k
<1>4. Places(n, both) = A \cup B
  <2>1. ASSUME NEW i \in Places(n, both) PROVE i \in A \cup B
    <3>1. i \in 1 .. k + Len(t) /\ both[i] = n BY <1>2, <2>1 DEF Places
    <3>2. CASE i <= k
      <4>1. i \in 1 .. k /\ s[i] = n BY <1>1, <3>1, <3>2
      <4> QED BY <1>2, <4>1 DEF Places
    <3>3. CASE ~(i <= k)
      <4>1. i - k \in 1 .. Len(t) /\ t[i - k] = n /\ i = (i - k) + k BY <1>1, <3>1, <3>3
      <4>2. i - k \in C BY <1>2, <4>1 DEF Places
      <4> QED BY <4>1, <4>2
    <3> QED BY <3>2, <3>3
  <2>2. ASSUME NEW i \in A PROVE i \in Places(n, both)
    <3>1. i \in 1 .. k /\ s[i] = n BY <1>2 DEF Places
    <3>2. i \in 1 .. k + Len(t) /\ both[i] = n BY <1>1, <3>1
    <3> QED BY <1>2, <3>2 DEF Places
  <2>3. ASSUME NEW j \in C PROVE j + k \in Places(n, both)
    <3>1. j \in 1 .. Len(t) /\ t[j] = n BY <1>2 DEF Places
    <3>2. j + k \in 1 .. k + Len(t) /\ ~(j + k <= k) /\ (j + k) - k = j BY <1>1, <3>1
    <3>3. both[j + k] = n BY <1>1, <3>1, <3>2
    <3> QED BY <1>2, <3>2, <3>3 DEF Places
  <2> QED BY <2>1, <2>2, <2>3
<1>5. A \cap B = {}
  <2>1. \A j \in C : ~(j + k \in 1 .. k) BY <1>1, <1>3
  <2> QED BY <1>3, <2>1
<1>6. IsFiniteSet(A) /\ IsFiniteSet(C) BY PlacesFinite
<1>7. IsFiniteSet(B) /\ Cardinality(B) = Cardinality(C)
  <2>1. C \in SUBSET Int /\ k \in Int BY <1>1, <1>3
  <2> QED BY <1>6, <2>1, ShiftedFinite
<1>8. Occurrences(n, both) = Cardinality(Places(n, both)) BY <1>1, PlacesFinite
<1>9. Occurrences(n, s) = Cardinality(A) /\ Occurrences(n, t) = Cardinality(C) /\ Cardinality(A) \in Nat
      /\ Cardinality(C) \in Nat
  BY PlacesFinite
<1> HIDE DEF A, B, C
<1>10. Cardinality(A \cup B) = Cardinality(A) + Cardinality(B) - Cardinality({}) BY <1>5, <1>6, <1>7, FS_Union
<1>11. Cardinality(A \cup B) = Cardinality(A) + Cardinality(C) BY <1>7, <1>9, <1>10, FS_EmptySet
<1> QED BY <1>4, <1>8, <1>9, <1>11 DEF both

LEMMA OccurrencesOne ==
    ASSUME NEW m \in Int, NEW n
    PROVE  Occurrences(n, <<m>>) = IF m = n THEN 1 ELSE 0
<1>1. DOMAIN <<m>> = {1} /\ <<m>>[1] = m OBVIOUS
<1>2. CASE m = n
  <2>1. {i \in DOMAIN <<m>> : <<m>>[i] = n} = {1} BY <1>1, <1>2
  <2> QED BY <1>2, <2>1, FS_Singleton DEF Occurrences
<1>3. CASE m # n
  <2>1. {i \in DOMAIN <<m>> : <<m>>[i] = n} = {} BY <1>1, <1>3
  <2> QED BY <1>3, <2>1, FS_EmptySet DEF Occurrences
<1> QED BY <1>2, <1>3

LEMMA OccurrencesNone == \A n : Occurrences(n, <<>>) = 0
<1>1. DOMAIN <<>> = {} OBVIOUS
<1> QED BY <1>1, FS_EmptySet DEF Occurrences

LEMMA OccurrencesAppend ==
    ASSUME NEW s \in Seq(Int), NEW m \in Int, NEW n
    PROVE  Occurrences(n, Append(s, m)) = Occurrences(n, s) + IF m = n THEN 1 ELSE 0
<1>1. Append(s, m) = s \o <<m>> BY AppendIsConcat
<1> DEFINE one == <<m>>
<1>2. one \in Seq(Int) OBVIOUS
<1>3. Occurrences(n, one) = IF m = n THEN 1 ELSE 0 BY OccurrencesOne
<1> HIDE DEF one
<1>4. Occurrences(n, s \o one) = Occurrences(n, s) + Occurrences(n, one) BY <1>2, OccurrencesConcat
<1> QED BY <1>1, <1>3, <1>4 DEF one

LEMMA OccurrencesTail ==
    ASSUME NEW s \in Seq(Int), s # <<>>, NEW n
    PROVE  Occurrences(n, s) = Occurrences(n, Tail(s)) + IF Head(s) = n THEN 1 ELSE 0
<1> DEFINE h == Head(s)
           t == Tail(s)
<1>1. h \in Int /\ t \in Seq(Int) /\ <<h>> \in Seq(Int) BY HeadTailProperties
<1>2. s = <<h>> \o t OBVIOUS
<1> HIDE DEF h, t
<1>3. Occurrences(n, s) = Occurrences(n, <<h>>) + Occurrences(n, t) BY <1>1, <1>2, OccurrencesConcat
<1>4. Occurrences(n, t) \in Nat BY <1>1, PlacesFinite
<1> QED BY <1>1, <1>3, <1>4, OccurrencesOne DEF h, t

LEMMA OccurrencesTake ==
    ASSUME NEW s \in Seq(Int), NEW k \in 0 .. Len(s) - 1, NEW n
    PROVE  Occurrences(n, SubSeq(s, 1, k + 1)) = Occurrences(n, SubSeq(s, 1, k)) + IF s[k + 1] = n THEN 1 ELSE 0
<1>1. k + 1 \in 1 .. Len(s) /\ 1 \in 1 .. Len(s) /\ (k + 1) - 1 = k /\ s[k + 1] \in Int OBVIOUS
<1>2. SubSeq(s, 1, k + 1) = SubSeq(s, 1, (k + 1) - 1) \o <<s[k + 1]>> BY <1>1, SubSeqRecursiveSecond
<1>3. SubSeq(s, 1, k) \in Seq(Int) /\ <<s[k + 1]>> \in Seq(Int)
  <2>1. \A i \in 1 .. k : s[i] \in Int BY <1>1
  <2> QED BY <1>1, <2>1, SubSeqProperties
<1> DEFINE t == SubSeq(s, 1, k)
           m == s[k + 1]
           one == <<m>>
<1>4. SubSeq(s, 1, k + 1) = t \o one /\ t \in Seq(Int) /\ one \in Seq(Int) BY <1>1, <1>2, <1>3
<1>5. Occurrences(n, one) = IF m = n THEN 1 ELSE 0 BY <1>1, OccurrencesOne
<1> HIDE DEF t, one
<1>6. Occurrences(n, t \o one) = Occurrences(n, t) + Occurrences(n, one) BY <1>4, OccurrencesConcat
<1> QED BY <1>4, <1>5, <1>6 DEF t

-----------------------------------------------------------------------------
(* Trial division *)

\* A divisor greater than the square root comes with one that is not.
LEMMA TrialDivision == ASSUME NEW n \in Int PROVE is_prime(n) <=> Prime(n)
<1>1. ASSUME Prime(n), ~is_prime(n) PROVE FALSE
  <2>1. n > 1 /\ \A d \in 2 .. n - 1 : n % d # 0 BY <1>1 DEF Prime
  <2>2. PICK i \in 2 .. n : i * i <= n /\ n % i = 0 BY <1>1, <2>1 DEF is_prime
  <2>3. i * i >= 2 * i
    <3>1. i \in Nat /\ i >= 2 OBVIOUS
    <3> QED BY <3>1
  <2>4. i \in 2 .. n - 1
    <3>1. 2 * i > i BY <2>2
    <3>2. i * i \in Int OBVIOUS
    <3> QED BY <2>1, <2>2, <2>3, <3>1, <3>2
  <2> QED BY <2>1, <2>2, <2>4
<1>2. ASSUME is_prime(n), ~Prime(n) PROVE FALSE
  <2>1. n > 1 /\ ~\E i \in 2 .. n : i * i <= n /\ n % i = 0 BY <1>2 DEF is_prime
  <2>2. PICK d \in 2 .. n - 1 : n % d = 0 BY <1>2, <2>1 DEF Prime
  <2> DEFINE q == n \div d
  <2>3. q \in Int /\ n = d * q BY <2>1, <2>2
  <2> HIDE DEF q
  <2>4. CASE d * d <= n
    <3>1. d \in 2 .. n BY <2>2
    <3> QED BY <2>1, <2>2, <2>4, <3>1
  <2>5. CASE ~(d * d <= n)
    <3>1. q < d
      <4>1. SUFFICES ASSUME q >= d PROVE FALSE BY <2>3
      <4>2. d * q >= d * d BY <2>2, <2>3, <4>1
      <4> QED BY <2>3, <2>5, <4>2
    <3>2. q >= 2
      <4>1. SUFFICES ASSUME q <= 1 PROVE FALSE BY <2>3
      <4>2. d * q <= d * 1 BY <2>2, <2>3, <4>1
      <4> QED BY <2>2, <2>3, <4>2
    <3>3. q * q <= n
      <4>1. q * q <= d * q BY <2>2, <2>3, <3>1, <3>2
      <4> QED BY <2>3, <4>1
    <3>4. n % q = 0 BY <2>2, <2>3, <3>2
    <3>5. q \in 2 .. n BY <2>2, <2>3, <3>1, <3>2
    <3> QED BY <2>1, <3>3, <3>4, <3>5
  <2> QED BY <2>4, <2>5
<1> QED BY <1>1, <1>2
-----------------------------------------------------------------------------
(* Numbers on their way *)

Handed == SubSeq(numbers, 1, next_number)

QueueState ==
    /\ numbers \in Seq(Int) /\ left_over \in Seq(Int) /\ queue \in Seq(Int) /\ found \in Seq(Int)
    /\ Len(queue) <= MAXMSG
    /\ next_number \in 0 .. Len(numbers)
    /\ pills \in 0 .. 2 /\ (sender_pc \in {"numbers", "pills"} => pills < 2)
    /\ sender_pc \in {"numbers", "pills", "wait", "exit"}
    /\ sender_pc # "numbers" => next_number = Len(numbers)
    /\ sender_pc = "exit" => queue = <<>> /\ \A w \in Workers : worker_pc[w] = "exit"
    /\ worker_pc \in [Workers -> {"receive", "exit"}]

\* A prime that has been handed over is in the queue or has been found; what is
\* not prime is never found.
Accounted ==
    \A n \in Int :
        /\ ~Prime(n) => Occurrences(n, found) = 0
        /\ Prime(n) /\ sender_pc # "exit"
             => Occurrences(n, found) + Occurrences(n, queue) = Occurrences(n, left_over) + Occurrences(n, Handed)
        /\ Prime(n) /\ sender_pc = "exit"
             => /\ Occurrences(n, found) <= Occurrences(n, left_over) + Occurrences(n, numbers)
                /\ Proper => Occurrences(n, found) = Occurrences(n, left_over) + Occurrences(n, numbers)

\* The -1 messages are the last ones.
PillsLast ==
    Proper =>
        /\ \A i \in 1 .. Len(queue) : queue[i] = PILL =>
              sender_pc # "numbers" /\ \A j \in i .. Len(queue) : queue[j] = PILL
        /\ (\E w \in Workers : worker_pc[w] = "exit") =>
              sender_pc # "numbers" /\ \A i \in 1 .. Len(queue) : queue[i] = PILL

PrimesInv == QueueState /\ Accounted /\ PillsLast

LEMMA HandedType == ASSUME QueueState PROVE Handed \in Seq(Int)
<1>1. next_number \in Int /\ \A i \in 1 .. next_number : numbers[i] \in Int BY DEF QueueState
<1>2. 1 \in Int OBVIOUS
<1> QED BY <1>1, <1>2, SubSeqProperties DEF Handed

LEMMA PrimesInit == ASSUME PrimeQueueInit PROVE PrimesInv
<1>1. /\ numbers \in Seq(Int) /\ left_over \in Seq(Int) /\ Len(left_over) <= MAXMSG
  BY PrimeQueueAssumption DEF PrimeQueueInit
<1>2. QueueState BY <1>1, EmptySeq DEF PrimeQueueInit, QueueState
<1>3. Accounted
  <2>1. Handed = <<>> BY SubSeqEmpty DEF Handed, PrimeQueueInit
  <2>2. found = <<>> /\ queue = left_over /\ sender_pc = "numbers" BY DEF PrimeQueueInit
  <2>3. ASSUME NEW n \in Int PROVE Occurrences(n, left_over) \in Nat BY <1>1, PlacesFinite
  <2>4. ASSUME NEW n \in Int PROVE Occurrences(n, found) = 0 /\ Occurrences(n, Handed) = 0
    BY <2>1, <2>2, OccurrencesNone
  <2> QED BY <2>2, <2>3, <2>4 DEF Accounted
<1>4. ASSUME Proper PROVE \A i \in 1 .. Len(queue) : queue[i] # PILL
  <2>1. queue = left_over BY DEF PrimeQueueInit
  <2>2. ASSUME NEW i \in 1 .. Len(left_over) PROVE left_over[i] # PILL
    <3>1. /\ AllNumbers \in Seq(Int) /\ Len(AllNumbers) = Len(left_over) + Len(numbers)
          /\ \A k \in 1 .. Len(left_over) + Len(numbers) :
                AllNumbers[k] = IF k <= Len(left_over) THEN left_over[k] ELSE numbers[k - Len(left_over)]
      BY <1>1, ConcatProperties DEF AllNumbers
    <3>2. Len(left_over) \in Nat /\ Len(numbers) \in Nat BY <1>1
    <3>3. i \in DOMAIN AllNumbers /\ AllNumbers[i] = left_over[i] BY <3>1, <3>2
    <3> QED BY <1>4, <3>3 DEF Proper, ToSet
  <2> QED BY <2>1, <2>2
<1>5. \A w \in Workers : worker_pc[w] = "receive" BY DEF PrimeQueueInit
<1>6. PillsLast BY <1>4, <1>5 DEF PillsLast
<1> QED BY <1>2, <1>3, <1>6 DEF PrimesInv

LEMMA ProperNumbers ==
    ASSUME QueueState, Proper, NEW i \in 1 .. Len(numbers) PROVE numbers[i] # PILL
<1>1. numbers \in Seq(Int) /\ left_over \in Seq(Int) BY DEF QueueState
<1>2. /\ AllNumbers \in Seq(Int) /\ Len(AllNumbers) = Len(left_over) + Len(numbers)
      /\ \A k \in 1 .. Len(left_over) + Len(numbers) :
            AllNumbers[k] = IF k <= Len(left_over) THEN left_over[k] ELSE numbers[k - Len(left_over)]
  BY <1>1, ConcatProperties DEF AllNumbers
<1>3. Len(left_over) \in Nat /\ Len(numbers) \in Nat BY <1>1
<1> DEFINE k == i + Len(left_over)
<1>4. k \in 1 .. Len(left_over) + Len(numbers) /\ ~(k <= Len(left_over)) /\ k - Len(left_over) = i BY <1>3
<1> HIDE DEF k
<1>5. k \in DOMAIN AllNumbers /\ AllNumbers[k] = numbers[i] BY <1>2, <1>4
<1> QED BY <1>5 DEF Proper, ToSet

\* A message is put behind the others.
LEMMA QueueGrows ==
    ASSUME PrimesInv, NEW m \in Int, sender_pc # "exit", Send(m), Proper' = Proper,
           UNCHANGED worker_pc,
           Proper => \/ m # PILL /\ sender_pc = "numbers" /\ sender_pc' = "numbers"
                     \/ m = PILL /\ sender_pc # "numbers" /\ sender_pc' # "numbers"
    PROVE  /\ queue' \in Seq(Int) /\ Len(queue') <= MAXMSG
           /\ \A n \in Int : Occurrences(n, queue') = Occurrences(n, queue) + IF m = n THEN 1 ELSE 0
           /\ PillsLast'
<1> DEFINE k == Len(queue)
<1>1. queue \in Seq(Int) /\ k \in Nat /\ k < MAXMSG /\ queue' = Append(queue, m)
  BY DEF PrimesInv, QueueState, Send
<1>2. /\ queue' \in Seq(Int) /\ Len(queue') = k + 1 /\ queue'[k + 1] = m
      /\ \A i \in 1 .. k : queue'[i] = queue[i]
  BY <1>1
<1>3. ASSUME NEW n \in Int PROVE Occurrences(n, queue') = Occurrences(n, queue) + IF m = n THEN 1 ELSE 0
  BY <1>1, OccurrencesAppend
<1>4. PillsLast'
  <2> SUFFICES ASSUME Proper
               PROVE  /\ \A i \in 1 .. Len(queue') : queue'[i] = PILL =>
                            sender_pc' # "numbers" /\ \A j \in i .. Len(queue') : queue'[j] = PILL
                      /\ (\E w \in Workers : worker_pc[w] = "exit") =>
                            sender_pc' # "numbers" /\ \A i \in 1 .. Len(queue') : queue'[i] = PILL
    BY DEF PillsLast
  <2>1. /\ \A i \in 1 .. k : queue[i] = PILL => sender_pc # "numbers" /\ \A j \in i .. k : queue[j] = PILL
        /\ (\E w \in Workers : worker_pc[w] = "exit") =>
              sender_pc # "numbers" /\ \A i \in 1 .. k : queue[i] = PILL
    BY DEF PrimesInv, PillsLast
  <2> HIDE DEF k
  <2>2. ASSUME NEW i \in 1 .. k + 1, queue'[i] = PILL
        PROVE  sender_pc' # "numbers" /\ \A j \in i .. k + 1 : queue'[j] = PILL
    <3>1. CASE i = k + 1
      <4>1. m = PILL BY <1>2, <2>2, <3>1
      <4>2. \A j \in i .. k + 1 : j = k + 1 BY <1>1, <3>1
      <4> QED BY <1>2, <4>1, <4>2
    <3>2. CASE i # k + 1
      <4>1. i \in 1 .. k /\ queue[i] = PILL BY <1>1, <1>2, <2>2, <3>2
      <4>2. sender_pc # "numbers" /\ \A j \in i .. k : queue[j] = PILL BY <2>1, <4>1
      <4>3. m = PILL /\ sender_pc' # "numbers" BY <4>2
      <4>4. \A j \in i .. k + 1 : (j \in i .. k /\ j \in 1 .. k) \/ j = k + 1 BY <1>1, <4>1
      <4> QED BY <1>2, <4>2, <4>3, <4>4
    <3> QED BY <3>1, <3>2
  <2>3. ASSUME NEW w \in Workers, worker_pc[w] = "exit"
        PROVE  sender_pc' # "numbers" /\ \A i \in 1 .. k + 1 : queue'[i] = PILL
    <3>1. sender_pc # "numbers" /\ \A i \in 1 .. k : queue[i] = PILL BY <2>1, <2>3
    <3>2. m = PILL /\ sender_pc' # "numbers" BY <3>1
    <3>3. \A i \in 1 .. k + 1 : i \in 1 .. k \/ i = k + 1 BY <1>1
    <3> QED BY <1>2, <3>1, <3>2, <3>3
  <2> QED BY <1>2, <2>2, <2>3
<1> QED BY <1>1, <1>2, <1>3, <1>4, PrimeQueueAssumption
LEMMA SendNumberStep ==
    ASSUME PrimesInv, SendNumber, UNCHANGED <<numbers, left_over>>
    PROVE  PrimesInv'
<1> DEFINE m == numbers[next_number + 1]
<1>1. /\ sender_pc = "numbers" /\ next_number \in 0 .. Len(numbers) - 1 /\ next_number' = next_number + 1
      /\ Send(m) /\ UNCHANGED <<pills, sender_pc, worker_pc, found>>
      /\ numbers \in Seq(Int) /\ left_over \in Seq(Int) /\ found \in Seq(Int)
  BY DEF SendNumber, PrimesInv, QueueState
<1>2. next_number + 1 \in 1 .. Len(numbers) BY <1>1
<1>3. m \in Int BY <1>1, <1>2
<1>4. Proper => m # PILL BY <1>2, ProperNumbers DEF PrimesInv
<1>5. ASSUME NEW n \in Int PROVE Occurrences(n, Handed') = Occurrences(n, Handed) + IF m = n THEN 1 ELSE 0
  BY <1>1, OccurrencesTake DEF Handed
<1> HIDE DEF m
<1>6. Proper' = Proper BY DEF Proper, AllNumbers
<1>7. /\ queue' \in Seq(Int) /\ Len(queue') <= MAXMSG
      /\ \A n \in Int : Occurrences(n, queue') = Occurrences(n, queue) + IF m = n THEN 1 ELSE 0
      /\ PillsLast'
  BY <1>1, <1>3, <1>4, <1>6, QueueGrows
<1>8. QueueState' BY <1>1, <1>2, <1>7 DEF PrimesInv, QueueState
<1>9. ASSUME NEW n \in Int
      PROVE  /\ ~Prime(n) => Occurrences(n, found') = 0
             /\ Prime(n) => Occurrences(n, found') + Occurrences(n, queue')
                              = Occurrences(n, left_over') + Occurrences(n, Handed')
  <2>1. /\ ~Prime(n) => Occurrences(n, found) = 0
        /\ Prime(n) => Occurrences(n, found) + Occurrences(n, queue) = Occurrences(n, left_over) + Occurrences(n, Handed)
    BY <1>1 DEF PrimesInv, Accounted
  <2>2. Occurrences(n, found) \in Nat /\ Occurrences(n, queue) \in Nat /\ Occurrences(n, left_over) \in Nat
        /\ Occurrences(n, Handed) \in Nat
    BY PlacesFinite, HandedType DEF PrimesInv, QueueState
  <2>3. found' = found /\ left_over' = left_over BY <1>1
  <2>4. Occurrences(n, queue') = Occurrences(n, queue) + IF m = n THEN 1 ELSE 0 BY <1>7
  <2>5. Occurrences(n, Handed') = Occurrences(n, Handed) + IF m = n THEN 1 ELSE 0 BY <1>5
  <2>6. CASE m = n BY <2>1, <2>2, <2>3, <2>4, <2>5, <2>6
  <2>7. CASE m # n BY <2>1, <2>2, <2>3, <2>4, <2>5, <2>7
  <2> QED BY <2>6, <2>7
<1>10. Accounted' BY <1>1, <1>9 DEF Accounted, Prime
<1> QED BY <1>7, <1>8, <1>10 DEF PrimesInv

LEMMA SendPillStep ==
    ASSUME PrimesInv, SendPill, UNCHANGED <<numbers, left_over>>
    PROVE  PrimesInv'
<1>1. /\ sender_pc = "pills" /\ Send(PILL) /\ pills' = pills + 1
      /\ sender_pc' = IF pills' = 2 THEN "wait" ELSE "pills"
      /\ UNCHANGED <<next_number, worker_pc, found>>
  BY DEF SendPill
<1>2. PILL \in Int /\ sender_pc' \in {"wait", "pills"} BY <1>1 DEF PILL
<1>3. Proper' = Proper BY DEF Proper, AllNumbers
<1>4. /\ queue' \in Seq(Int) /\ Len(queue') <= MAXMSG
      /\ \A n \in Int : Occurrences(n, queue') = Occurrences(n, queue) + IF PILL = n THEN 1 ELSE 0
      /\ PillsLast'
  <2> DEFINE m == PILL
  <2>1. /\ m \in Int /\ Send(m)
        /\ Proper => \/ m # PILL /\ sender_pc = "numbers" /\ sender_pc' = "numbers"
                     \/ m = PILL /\ sender_pc # "numbers" /\ sender_pc' # "numbers"
    BY <1>1, <1>2
  <2> HIDE DEF m
  <2>2. /\ queue' \in Seq(Int) /\ Len(queue') <= MAXMSG
        /\ \A n \in Int : Occurrences(n, queue') = Occurrences(n, queue) + IF m = n THEN 1 ELSE 0
        /\ PillsLast'
    BY <1>1, <1>3, <2>1, QueueGrows
  <2> QED BY <2>2 DEF m
<1>5. QueueState'
  <2>1. pills \in 0 .. 1 BY <1>1 DEF PrimesInv, QueueState
  <2>2. pills' \in 0 .. 2 /\ (sender_pc' = "pills" => pills' < 2) BY <1>1, <2>1
  <2> QED BY <1>1, <1>2, <1>4, <2>2 DEF PrimesInv, QueueState
<1>6. ASSUME NEW n \in Int
      PROVE  /\ ~Prime(n) => Occurrences(n, found) = 0
             /\ Prime(n) => Occurrences(n, found) + Occurrences(n, queue')
                              = Occurrences(n, left_over) + Occurrences(n, Handed)
  <2>1. /\ ~Prime(n) => Occurrences(n, found) = 0
        /\ Prime(n) => Occurrences(n, found) + Occurrences(n, queue) = Occurrences(n, left_over) + Occurrences(n, Handed)
    BY <1>1 DEF PrimesInv, Accounted
  <2>2. Occurrences(n, queue) \in Nat BY PlacesFinite DEF PrimesInv, QueueState
  <2>3. Prime(n) => PILL # n BY DEF Prime, PILL
  <2> QED BY <1>4, <2>1, <2>2, <2>3
<1>7. Handed' = Handed BY <1>1 DEF Handed
<1>8. Accounted' BY <1>1, <1>2, <1>6, <1>7 DEF Accounted, Prime
<1> QED BY <1>4, <1>5, <1>8 DEF PrimesInv

LEMMA ReceiveStep ==
    ASSUME PrimesInv, NEW w \in Workers, Receive(w)
    PROVE  PrimesInv'
<1> DEFINE m == Head(queue)
           k == Len(queue)
<1>1. /\ worker_pc[w] = "receive" /\ queue # <<>> /\ queue' = Tail(queue)
      /\ UNCHANGED <<numbers, left_over, next_number, pills, sender_pc>>
  BY DEF Receive
<1>2. queue \in Seq(Int) /\ found \in Seq(Int) /\ k \in Nat /\ k <= MAXMSG /\ sender_pc # "exit"
  BY <1>1 DEF PrimesInv, QueueState
<1>3. /\ m \in Int /\ m = queue[1] /\ k >= 1 /\ queue' \in Seq(Int) /\ Len(queue') = k - 1
      /\ \A i \in 1 .. k - 1 : queue'[i] = queue[i + 1]
  BY <1>1, <1>2
<1>4. ASSUME NEW n \in Int PROVE Occurrences(n, queue) = Occurrences(n, queue') + IF m = n THEN 1 ELSE 0
  BY <1>1, <1>2, OccurrencesTail
<1>5. /\ m = PILL => worker_pc' = [worker_pc EXCEPT ![w] = "exit"] /\ found' = found
      /\ m # PILL => /\ found' = IF is_prime(m) THEN Append(found, m) ELSE found
                     /\ worker_pc' = worker_pc
  BY DEF Receive
<1> HIDE DEF m
<1>6. ASSUME NEW n \in Int
      PROVE  /\ ~Prime(n) => Occurrences(n, found') = Occurrences(n, found)
             /\ Prime(n) => Occurrences(n, found') = Occurrences(n, found) + IF m = n THEN 1 ELSE 0
  <2>1. Occurrences(n, found) \in Nat BY <1>2, PlacesFinite
  <2>2. CASE m # PILL /\ is_prime(m)
    <3>1. Occurrences(n, found') = Occurrences(n, found) + IF m = n THEN 1 ELSE 0
      <4>1. found' = Append(found, m) BY <1>5, <2>2
      <4>2. Occurrences(n, Append(found, m)) = Occurrences(n, found) + IF m = n THEN 1 ELSE 0
        BY <1>2, <1>3, OccurrencesAppend
      <4> QED BY <4>1, <4>2
    <3>2. m = n => Prime(n) BY <1>3, <2>2, TrialDivision
    <3> QED BY <2>1, <3>1, <3>2
  <2>3. CASE m # PILL /\ ~is_prime(m)
    <3>1. m = n => ~Prime(n) BY <1>3, <2>3, TrialDivision
    <3> QED BY <1>5, <2>1, <2>3, <3>1
  <2>4. CASE m = PILL
    <3>1. m = n => ~Prime(n) BY <2>4 DEF Prime, PILL
    <3> QED BY <1>5, <2>1, <2>4, <3>1
  <2> QED BY <2>2, <2>3, <2>4
<1>7. Handed' = Handed BY <1>1 DEF Handed
<1>8. Accounted'
  <2>1. ASSUME NEW n \in Int
        PROVE  /\ ~Prime(n) => Occurrences(n, found') = 0
               /\ Prime(n) => Occurrences(n, found') + Occurrences(n, queue')
                                = Occurrences(n, left_over) + Occurrences(n, Handed)
    <3>1. /\ ~Prime(n) => Occurrences(n, found) = 0
          /\ Prime(n) => Occurrences(n, found) + Occurrences(n, queue) = Occurrences(n, left_over) + Occurrences(n, Handed)
      BY <1>2 DEF PrimesInv, Accounted
    <3>2. Occurrences(n, found) \in Nat /\ Occurrences(n, queue') \in Nat BY <1>2, <1>3, PlacesFinite
    <3>3. CASE m = n BY <1>4, <1>6, <3>1, <3>2, <3>3
    <3>4. CASE m # n BY <1>4, <1>6, <3>1, <3>2, <3>4
    <3> QED BY <3>3, <3>4
  <2> QED BY <1>1, <1>2, <1>7, <2>1 DEF Accounted, Prime
<1>9. QueueState'
  <2>1. found' \in Seq(Int)
    <3>1. Append(found, m) \in Seq(Int) BY <1>2, <1>3
    <3>2. found' = found \/ found' = Append(found, m) BY <1>5
    <3> QED BY <1>2, <3>1, <3>2
  <2>2. worker_pc' \in [Workers -> {"receive", "exit"}] BY <1>5 DEF PrimesInv, QueueState
  <2>3. Len(queue') <= MAXMSG BY <1>2, <1>3, PrimeQueueAssumption
  <2> QED BY <1>1, <1>2, <1>3, <2>1, <2>2, <2>3 DEF PrimesInv, QueueState
<1>10. PillsLast'
  <2>1. Proper' = Proper BY <1>1 DEF Proper, AllNumbers
  <2> SUFFICES ASSUME Proper
               PROVE  /\ \A i \in 1 .. Len(queue') : queue'[i] = PILL =>
                            sender_pc' # "numbers" /\ \A j \in i .. Len(queue') : queue'[j] = PILL
                      /\ (\E v \in Workers : worker_pc'[v] = "exit") =>
                            sender_pc' # "numbers" /\ \A i \in 1 .. Len(queue') : queue'[i] = PILL
    BY <2>1 DEF PillsLast
  <2>2. /\ \A i \in 1 .. k : queue[i] = PILL => sender_pc # "numbers" /\ \A j \in i .. k : queue[j] = PILL
        /\ (\E v \in Workers : worker_pc[v] = "exit") =>
              sender_pc # "numbers" /\ \A i \in 1 .. k : queue[i] = PILL
    BY DEF PrimesInv, PillsLast
  <2> HIDE DEF k
  <2>3. ASSUME NEW i \in 1 .. k - 1, queue'[i] = PILL
        PROVE  sender_pc # "numbers" /\ \A j \in i .. k - 1 : queue'[j] = PILL
    <3>1. i + 1 \in 1 .. k /\ queue[i + 1] = PILL BY <1>2, <1>3, <2>3
    <3>2. sender_pc # "numbers" /\ \A j \in i + 1 .. k : queue[j] = PILL BY <2>2, <3>1
    <3>3. \A j \in i .. k - 1 : j \in 1 .. k - 1 /\ j + 1 \in i + 1 .. k BY <1>2
    <3> QED BY <1>3, <3>2, <3>3
  <2>4. ASSUME NEW v \in Workers, worker_pc'[v] = "exit"
        PROVE  sender_pc # "numbers" /\ \A i \in 1 .. k - 1 : queue'[i] = PILL
    <3>1. sender_pc # "numbers" /\ \A i \in 1 .. k : queue[i] = PILL
      <4>1. CASE m = PILL
        <5>1. 1 \in 1 .. k /\ queue[1] = PILL BY <1>2, <1>3, <4>1
        <5> QED BY <2>2, <5>1
      <4>2. CASE m # PILL BY <1>5, <2>2, <2>4, <4>2
      <4> QED BY <4>1, <4>2
    <3>2. \A i \in 1 .. k - 1 : i + 1 \in 1 .. k BY <1>2
    <3> QED BY <1>3, <3>1, <3>2
  <2> QED BY <1>1, <1>3, <2>3, <2>4
<1> QED BY <1>8, <1>9, <1>10 DEF PrimesInv

LEMMA WaitStep ==
    ASSUME PrimesInv, WaitAndUnlink, UNCHANGED <<numbers, left_over>>
    PROVE  PrimesInv'
<1>1. /\ sender_pc = "wait" /\ sender_pc' = "exit" /\ queue' = <<>>
      /\ \A w \in Workers : worker_pc[w] = "exit"
      /\ UNCHANGED <<next_number, pills, worker_pc, found>>
  BY DEF WaitAndUnlink
<1>2. /\ numbers \in Seq(Int) /\ left_over \in Seq(Int) /\ queue \in Seq(Int) /\ found \in Seq(Int)
      /\ next_number = Len(numbers)
  BY <1>1 DEF PrimesInv, QueueState
<1>3. QueueState'
  <2>1. <<>> \in Seq(Int) /\ Len(<<>>) = 0 BY EmptySeq
  <2> QED BY <1>1, <2>1, PrimeQueueAssumption DEF PrimesInv, QueueState
<1>4. Proper' = Proper BY DEF Proper, AllNumbers
<1>5. ASSUME NEW n \in Int
      PROVE  /\ ~Prime(n) => Occurrences(n, found) = 0
             /\ Prime(n) => /\ Occurrences(n, found) <= Occurrences(n, left_over) + Occurrences(n, numbers)
                            /\ Proper => Occurrences(n, found) = Occurrences(n, left_over) + Occurrences(n, numbers)
  <2>1. Handed = numbers BY <1>2, SubSeqFull DEF Handed
  <2>2. /\ ~Prime(n) => Occurrences(n, found) = 0
        /\ Prime(n) => Occurrences(n, found) + Occurrences(n, queue) = Occurrences(n, left_over) + Occurrences(n, numbers)
    BY <1>1, <2>1 DEF PrimesInv, Accounted
  <2>3. Occurrences(n, found) \in Nat /\ Occurrences(n, queue) \in Nat BY <1>2, PlacesFinite
  <2>4. ASSUME Proper, Prime(n) PROVE Occurrences(n, queue) = 0
    <3>1. \E w \in Workers : worker_pc[w] = "exit" BY <1>1, PrimeQueueAssumption
    <3>2. \A i \in 1 .. Len(queue) : queue[i] = PILL BY <2>4, <3>1 DEF PrimesInv, PillsLast
    <3>3. n # PILL BY <2>4 DEF Prime, PILL
    <3>4. DOMAIN queue = 1 .. Len(queue) BY <1>2
    <3>5. {i \in DOMAIN queue : queue[i] = n} = {} BY <3>2, <3>3, <3>4
    <3> QED BY <3>5, FS_EmptySet DEF Occurrences
  <2> QED BY <2>2, <2>3, <2>4
<1>6. Accounted' BY <1>1, <1>4, <1>5 DEF Accounted, Prime
<1>7. PillsLast'
  <2>1. Len(queue') = 0 /\ 1 .. 0 = {} BY <1>1
  <2>2. \A i \in 1 .. Len(queue') : FALSE BY <2>1
  <2> QED BY <1>1, <2>2 DEF PillsLast
<1> QED BY <1>3, <1>6, <1>7 DEF PrimesInv

LEMMA PrimesStep ==
    ASSUME PrimesInv, [PrimeQueueNext /\ UNCHANGED courseVars]_<<queueVars, courseVars>>
    PROVE  PrimesInv'
<1>1. CASE SendNumber /\ UNCHANGED <<numbers, left_over>> BY <1>1, SendNumberStep
<1>2. CASE EndOfNumbers /\ UNCHANGED <<numbers, left_over>>
  <2>1. QueueState' BY <1>2 DEF PrimesInv, QueueState, EndOfNumbers
  <2>2. Accounted' BY <1>2 DEF PrimesInv, Accounted, EndOfNumbers, Handed, Prime
  <2>3. PillsLast' BY <1>2 DEF PrimesInv, PillsLast, EndOfNumbers, Proper, AllNumbers
  <2> QED BY <2>1, <2>2, <2>3 DEF PrimesInv
<1>3. CASE SendPill /\ UNCHANGED <<numbers, left_over>> BY <1>3, SendPillStep
<1>4. CASE WaitAndUnlink /\ UNCHANGED <<numbers, left_over>> BY <1>4, WaitStep
<1>5. ASSUME NEW w \in Workers, Receive(w) PROVE PrimesInv' BY <1>5, ReceiveStep
<1>6. CASE UNCHANGED <<queueVars, courseVars>>
  BY <1>6 DEF queueVars, PrimesInv, QueueState, Accounted, PillsLast, Handed, Prime, Proper, AllNumbers
<1> QED BY <1>1, <1>2, <1>3, <1>4, <1>5, <1>6 DEF PrimeQueueNext, Sender

LEMMA PrimesFollow == ASSUME PrimesInv PROVE PrimesFound /\ QueueTypeOK
<1>1. /\ numbers \in Seq(Int) /\ left_over \in Seq(Int) /\ queue \in Seq(Int) /\ found \in Seq(Int)
      /\ DOMAIN queue = 1 .. Len(queue)
  BY DEF PrimesInv, QueueState
<1>2. QueueTypeOK BY DEF PrimesInv, QueueState, QueueTypeOK
<1>3. ASSUME Proper, NEW w \in Workers, worker_pc[w] = "exit"
      PROVE  next_number = Len(numbers) /\ ToSet(queue) \subseteq {PILL}
  <2>1. sender_pc # "numbers" /\ \A i \in 1 .. Len(queue) : queue[i] = PILL BY <1>3 DEF PrimesInv, PillsLast
  <2> QED BY <1>1, <2>1 DEF PrimesInv, QueueState, ToSet
<1>4. ASSUME NEW n \in ToSet(AllNumbers) \cup ToSet(found)
      PROVE  /\ Occurrences(n, found) <= IF Prime(n) THEN Occurrences(n, AllNumbers) ELSE 0
             /\ (Proper /\ sender_pc = "exit" /\ Prime(n)) => Occurrences(n, found) = Occurrences(n, AllNumbers)
  <2>1. n \in Int
    <3>1. AllNumbers \in Seq(Int) BY <1>1, ConcatProperties DEF AllNumbers
    <3>2. ASSUME NEW s \in Seq(Int), n \in ToSet(s) PROVE n \in Int BY <3>2 DEF ToSet
    <3> QED BY <1>1, <3>1, <3>2
  <2>2. /\ Occurrences(n, found) \in Nat /\ Occurrences(n, queue) \in Nat /\ Occurrences(n, left_over) \in Nat
        /\ Occurrences(n, numbers) \in Nat /\ Occurrences(n, Handed) \in Nat
    BY <1>1, PlacesFinite, HandedType DEF PrimesInv
  <2>3. Occurrences(n, AllNumbers) = Occurrences(n, left_over) + Occurrences(n, numbers)
    BY <1>1, OccurrencesConcat DEF AllNumbers
  <2>4. Occurrences(n, Handed) <= Occurrences(n, numbers) 
    <3>1. next_number \in Nat /\ next_number <= Len(numbers) /\ Len(numbers) \in Nat BY <1>1 DEF PrimesInv, QueueState
    <3>2. /\ Handed \in Seq(Int) /\ Len(Handed) = next_number
          /\ \A i \in 1 .. next_number : Handed[i] = numbers[i]
      BY <1>1, <3>1, HandedType DEF PrimesInv, Handed
    <3>3. Places(n, Handed) \subseteq Places(n, numbers) BY <1>1, <3>1, <3>2 DEF Places
    <3> QED BY <1>1, <3>2, <3>3, PlacesFinite, FS_Subset
  <2>5. /\ ~Prime(n) => Occurrences(n, found) = 0
        /\ Prime(n) /\ sender_pc # "exit"
             => Occurrences(n, found) + Occurrences(n, queue) = Occurrences(n, left_over) + Occurrences(n, Handed)
        /\ Prime(n) /\ sender_pc = "exit"
             => /\ Occurrences(n, found) <= Occurrences(n, left_over) + Occurrences(n, numbers)
                /\ Proper => Occurrences(n, found) = Occurrences(n, left_over) + Occurrences(n, numbers)
    BY <2>1 DEF PrimesInv, Accounted
  <2> QED BY <2>2, <2>3, <2>4, <2>5
<1> QED BY <1>2, <1>3, <1>4 DEF PrimesFound

\* Section2/L3: for any numbers, any rest of a killed run and any workers, what
\* the workers print is primes of the two, none more often than it is there, and
\* all of them when the program ends, unless a -1 is among them.
THEOREM AllPrimesFound == PrimeQueueSpec => [](PrimesFound /\ QueueTypeOK)
<1>1. PrimeQueueInit => PrimesInv BY PrimesInit
<1>2. PrimesInv /\ [PrimeQueueNext /\ UNCHANGED courseVars]_<<queueVars, courseVars>> => PrimesInv'
  BY PrimesStep
<1>3. PrimesInv => PrimesFound /\ QueueTypeOK BY PrimesFollow
<1> QED BY <1>1, <1>2, <1>3, PTL DEF PrimeQueueSpec

-----------------------------------------------------------------------------
(* The Caesar text: where a text ends *)

Ends(s, stops, n) ==
    /\ n \in 0 .. Len(s)
    /\ \A j \in 1 .. n : s[j] \notin stops
    /\ n = Len(s) \/ s[n + 1] \in stops

LEMMA Element == ASSUME NEW S, NEW s \in Seq(S), NEW i \in 1 .. Len(s) PROVE s[i] \in S
OBVIOUS

LEMMA EndsExists ==
    ASSUME NEW S, NEW s \in Seq(S), NEW stops
    PROVE  \E n : Ends(s, stops, n)
<1> SUFFICES ASSUME ~\E n : Ends(s, stops, n) PROVE FALSE OBVIOUS
<1> DEFINE k == Len(s)
           Good == {m \in 0 .. k : \A j \in 1 .. m : s[j] \notin stops}
<1>1. k \in Nat OBVIOUS
<1> HIDE DEF k
<1>2. 0 \in Good BY <1>1
<1>3. ASSUME NEW m \in 0 .. k - 1, m \in Good PROVE m + 1 \in Good
  <2>1. m \in 0 .. k /\ m + 1 \in 0 .. k /\ m # k BY <1>1
  <2>2. s[m + 1] \notin stops BY <1>3, <2>1 DEF Ends, k
  <2>3. \A j \in 1 .. m + 1 : j \in 1 .. m \/ j = m + 1 BY <1>1
  <2> QED BY <1>3, <2>1, <2>2, <2>3
<1> HIDE DEF Good
<1>4. k \in Good
  <2>1. 0 .. k \subseteq Good BY <1>1, <1>2, <1>3, UpTo
  <2> QED BY <1>1, <2>1
<1>5. Ends(s, stops, k) BY <1>1, <1>4 DEF Good, Ends, k
<1> QED BY <1>5

LEMMA BeforeEnds ==
    ASSUME NEW S, NEW s \in Seq(S), NEW stops
    PROVE  LET n == Len(Before(s, stops)) IN
           /\ Ends(s, stops, n)
           /\ Before(s, stops) \in Seq(S) /\ Before(s, stops) = SubSeq(s, 1, n)
           /\ \A j \in 1 .. n : Before(s, stops)[j] = s[j]
<1>1. PICK n : n = CHOOSE i \in 0 .. Len(s) :
                     /\ \A j \in 1 .. i : s[j] \notin stops
                     /\ i = Len(s) \/ s[i + 1] \in stops
  OBVIOUS
<1>2. \E i \in 0 .. Len(s) :
          /\ \A j \in 1 .. i : s[j] \notin stops
          /\ i = Len(s) \/ s[i + 1] \in stops
  BY EndsExists DEF Ends
<1>3. Ends(s, stops, n) BY <1>1, <1>2 DEF Ends
<1>4. Before(s, stops) = SubSeq(s, 1, n) BY <1>1 DEF Before
<1>5. n \in Nat /\ n <= Len(s) /\ Len(s) \in Nat BY <1>3 DEF Ends
<1>6. /\ SubSeq(s, 1, n) \in Seq(S) /\ Len(SubSeq(s, 1, n)) = n
      /\ \A j \in 1 .. n : SubSeq(s, 1, n)[j] = s[j]
  <2>1. \A j \in 1 .. n : s[j] \in S BY <1>5
  <2>2. n \in Int /\ 1 \in Int /\ (IF 1 <= n THEN n - 1 + 1 ELSE 0) = n /\ n - 1 + 1 = n
        /\ \A j \in 1 .. n : 1 + j - 1 = j
    BY <1>5
  <2> QED BY <2>1, <2>2, SubSeqProperties
<1> QED BY <1>3, <1>4, <1>6

-----------------------------------------------------------------------------
(* The Caesar text: what is written to the block *)

Chars == 0 .. CHARS - 1

LEMMA ShiftBack ==
    ASSUME NEW x \in 1 .. CHARS - 1
    PROVE  LET y == (x + 3 + CHARS) % CHARS IN
           /\ y \in Chars /\ (y + (-3) + CHARS) % CHARS = x
           /\ y \in {0, NL} <=> x \in {NL - 3, CHARS - 3}
<1> DEFINE y == (x + 3 + CHARS) % CHARS
<1>1. CHARS \in Nat /\ CHARS > 13 /\ x \in Nat /\ x >= 1 /\ x < CHARS BY CaesarAssumption DEF NL
<1>2. CASE x + 3 < CHARS
  <2>1. y = x + 3
    <3>1. x + 3 + CHARS = CHARS * 1 + (x + 3) BY <1>1
    <3> QED BY <1>1, <1>2, <3>1
  <2>2. (y + (-3) + CHARS) % CHARS = x
    <3>1. y + (-3) + CHARS = CHARS * 1 + x BY <1>1, <2>1
    <3> HIDE DEF y
    <3> QED BY <1>1, <3>1
  <2> HIDE DEF y
  <2>3. y \in Chars /\ (y \in {0, NL} <=> x \in {NL - 3, CHARS - 3}) BY <1>1, <1>2, <2>1 DEF Chars, NL
  <2> QED BY <2>2, <2>3 DEF y
<1>3. CASE x + 3 >= CHARS
  <2>1. y = x + 3 - CHARS
    <3>1. x + 3 + CHARS = CHARS * 2 + (x + 3 - CHARS) BY <1>1
    <3>2. x + 3 - CHARS \in 0 .. CHARS - 1 BY <1>1, <1>3
    <3> QED BY <1>1, <3>1, <3>2
  <2>2. (y + (-3) + CHARS) % CHARS = x
    <3>1. y + (-3) + CHARS = x BY <1>1, <2>1
    <3> HIDE DEF y
    <3> QED BY <1>1, <3>1
  <2> HIDE DEF y
  <2>3. y \in Chars /\ (y \in {0, NL} <=> x \in {NL - 3, CHARS - 3}) BY <1>1, <1>3, <2>1 DEF Chars, NL
  <2> QED BY <2>2, <2>3 DEF y
<1> QED BY <1>1, <1>2, <1>3
Typable == 1 .. CHARS - 1

LEMMA LineType ==
    ASSUME typed \in TypedLines
    PROVE  Line \in Seq(Typable) /\ Len(Line) <= SHM_SIZE - 1
<1> DEFINE n == IF Len(typed) < SHM_SIZE THEN Len(typed) ELSE SHM_SIZE - 1
<1>1. typed \in Seq(Typable) /\ Len(typed) \in Nat BY CaesarAssumption DEF Typable
<1>2. n \in Nat /\ n <= Len(typed) /\ n <= SHM_SIZE - 1 BY <1>1, CaesarAssumption
<1>3. Line = SubSeq(typed, 1, n) BY DEF Line
<1> HIDE DEF n
<1>4. \A j \in 1 .. n : typed[j] \in Typable BY <1>1, <1>2
<1>5. SubSeq(typed, 1, n) \in Seq(Typable) /\ Len(SubSeq(typed, 1, n)) = n
  <2>1. n \in Int /\ 1 \in Int /\ (IF 1 <= n THEN n - 1 + 1 ELSE 0) = n BY <1>2
  <2> QED BY <1>4, <2>1, SubSeqProperties
<1> QED BY <1>2, <1>3, <1>5

\* Only what comes before the newline is shifted.
LEMMA EncryptedText ==
    ASSUME NEW s \in Seq(Typable)
    PROVE  \E p : /\ Ends(s, {NL}, p)
                  /\ Encrypted(s) \in Seq(Chars) /\ Len(Encrypted(s)) = Len(s)
                  /\ \A j \in 1 .. Len(s) : Encrypted(s)[j] = IF j <= p THEN (s[j] + 3 + CHARS) % CHARS ELSE s[j]
<1> DEFINE phrase == Before(s, {NL})
           p == Len(phrase)
           k == Len(s)
           front == Shifted(phrase, 3)
           rest == SubSeq(s, p + 1, k)
<1>1. Ends(s, {NL}, p) /\ phrase \in Seq(Typable) /\ \A j \in 1 .. p : phrase[j] = s[j] BY BeforeEnds
<1>2. p \in Nat /\ k \in Nat /\ p <= k BY <1>1 DEF Ends
<1>3. front \in Seq(Chars) /\ Len(front) = p /\ \A j \in 1 .. p : front[j] = (s[j] + 3 + CHARS) % CHARS
  <2>1. front = [j \in 1 .. p |-> (phrase[j] + 3 + CHARS) % CHARS] BY <1>1 DEF Shifted
  <2>2. ASSUME NEW j \in 1 .. p
        PROVE  phrase[j] = s[j] /\ (phrase[j] + 3 + CHARS) % CHARS \in Chars
    <3>1. phrase[j] \in Typable BY <1>1, Element
    <3> QED BY <1>1, <3>1, ShiftBack DEF Typable
  <2> HIDE DEF front, phrase, p
  <2>3. DOMAIN front = 1 .. p /\ \A j \in 1 .. p : front[j] = (s[j] + 3 + CHARS) % CHARS /\ front[j] \in Chars
    BY <2>1, <2>2
  <2>4. front \in [1 .. p -> Chars] BY <2>1, <2>2
  <2> QED BY <1>2, <2>3, <2>4
<1>4. rest \in Seq(Chars) /\ Len(rest) = k - p /\ \A j \in 1 .. k - p : rest[j] = s[p + j]
  <2> HIDE DEF phrase, p
  <2>1. \A j \in p + 1 .. k : s[j] \in Chars
    <3>1. \A j \in p + 1 .. k : j \in 1 .. k BY <1>2
    <3>2. \A c \in Typable : c \in Chars BY CaesarAssumption DEF Typable, Chars
    <3> QED BY <3>1, <3>2
  <2>2. /\ p + 1 \in Int /\ k \in Int /\ (IF p + 1 <= k THEN k - (p + 1) + 1 ELSE 0) = k - p
        /\ k - (p + 1) + 1 = k - p /\ \A j \in 1 .. k - p : (p + 1) + j - 1 = p + j
    BY <1>2
  <2> HIDE DEF k
  <2>3. /\ rest \in Seq(Chars) /\ Len(rest) = IF p + 1 <= k THEN k - (p + 1) + 1 ELSE 0
        /\ \A j \in 1 .. k - (p + 1) + 1 : rest[j] = s[(p + 1) + j - 1]
    BY <2>1, <2>2, SubSeqProperties
  <2> QED BY <2>2, <2>3
<1>5. Encrypted(s) = front \o rest BY DEF Encrypted
<1> HIDE DEF front, rest, phrase, p
<1>6. /\ front \o rest \in Seq(Chars) /\ Len(front \o rest) = k
      /\ \A j \in 1 .. k : (front \o rest)[j] = IF j <= p THEN (s[j] + 3 + CHARS) % CHARS ELSE s[j]
  <2> DEFINE both == front \o rest
  <2>1. /\ both \in Seq(Chars) /\ Len(both) = Len(front) + Len(rest)
        /\ \A j \in 1 .. Len(front) + Len(rest) : both[j] = IF j <= Len(front) THEN front[j] ELSE rest[j - Len(front)]
    BY <1>3, <1>4, ConcatProperties
  <2> HIDE DEF both, k
  <2>2. Len(front) + Len(rest) = k BY <1>2, <1>3, <1>4
  <2>3. ASSUME NEW j \in 1 .. k PROVE both[j] = IF j <= p THEN (s[j] + 3 + CHARS) % CHARS ELSE s[j]
    <3>1. CASE j <= p
      <4>1. j \in 1 .. p BY <1>2, <3>1
      <4> QED BY <1>3, <2>1, <2>2, <3>1, <4>1
    <3>2. CASE ~(j <= p)
      <4>1. j - p \in 1 .. k - p /\ p + (j - p) = j BY <1>2, <3>2
      <4>2. rest[j - p] = s[j] BY <1>4, <4>1
      <4> QED BY <1>3, <2>1, <2>2, <3>2, <4>2
    <3> QED BY <3>1, <3>2
  <2> QED BY <2>1, <2>2, <2>3 DEF both
<1> QED BY <1>1, <1>5, <1>6

\* What the writer copies.
Source == Before(Encrypted(Line), {0})

LEMMA SourceText ==
    ASSUME typed \in TypedLines
    PROVE  LET q == Len(Passed) IN
           /\ Passed \in Seq(Typable)
           /\ Source \in Seq(Chars) /\ Len(Source) <= SHM_SIZE - 1 /\ q <= Len(Source)
           /\ \A j \in 1 .. q : Source[j] \notin {0, NL} /\ (Source[j] + (-3) + CHARS) % CHARS = Passed[j]
           /\ q < Len(Source) => Source[q + 1] = NL
<1> DEFINE E == Encrypted(Line)
           k == Len(Line)
           n == Len(Source)
           q == Len(Passed)
           stops == {NL, NL - 3, CHARS - 3}
<1>1. Line \in Seq(Typable) /\ k <= SHM_SIZE - 1 /\ k \in Nat BY LineType
<1>2. PICK p : /\ Ends(Line, {NL}, p)
               /\ E \in Seq(Chars) /\ Len(E) = k
               /\ \A j \in 1 .. k : E[j] = IF j <= p THEN (Line[j] + 3 + CHARS) % CHARS ELSE Line[j]
  BY <1>1, EncryptedText
<1>3. Ends(Line, stops, q) /\ Passed \in Seq(Typable) /\ \A j \in 1 .. q : Passed[j] = Line[j]
  BY <1>1, BeforeEnds DEF Passed
<1> HIDE DEF E
<1>4. Ends(E, {0}, n) /\ Source \in Seq(Chars) /\ \A j \in 1 .. n : Source[j] = E[j]
  BY <1>2, BeforeEnds DEF Source, E
<1> HIDE DEF k, n, q, stops
<1>5. /\ p \in 0 .. k /\ (\A j \in 1 .. p : Line[j] # NL) /\ (p = k \/ Line[p + 1] = NL)
      /\ q \in 0 .. k /\ (\A j \in 1 .. q : Line[j] \notin stops) /\ (q = k \/ Line[q + 1] \in stops)
      /\ n \in 0 .. k /\ (\A j \in 1 .. n : E[j] # 0) /\ (n = k \/ E[n + 1] = 0)
  BY <1>2, <1>3, <1>4 DEF Ends, k
<1>6. \A j \in 1 .. k : Line[j] \in 1 .. CHARS - 1
  <2>1. \A j \in 1 .. k : Line[j] \in Typable BY <1>1, Element DEF k
  <2> QED BY <2>1 DEF Typable
<1>7. q <= p
  <2>1. SUFFICES ASSUME p < q PROVE FALSE BY <1>1, <1>5
  <2>2. p # k /\ p + 1 \in 1 .. q BY <1>1, <1>5, <2>1
  <2>3. NL \in stops BY DEF stops
  <2> QED BY <1>5, <2>2, <2>3
<1>8. ASSUME NEW j \in 1 .. q PROVE E[j] \notin {0, NL} /\ (E[j] + (-3) + CHARS) % CHARS = Line[j]
  <2>1. j \in 1 .. k /\ j <= p BY <1>1, <1>5, <1>7
  <2>2. E[j] = (Line[j] + 3 + CHARS) % CHARS /\ Line[j] \in 1 .. CHARS - 1 BY <1>2, <1>6, <2>1
  <2>3. Line[j] \notin {NL - 3, CHARS - 3} BY <1>5 DEF stops
  <2> QED BY <2>2, <2>3, ShiftBack
<1>9. q < k => E[q + 1] \in {0, NL}
  <2> SUFFICES ASSUME q < k PROVE E[q + 1] \in {0, NL} OBVIOUS
  <2>1. q + 1 \in 1 .. k /\ Line[q + 1] \in stops BY <1>1, <1>5
  <2>2. CASE Line[q + 1] = NL
    <3>1. ~(q + 1 <= p) BY <1>1, <1>5, <2>1, <2>2
    <3> QED BY <1>2, <2>1, <2>2, <3>1
  <2>3. CASE Line[q + 1] # NL
    <3>1. q + 1 <= p
      <4>1. SUFFICES ASSUME q = p PROVE FALSE BY <1>1, <1>5, <1>7
      <4> QED BY <1>5, <2>1, <2>3, <4>1
    <3>2. Line[q + 1] \in {NL - 3, CHARS - 3} BY <2>1, <2>3 DEF stops
    <3>3. E[q + 1] = (Line[q + 1] + 3 + CHARS) % CHARS /\ Line[q + 1] \in 1 .. CHARS - 1
      BY <1>2, <1>6, <2>1, <3>1
    <3> QED BY <3>2, <3>3, ShiftBack
  <2> QED BY <2>2, <2>3
<1>10. q <= n
  <2>1. SUFFICES ASSUME n < q PROVE FALSE BY <1>1, <1>5
  <2>2. n # k /\ n + 1 \in 1 .. q BY <1>1, <1>5, <2>1
  <2> QED BY <1>5, <1>8, <2>2
<1>11. q < n => Source[q + 1] = NL
  <2> SUFFICES ASSUME q < n PROVE Source[q + 1] = NL OBVIOUS
  <2>1. q + 1 \in 1 .. n /\ q < k BY <1>1, <1>5
  <2> QED BY <1>4, <1>5, <1>9, <2>1
<1>12. \A j \in 1 .. q : j \in 1 .. n BY <1>1, <1>5, <1>10
<1>13. n <= SHM_SIZE - 1 BY <1>1, <1>5, CaesarAssumption
<1>14. \A j \in 1 .. q : Source[j] \notin {0, NL} /\ (Source[j] + (-3) + CHARS) % CHARS = Passed[j]
  BY <1>3, <1>4, <1>8, <1>12
<1> QED BY <1>3, <1>4, <1>10, <1>11, <1>13, <1>14 DEF n, q
-----------------------------------------------------------------------------
(* The Caesar text: the two programs *)

\* Whether what the reader finds can only be what this writer wrote.
Ours == ~stale \/ (Calm /\ typed # <<>>)

Decrypting == decrypt_pc \in {"read", "decode"}

CaesarState ==
    /\ typed \in TypedLines /\ stale \in BOOLEAN
    /\ shared_text \in {"none", "empty", "sized"}
    /\ mem \in [Bytes -> Chars]
    /\ encrypt_pc \in {"fgets", "shm_open", "ftruncate", "memset", "strncpy", "exit"}
    /\ copied \subseteq 0 .. Len(Source) - 1
    /\ encrypt_pc \notin {"strncpy", "exit"} => copied = {}
    /\ decrypt_pc \in {"shm_open", "read", "decode", "exit", "killed"}
    /\ text \in Seq(Chars)
    /\ decrypt_pc = "shm_open" => text = <<>>

\* Unless an earlier writer left its text, a byte of the block is 0 or what the
\* writer copies there.
MemIsOurs ==
    ~stale => \A i \in Bytes : mem[i] = 0 \/ (i < Len(Source) /\ mem[i] = Source[i + 1])

\* When calm, the reader finds what the writer has written when it has ended.
WrittenWhenCalm ==
    Calm /\ typed # <<>> =>
        /\ decrypt_pc # "shm_open" => encrypt_pc = "exit"
        /\ encrypt_pc = "exit" => copied = 0 .. Len(Source) - 1
        /\ encrypt_pc \in {"strncpy", "exit"} /\ decrypt_pc \notin {"exit", "killed"}
             => \A i \in Bytes : mem[i] = IF i \in copied THEN Source[i + 1] ELSE 0

\* What the reader has is the beginning of what can be passed on.
TextIsPassed ==
    Ours =>
        /\ Decrypting => /\ Len(text) <= Len(Passed)
                         /\ \A j \in 1 .. Len(text) : text[j] = Source[j]
                         /\ decrypt_pc = "decode" /\ Calm /\ typed # <<>> => Len(text) = Len(Passed)
        /\ decrypt_pc \in {"exit", "killed"} /\ text # <<>>
             => /\ \E n \in 0 .. Len(Passed) : text = Append(SubSeq(Passed, 1, n), NL)
                /\ Calm /\ typed # <<>> => text = Append(Passed, NL)

CaesarInv == CaesarState /\ MemIsOurs /\ WrittenWhenCalm /\ TextIsPassed

\* What the reader has so far, if the text is the writer's.
LEMMA ReadSoFar ==
    ASSUME TextIsPassed, Ours, Decrypting
    PROVE  /\ Len(text) <= Len(Passed)
           /\ \A j \in 1 .. Len(text) : text[j] = Source[j]
           /\ decrypt_pc = "decode" /\ Calm /\ typed # <<>> => Len(text) = Len(Passed)
BY DEF TextIsPassed

LEMMA CaesarConstants ==
    /\ 0 \in Chars /\ 4 \in Chars /\ NL \in Chars /\ 0 \in Bytes
    /\ SHM_SIZE \in Nat /\ SHM_SIZE >= 2 /\ CHARS \in Nat
BY CaesarAssumption DEF Chars, NL, Bytes

LEMMA CaesarInitInv == ASSUME CaesarInit PROVE CaesarInv
<1>1. CaesarState
  <2>1. mem \in [Bytes -> Chars] BY CaesarConstants DEF CaesarInit
  <2>2. shared_text \in {"none", "empty", "sized"} BY DEF CaesarInit
  <2> QED BY <2>1, <2>2, EmptySeq DEF CaesarInit, CaesarState
<1>2. MemIsOurs BY DEF CaesarInit, MemIsOurs
<1>3. WrittenWhenCalm BY DEF CaesarInit, WrittenWhenCalm
<1>4. TextIsPassed BY DEF CaesarInit, TextIsPassed, Decrypting
<1> QED BY <1>1, <1>2, <1>3, <1>4 DEF CaesarInv

\* The line does not change, and so neither does what is made of it.
LEMMA SameText ==
    ASSUME UNCHANGED typed
    PROVE  Line' = Line /\ Source' = Source /\ Passed' = Passed
<1>1. Line' = Line BY DEF Line
<1> QED BY <1>1 DEF Source, Passed, Encrypted, Before, Shifted

\* The writer's steps leave the reader's text alone.
LEMMA WriterText ==
    ASSUME TextIsPassed, UNCHANGED <<typed, stale, decrypt_pc, text, courseVars>>
    PROVE  TextIsPassed'
BY SameText DEF TextIsPassed, Ours, Decrypting, Calm, courseVars

LEMMA EncryptWriterStep ==
    ASSUME CaesarInv, EncryptWriter, UNCHANGED courseVars
    PROVE  CaesarInv'
<1>1. UNCHANGED <<typed, stale, decrypt_pc, text>> /\ pace' = pace BY DEF EncryptWriter, courseVars
<1>2. Line' = Line /\ Source' = Source /\ Passed' = Passed /\ Calm' = Calm BY <1>1, SameText DEF Calm
<1>3. TextIsPassed' BY <1>1, WriterText DEF CaesarInv
<1>4. CaesarState /\ MemIsOurs /\ WrittenWhenCalm BY DEF CaesarInv
<1>5. Source \in Seq(Chars) /\ Len(Source) \in Nat /\ Len(Source) <= SHM_SIZE - 1
  BY <1>4, SourceText DEF CaesarState
<1>6. CASE FgetsAndEncrypt
  <2>1. encrypt_pc = "fgets" /\ encrypt_pc' = (IF typed = <<>> THEN "exit" ELSE "shm_open")
        /\ UNCHANGED <<shared_text, mem, copied>>
    BY <1>6 DEF FgetsAndEncrypt, Encrypting
  <2>2. CaesarState' BY <1>1, <1>2, <1>4, <2>1 DEF CaesarState
  <2>3. MemIsOurs' BY <1>1, <1>2, <1>4, <2>1 DEF MemIsOurs
  <2>4. WrittenWhenCalm' BY <1>1, <1>2, <1>4, <2>1 DEF WrittenWhenCalm
  <2> QED BY <1>3, <2>2, <2>3, <2>4 DEF CaesarInv
<1>7. CASE CreateText \/ SizeText
  <2>1. /\ encrypt_pc \in {"shm_open", "ftruncate"} /\ encrypt_pc' \in {"ftruncate", "memset"}
        /\ UNCHANGED <<mem, copied>>
        /\ shared_text' \in {shared_text, "empty", "sized"}
    BY <1>7 DEF CreateText, SizeText, Encrypting
  <2>2. CaesarState' BY <1>1, <1>2, <1>4, <2>1 DEF CaesarState
  <2>3. MemIsOurs' BY <1>1, <1>2, <1>4, <2>1 DEF MemIsOurs
  <2>4. WrittenWhenCalm' BY <1>1, <1>2, <1>4, <2>1 DEF WrittenWhenCalm
  <2> QED BY <1>3, <2>2, <2>3, <2>4 DEF CaesarInv
<1>8. CASE ClearText
  <2>1. /\ encrypt_pc = "memset" /\ encrypt_pc' = "strncpy" /\ mem' = [i \in Bytes |-> 0]
        /\ UNCHANGED <<shared_text, copied>>
    BY <1>8 DEF ClearText, Encrypting
  <2>2. CaesarState' BY <1>1, <1>2, <1>4, <2>1, CaesarConstants DEF CaesarState
  <2>3. MemIsOurs' BY <2>1 DEF MemIsOurs
  <2>4. WrittenWhenCalm'
    <3>1. copied = {} BY <1>4, <2>1 DEF CaesarState
    <3> QED BY <1>1, <1>2, <1>4, <2>1, <3>1 DEF WrittenWhenCalm
  <2> QED BY <1>3, <2>2, <2>3, <2>4 DEF CaesarInv
<1>9. CASE CopyByte
  <2>1. encrypt_pc = "strncpy" /\ UNCHANGED shared_text BY <1>9 DEF CopyByte
  <2>2. ASSUME NEW i \in (0 .. Len(Source) - 1) \ copied,
               mem' = [mem EXCEPT ![i] = Source[i + 1]], copied' = copied \cup {i}, UNCHANGED encrypt_pc
        PROVE  CaesarInv'
    <3>1. i \in Bytes /\ i + 1 \in 1 .. Len(Source) /\ i < Len(Source)
      BY <1>5, CaesarConstants DEF Bytes
    <3>2. Source[i + 1] \in Chars BY <1>5, <3>1, Element
    <3>3. mem \in [Bytes -> Chars] BY <1>4 DEF CaesarState
    <3>4. mem' \in [Bytes -> Chars] /\ \A b \in Bytes : mem'[b] = IF b = i THEN Source[i + 1] ELSE mem[b]
      BY <2>2, <3>1, <3>2, <3>3
    <3>5. CaesarState' BY <1>1, <1>2, <1>4, <2>1, <2>2, <3>4 DEF CaesarState
    <3>6. MemIsOurs' BY <1>1, <1>2, <1>4, <3>1, <3>4 DEF MemIsOurs
    <3>7. WrittenWhenCalm'
      <4> SUFFICES ASSUME Calm, typed # <<>>
                   PROVE  /\ decrypt_pc # "shm_open" => encrypt_pc = "exit"
                          /\ encrypt_pc' = "exit" => copied' = 0 .. Len(Source) - 1
                          /\ encrypt_pc' \in {"strncpy", "exit"} /\ decrypt_pc \notin {"exit", "killed"}
                               => \A b \in Bytes : mem'[b] = IF b \in copied' THEN Source[b + 1] ELSE 0
        BY <1>1, <1>2, <2>2 DEF WrittenWhenCalm
      <4>1. /\ decrypt_pc # "shm_open" => encrypt_pc = "exit"
            /\ decrypt_pc \notin {"exit", "killed"}
                 => \A b \in Bytes : mem[b] = IF b \in copied THEN Source[b + 1] ELSE 0
        BY <1>4, <2>1 DEF WrittenWhenCalm
      <4> QED BY <2>1, <2>2, <3>4, <4>1
    <3> QED BY <1>3, <3>5, <3>6, <3>7 DEF CaesarInv
  <2>3. CASE Cardinality(copied) = Len(Source) /\ encrypt_pc' = "exit" /\ UNCHANGED <<mem, copied>>
    <3>1. copied = 0 .. Len(Source) - 1
      <4> DEFINE all == 0 .. Len(Source) - 1
      <4>1. IsFiniteSet(all) /\ Cardinality(all) = Len(Source)
        <5>1. 0 \in Int /\ Len(Source) - 1 \in Int /\ (Len(Source) - 1) - 0 + 1 = Len(Source)
              /\ (0 > Len(Source) - 1 => Len(Source) = 0)
          BY <1>5
        <5> QED BY <1>5, <5>1, FS_Interval
      <4>2. copied \subseteq all BY <1>4 DEF CaesarState
      <4> QED BY <2>3, <4>1, <4>2, FS_Subset
    <3>2. CaesarState' BY <1>1, <1>2, <1>4, <2>1, <2>3 DEF CaesarState
    <3>3. MemIsOurs' BY <1>1, <1>2, <1>4, <2>3 DEF MemIsOurs
    <3>4. WrittenWhenCalm' BY <1>1, <1>2, <1>4, <2>1, <2>3, <3>1 DEF WrittenWhenCalm
    <3> QED BY <1>3, <3>2, <3>3, <3>4 DEF CaesarInv
  <2> QED BY <1>9, <2>2, <2>3 DEF CopyByte, Source
<1> QED BY <1>6, <1>7, <1>8, <1>9 DEF EncryptWriter

LEMMA OpenTextStep ==
    ASSUME CaesarInv, OpenText, UNCHANGED <<typed, shared_text, stale, encrypt_pc, copied, courseVars>>
    PROVE  CaesarInv'
<1>1. /\ decrypt_pc = "shm_open" /\ decrypt_pc' \in {"exit", "killed", "read"} /\ UNCHANGED <<mem, text>>
      /\ Calm => encrypt_pc = "exit"
      /\ Calm' = Calm /\ text = <<>>
  BY DEF OpenText, Calm, courseVars, CaesarInv, CaesarState
<1>2. Source' = Source /\ Passed' = Passed BY SameText
<1>3. CaesarState /\ MemIsOurs /\ WrittenWhenCalm BY DEF CaesarInv
<1>4. CaesarState' BY <1>1, <1>2, <1>3 DEF CaesarState
<1>5. MemIsOurs' BY <1>1, <1>2, <1>3 DEF MemIsOurs
<1>6. WrittenWhenCalm' BY <1>1, <1>2, <1>3 DEF WrittenWhenCalm
<1>7. TextIsPassed'
  <2>1. Len(text) = 0 /\ 1 .. 0 = {} /\ Len(Passed) \in Nat
    BY <1>1, <1>3, SourceText DEF CaesarState
  <2>2. text' = <<>> /\ Len(text') = 0 /\ decrypt_pc' # "decode" BY <1>1, <2>1
  <2>3. Len(text') <= Len(Passed') BY <1>2, <2>1, <2>2
  <2>4. \A j \in 1 .. Len(text') : text'[j] = Source'[j] BY <2>1, <2>2
  <2> QED BY <2>2, <2>3, <2>4 DEF TextIsPassed
<1> QED BY <1>4, <1>5, <1>6, <1>7 DEF CaesarInv

LEMMA ReadByteStep ==
    ASSUME CaesarInv, ReadByte, UNCHANGED <<typed, shared_text, stale, encrypt_pc, copied, courseVars>>
    PROVE  CaesarInv'
<1> DEFINE i == Len(text)
           q == Len(Passed)
           n == Len(Source)
<1>1. /\ decrypt_pc = "read" /\ UNCHANGED mem /\ Calm' = Calm
      /\ IF i < SHM_SIZE - 1 /\ mem[i] \notin {0, NL}
         THEN text' = Append(text, mem[i]) /\ UNCHANGED decrypt_pc
         ELSE decrypt_pc' = "decode" /\ UNCHANGED text
  BY DEF ReadByte, Calm, courseVars
<1>2. Source' = Source /\ Passed' = Passed BY SameText
<1>3. CaesarState /\ MemIsOurs /\ WrittenWhenCalm /\ TextIsPassed BY DEF CaesarInv
<1>4. /\ q \in Nat /\ n \in Nat /\ n <= SHM_SIZE - 1 /\ q <= n
      /\ \A j \in 1 .. q : Source[j] \notin {0, NL}
      /\ q < n => Source[q + 1] = NL
  BY <1>3, SourceText DEF CaesarState
<1>5. text \in Seq(Chars) /\ i \in Nat BY <1>3 DEF CaesarState
<1>6. Ours => i <= q /\ \A j \in 1 .. i : text[j] = Source[j]
  <2>1. Decrypting BY <1>1 DEF Decrypting
  <2> QED BY <1>3, <2>1, ReadSoFar
\* What the block holds at the place that is read.
<1>7. Calm /\ typed # <<>> => \A b \in Bytes : mem[b] = IF b < n THEN Source[b + 1] ELSE 0
  <2> SUFFICES ASSUME Calm, typed # <<>>, NEW b \in Bytes PROVE mem[b] = IF b < n THEN Source[b + 1] ELSE 0
    OBVIOUS
  <2>1. copied = 0 .. n - 1 /\ mem[b] = IF b \in copied THEN Source[b + 1] ELSE 0
    BY <1>1, <1>3 DEF WrittenWhenCalm
  <2>2. b \in copied <=> b < n BY <1>4, <2>1 DEF Bytes
  <2> QED BY <2>1, <2>2
<1>8. CASE i < SHM_SIZE - 1 /\ mem[i] \notin {0, NL}
  <2>1. text' = Append(text, mem[i]) /\ UNCHANGED decrypt_pc BY <1>1, <1>8
  <2>2. i \in Bytes BY <1>5, <1>8, CaesarConstants DEF Bytes
  <2>3. mem[i] \in Chars BY <1>3, <2>2 DEF CaesarState
  <2>4. /\ text' \in Seq(Chars) /\ Len(text') = i + 1 /\ text'[i + 1] = mem[i]
        /\ \A j \in 1 .. i : text'[j] = text[j]
    BY <1>5, <2>1, <2>3
  <2>5. Ours => i < n /\ mem[i] = Source[i + 1]
    <3>1. ~stale => i < n /\ mem[i] = Source[i + 1] BY <1>3, <1>8, <2>2 DEF MemIsOurs
    <3>2. Calm /\ typed # <<>> => i < n /\ mem[i] = Source[i + 1] BY <1>7, <1>8, <2>2
    <3> QED BY <3>1, <3>2 DEF Ours
  <2>6. Ours => i + 1 <= q
    <3> SUFFICES ASSUME Ours, i = q PROVE FALSE BY <1>4, <1>5, <1>6
    <3>1. Source[q + 1] = NL BY <1>4, <2>5
    <3> QED BY <1>8, <2>5, <3>1
  <2> HIDE DEF i, q, n
  <2>7. Ours => \A j \in 1 .. i + 1 : text'[j] = Source[j]
    <3>1. \A j \in 1 .. i + 1 : j \in 1 .. i \/ j = i + 1 BY <1>5
    <3> QED BY <1>6, <2>4, <2>5, <3>1
  <2>8. CaesarState' BY <1>1, <1>2, <1>3, <2>1, <2>4 DEF CaesarState
  <2>9. MemIsOurs' BY <1>1, <1>2, <1>3 DEF MemIsOurs
  <2>10. WrittenWhenCalm' BY <1>1, <1>2, <1>3, <2>1 DEF WrittenWhenCalm
  <2>11. TextIsPassed'
    <3>1. Ours' = Ours BY <1>1 DEF Ours
    <3>2. decrypt_pc' = "read" BY <1>1, <2>1
    <3> QED BY <1>2, <2>4, <2>6, <2>7, <3>1, <3>2 DEF TextIsPassed, q
  <2> QED BY <2>8, <2>9, <2>10, <2>11 DEF CaesarInv
<1>9. CASE ~(i < SHM_SIZE - 1 /\ mem[i] \notin {0, NL})
  <2>1. decrypt_pc' = "decode" /\ UNCHANGED text BY <1>1, <1>9
  <2>2. Calm /\ typed # <<>> => i = q
    <3> SUFFICES ASSUME Calm, typed # <<>>, i < q PROVE FALSE BY <1>4, <1>5, <1>6 DEF Ours
    <3>1. i \in Bytes /\ i < SHM_SIZE - 1 /\ i < n /\ i + 1 \in 1 .. q
      BY <1>4, <1>5, CaesarConstants DEF Bytes
    <3>2. mem[i] = Source[i + 1] BY <1>7, <3>1
    <3> QED BY <1>4, <1>9, <3>1, <3>2
  <2>3. CaesarState' BY <1>1, <1>2, <1>3, <2>1 DEF CaesarState
  <2>4. MemIsOurs' BY <1>1, <1>2, <1>3 DEF MemIsOurs
  <2>5. WrittenWhenCalm' BY <1>1, <1>2, <1>3, <2>1 DEF WrittenWhenCalm
  <2>6. TextIsPassed'
    <3>1. Ours' = Ours BY <1>1 DEF Ours
    <3> QED BY <1>1, <1>2, <1>6, <2>1, <2>2, <3>1 DEF TextIsPassed
  <2> QED BY <2>3, <2>4, <2>5, <2>6 DEF CaesarInv
<1> QED BY <1>8, <1>9

LEMMA DecryptAndClearStep ==
    ASSUME CaesarInv, DecryptAndClear, UNCHANGED <<typed, shared_text, stale, encrypt_pc, copied, courseVars>>
    PROVE  CaesarInv'
<1> DEFINE i == Len(text)
           q == Len(Passed)
           plain == Shifted(text, -3)
<1>1. /\ decrypt_pc = "decode" /\ decrypt_pc' \in {"exit", "killed"} /\ Calm' = Calm
      /\ text' = Append(plain, NL) /\ mem' = [b \in Bytes |-> 0]
  BY DEF DecryptAndClear, Calm, courseVars
<1>2. Source' = Source /\ Passed' = Passed BY SameText
<1>3. CaesarState /\ MemIsOurs /\ WrittenWhenCalm /\ TextIsPassed BY DEF CaesarInv
<1>4. /\ q \in Nat /\ Passed \in Seq(Typable)
      /\ \A j \in 1 .. q : (Source[j] + (-3) + CHARS) % CHARS = Passed[j]
  BY <1>3, SourceText DEF CaesarState
<1>5. text \in Seq(Chars) /\ i \in Nat BY <1>3 DEF CaesarState
<1>6. Ours => /\ i <= q /\ \A j \in 1 .. i : text[j] = Source[j]
              /\ Calm /\ typed # <<>> => i = q
  <2>1. Decrypting BY <1>1 DEF Decrypting
  <2> QED BY <1>1, <1>3, <2>1, ReadSoFar
<1>7. plain \in Seq(Chars) /\ Len(plain) = i /\ \A j \in 1 .. i : plain[j] = (text[j] + (-3) + CHARS) % CHARS
  <2>1. plain = [j \in 1 .. i |-> (text[j] + (-3) + CHARS) % CHARS] BY <1>5 DEF Shifted
  <2>2. ASSUME NEW j \in 1 .. i PROVE (text[j] + (-3) + CHARS) % CHARS \in Chars
    <3>1. text[j] \in Chars BY <1>5, Element
    <3>2. text[j] + (-3) + CHARS \in Int BY <3>1, CaesarConstants DEF Chars
    <3> DEFINE x == text[j] + (-3) + CHARS
    <3> HIDE DEF x
    <3>3. x \in Int => x % CHARS \in 0 .. CHARS - 1 BY CaesarAssumption DEF NL
    <3> QED BY <3>2, <3>3 DEF x, Chars
  <2> HIDE DEF plain, i
  <2> QED BY <1>5, <2>1, <2>2
<1> HIDE DEF plain
<1>8. Ours => plain = SubSeq(Passed, 1, i)
  <2> SUFFICES ASSUME Ours PROVE plain = SubSeq(Passed, 1, i) OBVIOUS
  <2>1. \A j \in 1 .. i : j \in 1 .. q BY <1>4, <1>5, <1>6
  <2>2. \A j \in 1 .. i : plain[j] = Passed[j] BY <1>4, <1>6, <1>7, <2>1
  <2>3. \A c \in Typable : c \in Chars BY CaesarConstants DEF Typable, Chars
  <2>4. \A j \in 1 .. i : Passed[j] \in Chars BY <1>4, <2>1, <2>3, Element
  <2>5. 1 \in Int /\ i \in Int /\ (IF 1 <= i THEN i - 1 + 1 ELSE 0) = i /\ i - 1 + 1 = i
        /\ \A j \in 1 .. i : 1 + j - 1 = j
    BY <1>5
  <2> HIDE DEF i
  <2>6. /\ SubSeq(Passed, 1, i) \in Seq(Chars) /\ Len(SubSeq(Passed, 1, i)) = i
        /\ \A j \in 1 .. i : SubSeq(Passed, 1, i)[j] = Passed[j]
    BY <2>4, <2>5, SubSeqProperties
  <2> DEFINE front == SubSeq(Passed, 1, i)
  <2>7. /\ plain \in Seq(Chars) /\ front \in Seq(Chars) /\ Len(plain) = Len(front)
        /\ \A j \in 1 .. Len(plain) : plain[j] = front[j]
    BY <1>7, <2>2, <2>6 DEF i
  <2> HIDE DEF front
  <2>8. plain = front BY <2>7, SeqEqual
  <2> QED BY <2>8 DEF front
<1>9. CaesarState'
  <2>1. text' \in Seq(Chars) BY <1>1, <1>7, CaesarConstants
  <2>2. mem' \in [Bytes -> Chars] BY <1>1, CaesarConstants
  <2> QED BY <1>1, <1>2, <1>3, <2>1, <2>2 DEF CaesarState
<1>10. MemIsOurs' BY <1>1 DEF MemIsOurs
<1>11. WrittenWhenCalm' BY <1>1, <1>2, <1>3 DEF WrittenWhenCalm
<1>12. TextIsPassed'
  <2>1. Ours' = Ours BY <1>1 DEF Ours
  <2>2. Ours => \E k \in 0 .. q : text' = Append(SubSeq(Passed, 1, k), NL)
    <3>1. Ours => i \in 0 .. q BY <1>4, <1>5, <1>6
    <3> QED BY <1>1, <1>8, <3>1
  <2>3. Ours /\ Calm /\ typed # <<>> => text' = Append(Passed, NL)
    <3>1. SubSeq(Passed, 1, q) = Passed BY <1>4, SubSeqFull
    <3> QED BY <1>1, <1>6, <1>8, <3>1
  <2> QED BY <1>1, <1>2, <2>1, <2>2, <2>3 DEF TextIsPassed, Decrypting
<1> QED BY <1>9, <1>10, <1>11, <1>12 DEF CaesarInv

LEMMA CaesarStep ==
    ASSUME CaesarInv, [CaesarNext /\ UNCHANGED courseVars]_<<caesarVars, courseVars>>
    PROVE  CaesarInv'
<1>1. CASE UNCHANGED <<caesarVars, courseVars>>
  <2>1. Source' = Source /\ Passed' = Passed BY <1>1, SameText DEF caesarVars
  <2> QED BY <1>1, <2>1 DEF caesarVars, courseVars, CaesarInv, CaesarState, MemIsOurs, WrittenWhenCalm, TextIsPassed,
                            Ours, Decrypting, Calm
<1> QED BY <1>1, EncryptWriterStep, OpenTextStep, ReadByteStep, DecryptAndClearStep DEF CaesarNext, DecryptWriter

LEMMA CaesarFollows == ASSUME CaesarInv PROVE CaesarPrefix /\ CaesarTypeOK
<1>1. CaesarPrefix BY DEF CaesarInv, TextIsPassed, CaesarPrefix, Ours
<1>2. copied \subseteq Bytes
  <2>1. Len(Source) \in Nat /\ Len(Source) <= SHM_SIZE - 1 BY SourceText DEF CaesarInv, CaesarState
  <2>2. 0 .. Len(Source) - 1 \subseteq Bytes BY <2>1, CaesarConstants DEF Bytes
  <2> QED BY <2>2 DEF CaesarInv, CaesarState
<1> QED BY <1>1, <1>2 DEF CaesarInv, CaesarState, CaesarTypeOK, Chars

\* Bono/C4: for every line that can be typed, every size of the block and of a
\* character, the reader prints what the writer can pass on, or, when it comes
\* too early, the beginning of it.
THEOREM TextIsPassedOn == CaesarSpec => [](CaesarPrefix /\ CaesarTypeOK)
<1>1. CaesarInit => CaesarInv BY CaesarInitInv
<1>2. CaesarInv /\ [CaesarNext /\ UNCHANGED courseVars]_<<caesarVars, courseVars>> => CaesarInv' BY CaesarStep
<1>3. CaesarInv => CaesarPrefix /\ CaesarTypeOK BY CaesarFollows
<1> QED BY <1>1, <1>2, <1>3, PTL DEF CaesarSpec

-----------------------------------------------------------------------------
(* The sorter: Merge *)

\* How many elements the merge has taken from the left half, as Merge computes it.
Takes(taken, arr, left, mid, right) ==
    taken = [k \in left .. right + 1 |->
                IF k = left THEN 0
                ELSE LET i == left + taken[k - 1]
                         j == mid + 1 + (k - 1 - left - taken[k - 1])
                     IN  IF TakeLeft(arr, i, mid, j, right) THEN taken[k - 1] + 1 ELSE taken[k - 1]]

\* Where the merge takes the next element of the left half and of the right half.
NextLeft(taken, left, k) == left + taken[k]
NextRight(taken, left, mid, k) == mid + 1 + (k - left - taken[k])

\* Where the element comes from that the merge puts at k.
Origin(taken, left, mid, right, k) ==
    IF k \notin left .. right THEN k
    ELSE IF taken[k + 1] > taken[k] THEN NextLeft(taken, left, k) ELSE NextRight(taken, left, mid, k)

\* The merge of two parts is what these steps put together.
Merges(taken, arr, left, mid, right) ==
    /\ Takes(taken, arr, left, mid, right)
    /\ \A k \in DOMAIN arr : Merge(arr, left, mid, right)[k] = arr[Origin(taken, left, mid, right, k)]

LEMMA TakesExists ==
    ASSUME NEW arr, NEW left \in Int, NEW mid \in Int, NEW right \in Int, left <= right
    PROVE  \E taken : Takes(taken, arr, left, mid, right)
<1> DEFINE Next(k, x) == IF TakeLeft(arr, left + x, mid, mid + 1 + (k - left - x), right) THEN x + 1 ELSE x
           N == right - left + 2
           next == [i \in 1 .. N |-> [x \in Nat |-> Next(left + i - 2, x)]]
<1>1. N \in Nat OBVIOUS
<1>2. \A i \in 1 .. N, x \in Nat : next[i][x] = Next(left + i - 2, x) /\ Next(left + i - 2, x) \in Nat OBVIOUS
<1> HIDE DEF next, Next
<1>3. PICK g : StepByStep(g, N, Nat, 0, next)
  <2>1. \A i \in 1 .. N, x \in Nat : next[i][x] \in Nat BY <1>2
  <2> HIDE DEF N
  <2> QED BY <1>1, <2>1, StepByStepExists
<1> DEFINE taken == [k \in left .. right + 1 |-> g[k - left + 1]]
<1>4. ASSUME NEW k \in left .. right + 1
      PROVE  taken[k] = IF k = left THEN 0 ELSE Next(k - 1, taken[k - 1])
  <2> DEFINE i == k - left + 1
  <2>1. i \in 1 .. N /\ left + i - 2 = k - 1 OBVIOUS
  <2>2. g[i] = IF i = 1 THEN 0 ELSE next[i][g[i - 1]] BY <1>3, <2>1 DEF StepByStep
  <2>3. CASE k = left BY <2>2, <2>3
  <2>4. CASE k # left
    <3>1. i - 1 \in 1 .. N /\ i - 1 = (k - 1) - left + 1 /\ i # 1 BY <2>4
    <3>2. g[i - 1] \in Nat BY <1>3, <3>1 DEF StepByStep
    <3>3. taken[k - 1] = g[i - 1] BY <2>4, <3>1
    <3>4. next[i][g[i - 1]] = Next(left + i - 2, g[i - 1]) BY <1>2, <2>1, <3>2
    <3>5. Next(left + i - 2, g[i - 1]) = Next(k - 1, g[i - 1])
      <4> HIDE DEF i
      <4> QED BY <2>1
    <3>6. taken[k] = g[i] OBVIOUS
    <3> HIDE DEF i, taken
    <3> QED BY <2>2, <2>4, <3>1, <3>3, <3>4, <3>5, <3>6
  <2> QED BY <2>3, <2>4
<1>5. taken = [k \in left .. right + 1 |-> taken[k]] OBVIOUS
<1> HIDE DEF taken
<1>6. Takes(taken, arr, left, mid, right) BY <1>4, <1>5 DEF Takes, Next
<1> QED BY <1>6

LEMMA MergeTakes ==
    ASSUME NEW arr, NEW left \in Int, NEW mid \in Int, NEW right \in Int, left <= right
    PROVE  /\ Merge(arr, left, mid, right) = [k \in DOMAIN arr |-> Merge(arr, left, mid, right)[k]]
           /\ \E taken : Merges(taken, arr, left, mid, right)
<1> DEFINE P(t) == t = [k \in left .. right + 1 |->
                IF k = left THEN 0
                ELSE LET i == left + t[k - 1]
                         j == mid + 1 + (k - 1 - left - t[k - 1])
                     IN  IF TakeLeft(arr, i, mid, j, right) THEN t[k - 1] + 1 ELSE t[k - 1]]
           t == CHOOSE u : P(u)
<1>1. Merge(arr, left, mid, right)
         = [k \in DOMAIN arr |->
            IF k \notin left .. right THEN arr[k]
            ELSE IF t[k + 1] > t[k] THEN arr[left + t[k]]
                 ELSE arr[mid + 1 + (k - left - t[k])]]
  BY DEF Merge
<1>2. \A u : P(u) <=> Takes(u, arr, left, mid, right) BY DEF Takes
<1>3. \E u : P(u) BY <1>2, TakesExists
<1> HIDE DEF P
<1>4. Takes(t, arr, left, mid, right) BY <1>2, <1>3
<1> HIDE DEF t
<1> DEFINE b == Merge(arr, left, mid, right)
<1>5. b = [k \in DOMAIN arr |-> b[k]] BY <1>1
<1>6. \A k \in DOMAIN arr : b[k] = arr[Origin(t, left, mid, right, k)]
  BY <1>1 DEF Origin, NextLeft, NextRight
<1> HIDE DEF b
<1>7. Merges(t, arr, left, mid, right) BY <1>4, <1>6 DEF Merges, b
<1> QED BY <1>5, <1>7 DEF b

\* Each step takes one element, and none that is not there.
LEMMA TakesStep ==
    ASSUME NEW arr, NEW left \in Int, NEW mid \in Int, NEW right \in Int, left <= mid, mid < right,
           NEW taken, Takes(taken, arr, left, mid, right)
    PROVE  /\ taken[left] = 0
           /\ \A k \in left .. right :
                 taken[k + 1] = IF TakeLeft(arr, NextLeft(taken, left, k), mid, NextRight(taken, left, mid, k), right)
                                THEN taken[k] + 1 ELSE taken[k]
<1>1. taken[left] = 0 BY DEF Takes
<1>2. ASSUME NEW k \in left .. right
      PROVE  taken[k + 1] = IF TakeLeft(arr, NextLeft(taken, left, k), mid, NextRight(taken, left, mid, k), right)
                            THEN taken[k] + 1 ELSE taken[k]
  <2> DEFINE q == k + 1
  <2>1. q \in left .. right + 1 /\ q # left /\ q - 1 = k OBVIOUS
  <2>2. taken[q] = IF TakeLeft(arr, left + taken[q - 1], mid, mid + 1 + (q - 1 - left - taken[q - 1]), right)
                   THEN taken[q - 1] + 1 ELSE taken[q - 1]
    <3> HIDE DEF q
    <3> QED BY <2>1 DEF Takes
  <2> QED BY <2>1, <2>2 DEF NextLeft, NextRight
<1> QED BY <1>1, <1>2

LEMMA TakesBounds ==
    ASSUME NEW arr, NEW left \in Int, NEW mid \in Int, NEW right \in Int, left <= mid, mid < right,
           NEW taken, Takes(taken, arr, left, mid, right)
    PROVE  \A k \in left .. right + 1 :
              taken[k] \in Int /\ NextLeft(taken, left, k) \in left .. mid + 1 /\ NextRight(taken, left, mid, k) \in mid + 1 .. right + 1
<1> DEFINE Fits(k) == /\ taken[k] \in Int /\ NextLeft(taken, left, k) \in left .. mid + 1
                      /\ NextRight(taken, left, mid, k) \in mid + 1 .. right + 1
           N == right + 1 - left
           Good == {i \in 0 .. N : Fits(left + i)}
<1>1. 0 \in Good
  <2>1. taken[left] = 0 BY DEF Takes
  <2> QED BY <2>1 DEF NextLeft, NextRight
<1>2. ASSUME NEW i \in 0 .. N - 1, i \in Good PROVE i + 1 \in Good
  <2> DEFINE k == left + i
  <2>1. k \in left .. right /\ Fits(k) BY <1>2
  <2>2. taken[k + 1] = IF TakeLeft(arr, NextLeft(taken, left, k), mid, NextRight(taken, left, mid, k), right)
                       THEN taken[k] + 1 ELSE taken[k]
    BY <2>1, TakesStep
  <2>3. Fits(k + 1)
    <3> HIDE DEF k
    <3> QED BY <2>1, <2>2 DEF TakeLeft, NextLeft, NextRight
  <2>4. i + 1 \in 0 .. N /\ k + 1 = left + (i + 1) OBVIOUS
  <2> HIDE DEF k, Fits, N
  <2> QED BY <2>3, <2>4
<1> HIDE DEF Good
<1>3. 0 .. N \subseteq Good
  <2>1. N \in Nat OBVIOUS
  <2> HIDE DEF N
  <2> QED BY <1>1, <1>2, <2>1, UpTo
<1>4. ASSUME NEW k \in left .. right + 1 PROVE Fits(k)
  <2>1. k - left \in 0 .. N /\ left + (k - left) = k OBVIOUS
  <2> HIDE DEF N, Fits
  <2>2. k - left \in Good BY <1>3, <2>1
  <2> QED BY <2>1, <2>2 DEF Good
<1> QED BY <1>4

\* What has been taken stays taken.
LEMMA TakesOnward ==
    ASSUME NEW arr, NEW left \in Int, NEW mid \in Int, NEW right \in Int, left <= mid, mid < right,
           NEW taken, Takes(taken, arr, left, mid, right),
           NEW k \in left .. right + 1, NEW q \in k .. right + 1
    PROVE  NextLeft(taken, left, k) <= NextLeft(taken, left, q) /\ NextRight(taken, left, mid, k) <= NextRight(taken, left, mid, q)
<1> DEFINE After(p) == NextLeft(taken, left, k) <= NextLeft(taken, left, p) /\ NextRight(taken, left, mid, k) <= NextRight(taken, left, mid, p)
           N == right + 1 - k
           Good == {i \in 0 .. N : After(k + i)}
<1>1. 0 \in Good
  <2>1. taken[k] \in Int BY TakesBounds
  <2> QED BY <2>1 DEF NextLeft, NextRight
<1>2. ASSUME NEW i \in 0 .. N - 1, i \in Good PROVE i + 1 \in Good
  <2> DEFINE p == k + i
  <2>1. p \in left .. right /\ p \in left .. right + 1 /\ After(p) BY <1>2
  <2>2. taken[p + 1] = IF TakeLeft(arr, NextLeft(taken, left, p), mid, NextRight(taken, left, mid, p), right)
                       THEN taken[p] + 1 ELSE taken[p]
    BY <2>1, TakesStep
  <2>3. taken[p] \in Int /\ taken[k] \in Int BY <2>1, TakesBounds
  <2>4. After(p + 1)
    <3> HIDE DEF p
    <3> QED BY <2>1, <2>2, <2>3 DEF NextLeft, NextRight
  <2>5. i + 1 \in 0 .. N /\ p + 1 = k + (i + 1) OBVIOUS
  <2> HIDE DEF p, After, N
  <2> QED BY <2>4, <2>5
<1> HIDE DEF Good
<1>3. 0 .. N \subseteq Good
  <2>1. N \in Nat OBVIOUS
  <2> HIDE DEF N
  <2> QED BY <1>1, <1>2, <2>1, UpTo
<1>4. q - k \in 0 .. N /\ k + (q - k) = q OBVIOUS
<1> HIDE DEF N, After
<1>5. After(q) BY <1>3, <1>4 DEF Good
<1> QED BY <1>5 DEF After

\* No two places are filled from the same one, and none from outside.
LEMMA OriginsDiffer ==
    ASSUME NEW arr, NEW left \in Int, NEW mid \in Int, NEW right \in Int, left <= mid, mid < right,
           NEW taken, Takes(taken, arr, left, mid, right)
    PROVE  /\ \A k \in left .. right : Origin(taken, left, mid, right, k) \in left .. right
           /\ \A k \in left .. right, q \in left .. right :
                 k < q => Origin(taken, left, mid, right, k) # Origin(taken, left, mid, right, q)
<1>1. ASSUME NEW k \in left .. right
      PROVE  /\ NextLeft(taken, left, k) \in Int /\ NextRight(taken, left, mid, k) \in Int
             /\ \/ /\ TakeLeft(arr, NextLeft(taken, left, k), mid, NextRight(taken, left, mid, k), right)
                   /\ Origin(taken, left, mid, right, k) = NextLeft(taken, left, k)
                   /\ NextLeft(taken, left, k + 1) = NextLeft(taken, left, k) + 1
                   /\ NextLeft(taken, left, k) \in left .. mid
                \/ /\ ~TakeLeft(arr, NextLeft(taken, left, k), mid, NextRight(taken, left, mid, k), right)
                   /\ Origin(taken, left, mid, right, k) = NextRight(taken, left, mid, k)
                   /\ NextRight(taken, left, mid, k + 1) = NextRight(taken, left, mid, k) + 1
                   /\ NextRight(taken, left, mid, k) \in mid + 1 .. right
  <2>1. k \in left .. right + 1 /\ k + 1 \in left .. right + 1 OBVIOUS
  <2>2. /\ taken[k] \in Int /\ NextLeft(taken, left, k) \in left .. mid + 1
        /\ NextRight(taken, left, mid, k) \in mid + 1 .. right + 1
    BY <2>1, TakesBounds
  <2>3. taken[k + 1] = IF TakeLeft(arr, NextLeft(taken, left, k), mid, NextRight(taken, left, mid, k), right)
                       THEN taken[k] + 1 ELSE taken[k]
    BY TakesStep
  <2> QED BY <2>2, <2>3 DEF TakeLeft, NextLeft, NextRight, Origin
<1>2. ASSUME NEW k \in left .. right, NEW q \in left .. right, k < q
      PROVE  Origin(taken, left, mid, right, k) # Origin(taken, left, mid, right, q)
  <2>1. /\ k \in left .. right + 1 /\ k + 1 \in left .. right + 1
        /\ q \in (k + 1) .. right + 1 /\ q \in left .. right + 1
    BY <1>2
  <2>2. /\ NextLeft(taken, left, k + 1) <= NextLeft(taken, left, q)
        /\ NextRight(taken, left, mid, k + 1) <= NextRight(taken, left, mid, q)
    BY <2>1, TakesOnward
  <2>3. NextLeft(taken, left, k) \in Int /\ NextRight(taken, left, mid, k) \in Int BY <1>1
  <2>4. NextLeft(taken, left, q) \in left .. mid + 1 /\ NextRight(taken, left, mid, q) \in mid + 1 .. right + 1
    BY <2>1, TakesBounds
  <2> QED BY <1>1, <2>2, <2>3, <2>4
<1> QED BY <1>1, <1>2

\* b is a, with the elements of left .. right in another order.
Reorders(b, a, n, left, right) ==
    /\ a \in [0 .. n - 1 -> INT] /\ b \in [0 .. n - 1 -> INT]
    /\ \E p \in [0 .. n - 1 -> 0 .. n - 1] :
          /\ \A i, j \in 0 .. n - 1 : p[i] = p[j] => i = j
          /\ \A i \in 0 .. n - 1 : IF i \in left .. right THEN p[i] \in left .. right ELSE p[i] = i
          /\ \A i \in 0 .. n - 1 : b[i] = a[p[i]]

Ascends(a, left, right) == \A i, j \in left .. right : i < j => a[i] <= a[j]

LEMMA ReordersItself ==
    ASSUME NEW n \in Nat, NEW a \in [0 .. n - 1 -> INT], NEW left \in Int, NEW right \in Int
    PROVE  Reorders(a, a, n, left, right)
<1> DEFINE p == [i \in 0 .. n - 1 |-> i]
<1>1. /\ p \in [0 .. n - 1 -> 0 .. n - 1] /\ \A i \in 0 .. n - 1 : p[i] = i OBVIOUS
<1> HIDE DEF p
<1> QED BY <1>1 DEF Reorders

\* One reordering after another, the first of a part of what the second one reorders.
LEMMA ReordersTwice ==
    ASSUME NEW n \in Nat, NEW a, NEW b, NEW c, NEW l \in Int, NEW r \in Int, NEW left \in Int, NEW right \in Int,
           left <= l, r <= right, Reorders(b, a, n, l, r), Reorders(c, b, n, left, right)
    PROVE  Reorders(c, a, n, left, right)
<1> DEFINE D == 0 .. n - 1
<1>1. PICK p \in [D -> D] :
          /\ \A i, j \in D : p[i] = p[j] => i = j
          /\ \A i \in D : IF i \in l .. r THEN p[i] \in l .. r ELSE p[i] = i
          /\ \A i \in D : b[i] = a[p[i]]
  BY DEF Reorders
<1>2. PICK q \in [D -> D] :
          /\ \A i, j \in D : q[i] = q[j] => i = j
          /\ \A i \in D : IF i \in left .. right THEN q[i] \in left .. right ELSE q[i] = i
          /\ \A i \in D : c[i] = b[q[i]]
  BY DEF Reorders
<1> DEFINE s == [i \in D |-> p[q[i]]]
<1>3. s \in [D -> D] /\ \A i \in D : s[i] = p[q[i]] /\ q[i] \in D BY <1>1, <1>2
<1>4. \A i, j \in D : s[i] = s[j] => i = j
  <2> HIDE DEF s, D
  <2> QED BY <1>1, <1>2, <1>3
<1>5. ASSUME NEW i \in D PROVE IF i \in left .. right THEN s[i] \in left .. right ELSE s[i] = i
  <2>1. s[i] = p[q[i]] /\ q[i] \in D BY <1>3
  <2>2. IF q[i] \in l .. r THEN s[i] \in l .. r ELSE s[i] = q[i] BY <1>1, <2>1
  <2>3. IF i \in left .. right THEN q[i] \in left .. right ELSE q[i] = i BY <1>2
  <2> HIDE DEF s, D
  <2> QED BY <2>2, <2>3
<1>6. \A i \in D : c[i] = a[s[i]]
  <2> HIDE DEF s, D
  <2> QED BY <1>1, <1>2, <1>3
<1> HIDE DEF s
<1> QED BY <1>3, <1>4, <1>5, <1>6 DEF Reorders

\* A merge loses nothing, whatever the halves are, and of two ascending halves
\* makes an ascending whole.
LEMMA MergeReorders ==
    ASSUME NEW n \in Nat, NEW arr \in [0 .. n - 1 -> INT],
           NEW left \in 0 .. n - 1, NEW right \in 0 .. n - 1, NEW mid \in left .. right - 1
    PROVE  Reorders(Merge(arr, left, mid, right), arr, n, left, right)
<1> DEFINE D == 0 .. n - 1
           b == Merge(arr, left, mid, right)
<1>1. left \in Int /\ right \in Int /\ mid \in Int /\ left <= mid /\ mid < right /\ left <= right OBVIOUS
<1>2. PICK taken : /\ Takes(taken, arr, left, mid, right)
                   /\ \A k \in D : b[k] = arr[Origin(taken, left, mid, right, k)]
  <2>1. DOMAIN arr = D OBVIOUS
  <2>2. \E taken : Merges(taken, arr, left, mid, right) BY <1>1, MergeTakes
  <2> QED BY <2>1, <2>2 DEF Merges
<1> DEFINE p == [k \in D |-> Origin(taken, left, mid, right, k)]
<1>3. /\ \A k \in left .. right : Origin(taken, left, mid, right, k) \in left .. right
      /\ \A k \in left .. right, q \in left .. right :
            k < q => Origin(taken, left, mid, right, k) # Origin(taken, left, mid, right, q)
  BY <1>1, <1>2, OriginsDiffer
<1>4. \A k \in D : k \notin left .. right => Origin(taken, left, mid, right, k) = k BY DEF Origin
<1>5. left .. right \subseteq D OBVIOUS
<1>6. \A k \in D : p[k] = Origin(taken, left, mid, right, k) OBVIOUS
<1>7. \A k \in D : IF k \in left .. right THEN p[k] \in left .. right ELSE p[k] = k BY <1>3, <1>4, <1>6
<1>8. p \in [D -> D]
  <2>1. \A k \in D : Origin(taken, left, mid, right, k) \in D BY <1>5, <1>6, <1>7
  <2> QED BY <2>1
<1> HIDE DEF p
<1>9. ASSUME NEW i \in D, NEW j \in D, i # j PROVE p[i] # p[j]
  <2>1. CASE i \in left .. right /\ j \in left .. right
    <3>1. i < j \/ j < i BY <1>9
    <3> QED BY <1>3, <1>6, <2>1, <3>1
  <2>2. CASE i \notin left .. right \/ j \notin left .. right BY <1>7, <1>9, <2>2
  <2> QED BY <2>1, <2>2
<1>10. DOMAIN arr = D /\ \A i \in D : b[i] = arr[p[i]] BY <1>2, <1>6
<1>11. b \in [D -> INT]
  <2>1. \A i \in D : arr[p[i]] \in INT BY <1>8
  <2>2. b = [i \in D |-> b[i]] BY <1>1, <1>10, MergeTakes
  <2> HIDE DEF b
  <2> QED BY <1>10, <2>1, <2>2
<1> HIDE DEF b
<1>12. Reorders(b, arr, n, left, right)
  <2>1. \A i, j \in D : p[i] = p[j] => i = j BY <1>9
  <2> QED BY <1>7, <1>8, <1>10, <1>11, <2>1 DEF Reorders
<1> QED BY <1>12 DEF b

LEMMA MergeAscends ==
    ASSUME NEW n \in Nat, NEW arr \in [0 .. n - 1 -> INT],
           NEW left \in 0 .. n - 1, NEW right \in 0 .. n - 1, NEW mid \in left .. right - 1,
           Ascends(arr, left, mid), Ascends(arr, mid + 1, right)
    PROVE  Ascends(Merge(arr, left, mid, right), left, right)
<1> DEFINE D == 0 .. n - 1
           b == Merge(arr, left, mid, right)
<1>1. left \in Int /\ right \in Int /\ mid \in Int /\ left <= mid /\ mid < right /\ left <= right OBVIOUS
<1>2. PICK taken : /\ Takes(taken, arr, left, mid, right)
                   /\ \A k \in D : b[k] = arr[Origin(taken, left, mid, right, k)]
  <2>1. DOMAIN arr = D OBVIOUS
  <2>2. \E taken : Merges(taken, arr, left, mid, right) BY <1>1, MergeTakes
  <2> QED BY <2>1, <2>2 DEF Merges
<1> DEFINE L(k) == NextLeft(taken, left, k)
           R(k) == NextRight(taken, left, mid, k)
           O(k) == Origin(taken, left, mid, right, k)
<1>3. \A x \in left .. right : arr[x] \in Int BY DEF INT
<1> SUFFICES ASSUME NEW k \in left .. right, NEW q \in left .. right, k < q PROVE b[k] <= b[q]
  BY DEF Ascends
<1>4. k \in left .. right + 1 /\ k + 1 \in left .. right + 1 /\ q \in (k + 1) .. right + 1 /\ q \in left .. right + 1
      /\ q + 1 \in left .. right + 1
  OBVIOUS
<1>5. b[k] = arr[O(k)] /\ b[q] = arr[O(q)] BY <1>2
<1>6. taken[k] \in Int /\ L(k) \in left .. mid + 1 /\ R(k) \in mid + 1 .. right + 1 BY <1>1, <1>2, <1>4, TakesBounds
<1>7. taken[q] \in Int /\ L(q) \in left .. mid + 1 /\ R(q) \in mid + 1 .. right + 1 BY <1>1, <1>2, <1>4, TakesBounds
<1>8. L(k + 1) <= L(q) /\ R(k + 1) <= R(q) BY <1>1, <1>2, <1>4, TakesOnward
<1>9. /\ taken[k + 1] = IF TakeLeft(arr, L(k), mid, R(k), right) THEN taken[k] + 1 ELSE taken[k]
      /\ taken[q + 1] = IF TakeLeft(arr, L(q), mid, R(q), right) THEN taken[q] + 1 ELSE taken[q]
  BY <1>1, <1>2, TakesStep
<1>10. (O(q) = L(q) /\ L(q) <= mid) \/ (O(q) = R(q) /\ R(q) <= right)
  <2>1. CASE TakeLeft(arr, L(q), mid, R(q), right)
    <3>1. L(q) <= mid BY <2>1 DEF TakeLeft
    <3>2. taken[q + 1] = taken[q] + 1 BY <1>9, <2>1
    <3> QED BY <1>1, <1>7, <3>1, <3>2 DEF Origin
  <2>2. CASE ~TakeLeft(arr, L(q), mid, R(q), right)
    <3>1. R(q) <= right
      <4>1. L(q) <= mid => R(q) <= right
        <5> HIDE DEF L, R
        <5> QED BY <1>1, <1>7, <2>2 DEF TakeLeft
      <4>2. L(q) > mid => R(q) = q BY <1>1, <1>7 DEF NextLeft, NextRight
      <4> HIDE DEF L, R
      <4> QED BY <1>1, <1>7, <4>1, <4>2
    <3>2. taken[q + 1] = taken[q] BY <1>9, <2>2
    <3> QED BY <1>1, <1>7, <3>1, <3>2 DEF Origin
  <2> QED BY <2>1, <2>2
<1>11. CASE TakeLeft(arr, L(k), mid, R(k), right)
  <2>1. O(k) = L(k) /\ L(k) <= mid /\ L(k + 1) = L(k) + 1 /\ R(k + 1) = R(k)
    <3>1. L(k) <= mid BY <1>11 DEF TakeLeft
    <3>2. taken[k + 1] = taken[k] + 1 BY <1>9, <1>11
    <3>3. O(k) = L(k) BY <1>1, <1>6, <3>2 DEF Origin
    <3>4. L(k + 1) = L(k) + 1 BY <1>1, <1>6, <3>2 DEF NextLeft
    <3>5. R(k + 1) = R(k) BY <1>1, <1>6, <3>2 DEF NextRight
    <3> QED BY <3>1, <3>3, <3>4, <3>5
  <2>2. R(k) <= right => arr[L(k)] <= arr[R(k)] BY <1>6, <1>11 DEF TakeLeft
  <2> HIDE DEF L, R, O
  <2>3. CASE O(q) = L(q) /\ L(q) <= mid
    <3>1. L(k) \in left .. mid /\ L(q) \in left .. mid /\ L(k) < L(q) BY <1>6, <1>7, <1>8, <2>1, <2>3
    <3>2. arr[L(k)] <= arr[L(q)] BY <3>1 DEF Ascends
    <3> QED BY <1>5, <2>1, <2>3, <3>2
  <2>4. CASE O(q) = R(q) /\ R(q) <= right
    <3>1. R(k) \in mid + 1 .. right /\ R(q) \in mid + 1 .. right /\ R(k) <= R(q) BY <1>6, <1>7, <1>8, <2>1, <2>4
    <3>2. R(k) = R(q) \/ arr[R(k)] <= arr[R(q)]
      <4>1. R(k) = R(q) \/ R(k) < R(q) BY <3>1
      <4> QED BY <3>1, <4>1 DEF Ascends
    <3>3. arr[L(k)] <= arr[R(k)] BY <2>2, <3>1
    <3>4. arr[L(k)] \in Int /\ arr[R(k)] \in Int /\ arr[R(q)] \in Int
      <4>1. L(k) \in left .. right /\ R(k) \in left .. right /\ R(q) \in left .. right BY <1>6, <2>1, <3>1
      <4> QED BY <1>3, <4>1
    <3>5. arr[L(k)] <= arr[R(q)] BY <3>2, <3>3, <3>4
    <3> QED BY <1>5, <2>1, <2>4, <3>5
  <2> QED BY <1>10, <2>3, <2>4
<1>12. CASE ~TakeLeft(arr, L(k), mid, R(k), right)
  <2>1. O(k) = R(k) /\ L(k + 1) = L(k) /\ R(k + 1) = R(k) + 1
    <3>1. taken[k + 1] = taken[k] BY <1>9, <1>12
    <3>2. O(k) = R(k)
      <4>1. ~(taken[k + 1] > taken[k]) BY <1>6, <3>1
      <4> QED BY <4>1 DEF Origin
    <3>3. L(k + 1) = L(k)
      <4>1. L(k + 1) = left + taken[k + 1] /\ L(k) = left + taken[k] BY DEF NextLeft
      <4> HIDE DEF L
      <4> QED BY <3>1, <4>1
    <3>4. R(k + 1) = R(k) + 1
      <4>1. R(k + 1) = mid + 1 + ((k + 1) - left - taken[k + 1]) BY DEF NextRight
      <4>2. R(k) = mid + 1 + (k - left - taken[k]) BY DEF NextRight
      <4>3. taken[k] \in Int /\ k \in Int /\ mid \in Int /\ left \in Int BY <1>1, <1>6
      <4> HIDE DEF R
      <4> QED BY <3>1, <4>1, <4>2, <4>3
    <3> QED BY <3>2, <3>3, <3>4
  <2>2. R(k) <= right
    <3>1. L(k) <= mid => R(k) <= right
      <4> HIDE DEF L, R
      <4> QED BY <1>1, <1>6, <1>12 DEF TakeLeft
    <3>2. L(k) > mid => R(k) = k
      <4>1. L(k) = left + taken[k] BY DEF NextLeft
      <4>2. R(k) = mid + 1 + (k - left - taken[k]) BY DEF NextRight
      <4> HIDE DEF L, R
      <4> QED BY <1>1, <1>6, <4>1, <4>2
    <3> HIDE DEF L, R
    <3> QED BY <1>1, <1>6, <3>1, <3>2
  <2>3. L(k) <= mid => arr[R(k)] <= arr[L(k)]
    <3>1. ASSUME L(k) <= mid PROVE ~(arr[L(k)] <= arr[R(k)]) BY <1>12, <3>1 DEF TakeLeft
    <3>2. ASSUME L(k) <= mid PROVE arr[L(k)] \in Int /\ arr[R(k)] \in Int
      <4> HIDE DEF L, R
      <4>1. L(k) \in left .. right /\ R(k) \in left .. right BY <1>1, <1>6, <2>2, <3>2
      <4> QED BY <1>3, <4>1
    <3> QED BY <3>1, <3>2
  <2> HIDE DEF L, R, O
  <2>4. CASE O(q) = R(q) /\ R(q) <= right
    <3>1. R(k) \in mid + 1 .. right /\ R(q) \in mid + 1 .. right /\ R(k) < R(q)
      <4>1. R(k) < R(q) BY <1>6, <1>7, <1>8, <2>1
      <4>2. R(q) \in mid + 1 .. right BY <1>1, <1>7, <2>4
      <4>3. R(k) \in mid + 1 .. right BY <1>1, <1>6, <2>2
      <4> QED BY <4>1, <4>2, <4>3
    <3>2. arr[R(k)] <= arr[R(q)] BY <3>1 DEF Ascends
    <3> QED BY <1>5, <2>1, <2>4, <3>2
  <2>5. CASE O(q) = L(q) /\ L(q) <= mid
    <3>1. L(k) \in left .. mid /\ L(q) \in left .. mid /\ L(k) <= L(q) BY <1>6, <1>7, <1>8, <2>1, <2>5
    <3>2. L(k) = L(q) \/ arr[L(k)] <= arr[L(q)]
      <4>1. L(k) = L(q) \/ L(k) < L(q) BY <3>1
      <4> QED BY <3>1, <4>1 DEF Ascends
    <3>3. arr[R(k)] <= arr[L(k)] BY <2>3, <3>1
    <3>4. arr[L(k)] \in Int /\ arr[L(q)] \in Int /\ arr[R(k)] \in Int
      <4>1. L(k) \in left .. right /\ L(q) \in left .. right /\ R(k) \in left .. right
        BY <1>1, <1>6, <2>2, <3>1
      <4> QED BY <1>3, <4>1
    <3>5. arr[R(k)] <= arr[L(q)] BY <3>2, <3>3, <3>4
    <3> QED BY <1>5, <2>1, <2>5, <3>5
  <2> QED BY <1>10, <2>4, <2>5
<1> QED BY <1>11, <1>12

-----------------------------------------------------------------------------
(* MergeSort *)

\* A call of MergeSort on an array of n numbers, and what it makes of it if sort
\* says what the calls do that it makes itself.
SortCalls(n) == [arr : [0 .. n - 1 -> INT], left : 0 .. n - 1, right : 0 .. n - 1]

Mid(call) == call.left + (call.right - call.left) \div 2
FirstHalf(call) == [call EXCEPT !.right = Mid(call)]
SecondHalf(call, half) == [call EXCEPT !.arr = half, !.left = Mid(call) + 1]

Sorted(sort, call) ==
    IF call.left < call.right
    THEN Merge(sort[SecondHalf(call, sort[FirstHalf(call)])], call.left, Mid(call), call.right)
    ELSE call.arr

Length(call) == call.right - call.left

LEMMA SmallerCalls ==
    ASSUME NEW n \in Nat, NEW call \in SortCalls(n), call.left < call.right
    PROVE  /\ Mid(call) \in call.left .. call.right - 1
           /\ FirstHalf(call) \in SortCalls(n) /\ Length(FirstHalf(call)) < Length(call)
           /\ FirstHalf(call).arr = call.arr /\ FirstHalf(call).left = call.left
           /\ FirstHalf(call).right = Mid(call)
           /\ \A half \in [0 .. n - 1 -> INT] :
                 /\ SecondHalf(call, half) \in SortCalls(n) /\ Length(SecondHalf(call, half)) < Length(call)
                 /\ SecondHalf(call, half).arr = half /\ SecondHalf(call, half).left = Mid(call) + 1
                 /\ SecondHalf(call, half).right = call.right
<1> DEFINE A == [0 .. n - 1 -> INT]
<1>1. call.arr \in A /\ call.left \in 0 .. n - 1 /\ call.right \in 0 .. n - 1 BY DEF SortCalls
<1>2. call = [arr |-> call.arr, left |-> call.left, right |-> call.right] BY DEF SortCalls
<1>3. Mid(call) \in call.left .. call.right - 1
  <2>1. \A d \in Nat \ {0} : d \div 2 \in 0 .. d - 1 OBVIOUS
  <2>2. call.right - call.left \in Nat \ {0} BY <1>1
  <2> QED BY <1>1, <2>1, <2>2 DEF Mid
<1> HIDE DEF A
<1>4. FirstHalf(call) = [arr |-> call.arr, left |-> call.left, right |-> Mid(call)] BY <1>2 DEF FirstHalf
<1>5. \A half : SecondHalf(call, half) = [arr |-> half, left |-> Mid(call) + 1, right |-> call.right]
  <2> SUFFICES ASSUME NEW half
               PROVE  SecondHalf(call, half) = [arr |-> half, left |-> Mid(call) + 1, right |-> call.right]
    OBVIOUS
  <2> DEFINE m == Mid(call) + 1
             first == [call EXCEPT !.arr = half]
  <2> HIDE DEF m
  <2>1. first = [arr |-> half, left |-> call.left, right |-> call.right] BY <1>2
  <2>2. SecondHalf(call, half) = [first EXCEPT !.left = m] BY DEF SecondHalf, m
  <2> HIDE DEF first
  <2>3. SecondHalf(call, half) = [arr |-> half, left |-> m, right |-> call.right] BY <2>1, <2>2
  <2> QED BY <2>3 DEF m
<1>6. Mid(call) \in 0 .. n - 1 /\ Mid(call) + 1 \in 0 .. n - 1 BY <1>1, <1>3
<1>7. FirstHalf(call) \in SortCalls(n) BY <1>1, <1>4, <1>6 DEF SortCalls, A
<1>8. \A half \in A : SecondHalf(call, half) \in SortCalls(n) BY <1>1, <1>5, <1>6 DEF SortCalls, A
<1>9. Length(FirstHalf(call)) < Length(call) BY <1>1, <1>3, <1>4 DEF Length
<1>10. \A half : Length(SecondHalf(call, half)) < Length(call) BY <1>1, <1>3, <1>5 DEF Length
<1> QED BY <1>3, <1>4, <1>5, <1>7, <1>8, <1>9, <1>10 DEF A

\* What a call makes depends on the shorter calls only.
LEMMA SortedSame ==
    ASSUME NEW n \in Nat, NEW call \in SortCalls(n),
           NEW s \in [SortCalls(n) -> [0 .. n - 1 -> INT]], NEW t,
           \A c \in SortCalls(n) : Length(c) < Length(call) => s[c] = t[c]
    PROVE  Sorted(s, call) = Sorted(t, call)
<1>1. CASE call.left < call.right
  <2>1. s[FirstHalf(call)] = t[FirstHalf(call)] /\ s[FirstHalf(call)] \in [0 .. n - 1 -> INT]
    BY <1>1, SmallerCalls
  <2>2. s[SecondHalf(call, s[FirstHalf(call)])] = t[SecondHalf(call, s[FirstHalf(call)])]
    BY <1>1, <2>1, SmallerCalls
  <2> QED BY <2>1, <2>2 DEF Sorted
<1>2. CASE ~(call.left < call.right) BY <1>2 DEF Sorted
<1> QED BY <1>1, <1>2

LEMMA SortedIsArray ==
    ASSUME NEW n \in Nat, NEW call \in SortCalls(n), NEW s \in [SortCalls(n) -> [0 .. n - 1 -> INT]]
    PROVE  Sorted(s, call) \in [0 .. n - 1 -> INT]
<1>1. call.arr \in [0 .. n - 1 -> INT] /\ call.left \in 0 .. n - 1 /\ call.right \in 0 .. n - 1 BY DEF SortCalls
<1>2. CASE call.left < call.right
  <2> DEFINE half == s[FirstHalf(call)]
             both == s[SecondHalf(call, half)]
  <2>1. half \in [0 .. n - 1 -> INT] BY <1>2, SmallerCalls
  <2> HIDE DEF half
  <2>2. both \in [0 .. n - 1 -> INT] BY <1>2, <2>1, SmallerCalls
  <2>3. Mid(call) \in call.left .. call.right - 1 BY <1>2, SmallerCalls
  <2> HIDE DEF both
  <2>4. Reorders(Merge(both, call.left, Mid(call), call.right), both, n, call.left, call.right)
    BY <1>1, <2>2, <2>3, MergeReorders
  <2> QED BY <1>2, <2>4 DEF Sorted, Reorders, both, half
<1>3. CASE ~(call.left < call.right) BY <1>1, <1>3 DEF Sorted
<1> QED BY <1>2, <1>3

Sorts(sort, n) == sort = [call \in SortCalls(n) |-> Sorted(sort, call)]

LEMMA SortsExists == ASSUME NEW n \in Nat, n # 0 PROVE \E sort : Sorts(sort, n)
<1> DEFINE C == SortCalls(n)
           A == [0 .. n - 1 -> INT]
           R == [C -> A]
           first == [call \in C |-> call.arr]
           next == [i \in 1 .. n + 1 |-> [s \in R |-> [call \in C |-> Sorted(s, call)]]]
<1>1. first \in R BY DEF SortCalls
<1>2. \A call \in C : first[call] = call.arr OBVIOUS
<1>3. ASSUME NEW i \in 1 .. n + 1, NEW s \in R
      PROVE  next[i][s] \in R /\ \A call \in C : next[i][s][call] = Sorted(s, call)
  <2>1. \A call \in C : Sorted(s, call) \in A BY SortedIsArray
  <2>2. next[i][s] = [call \in C |-> Sorted(s, call)] OBVIOUS
  <2> HIDE DEF next, C, A
  <2> QED BY <2>1, <2>2
<1> HIDE DEF first, next, C, A, R
<1>4. PICK g : StepByStep(g, n + 1, R, first, next)
  <2>1. n + 1 \in Nat OBVIOUS
  <2> QED BY <1>1, <1>3, <2>1, StepByStepExists
<1>5. ASSUME NEW i \in 1 .. n + 1 PROVE g[i] \in R BY <1>4 DEF StepByStep
<1>6. ASSUME NEW i \in 1 .. n, NEW call \in C PROVE g[i + 1][call] = Sorted(g[i], call)
  <2> DEFINE k == i + 1
  <2>1. k \in 1 .. n + 1 /\ k # 1 /\ k - 1 = i /\ i \in 1 .. n + 1 OBVIOUS
  <2>2. g[k] = next[k][g[k - 1]]
    <3> HIDE DEF k
    <3> QED BY <1>4, <2>1 DEF StepByStep
  <2> HIDE DEF k
  <2>3. g[k][call] = Sorted(g[i], call) BY <1>3, <1>5, <2>1, <2>2
  <2> QED BY <2>3 DEF k
<1>7. g[1] = first
  <2>1. 1 \in 1 .. n + 1 OBVIOUS
  <2> QED BY <1>4, <2>1 DEF StepByStep
<1> DEFINE Settled(i) == \A call \in C : Length(call) <= i => g[i + 2][call] = g[i + 1][call]
           Good == {i \in 0 .. n - 1 : Settled(i)}
<1>8. 0 \in Good
  <2> SUFFICES ASSUME NEW call \in C, Length(call) <= 0 PROVE g[2][call] = g[1][call] OBVIOUS
  <2>1. ~(call.left < call.right) BY DEF C, SortCalls, Length
  <2>2. 1 \in 1 .. n /\ 1 + 1 = 2 OBVIOUS
  <2>3. g[2][call] = call.arr BY <1>6, <2>1, <2>2 DEF Sorted
  <2> QED BY <1>2, <1>7, <2>3
<1>9. ASSUME NEW i \in 0 .. (n - 1) - 1, i \in Good PROVE i + 1 \in Good
  <2> SUFFICES ASSUME NEW call \in C, Length(call) <= i + 1 PROVE g[(i + 1) + 2][call] = g[(i + 1) + 1][call]
    OBVIOUS
  <2> DEFINE j == i + 1
             k == i + 2
  <2>1. j \in 1 .. n /\ k \in 1 .. n /\ j \in 1 .. n + 1 /\ k \in 1 .. n + 1 /\ j + 1 = k OBVIOUS
  <2>2. (i + 1) + 2 = k + 1 /\ (i + 1) + 1 = k OBVIOUS
  <2>3. \A c \in C : Length(c) < Length(call) => g[k][c] = g[j][c]
    <3>1. \A c \in C : Length(c) \in Int BY DEF C, SortCalls, Length
    <3>2. \A c \in C : Length(c) < Length(call) => Length(c) <= i BY <3>1
    <3> QED BY <1>9, <3>2
  <2>4. g[k] \in [SortCalls(n) -> [0 .. n - 1 -> INT]] BY <1>5, <2>1 DEF R, C, A
  <2> HIDE DEF j, k
  <2>5. Sorted(g[k], call) = Sorted(g[j], call) BY <2>3, <2>4, SortedSame DEF C
  <2>6. g[k + 1][call] = Sorted(g[k], call) /\ g[j + 1][call] = Sorted(g[j], call) BY <1>6, <2>1
  <2> QED BY <2>1, <2>2, <2>5, <2>6
<1> HIDE DEF Good
<1>10. 0 .. n - 1 \subseteq Good
  <2> DEFINE m == n - 1
  <2>1. m \in Nat OBVIOUS
  <2> HIDE DEF m
  <2>2. 0 \in Good /\ \A i \in 0 .. m - 1 : i \in Good => i + 1 \in Good BY <1>8, <1>9 DEF m
  <2>3. 0 .. m \subseteq Good BY <2>1, <2>2, UpTo
  <2> QED BY <2>3 DEF m
<1>11. n - 1 \in Good /\ n \in 1 .. n /\ (n - 1) + 2 = n + 1 /\ (n - 1) + 1 = n BY <1>10
<1>12. ASSUME NEW call \in C PROVE g[n][call] = Sorted(g[n], call)
  <2>1. Length(call) <= n - 1 BY DEF C, SortCalls, Length
  <2>2. g[n + 1][call] = g[n][call] BY <1>11, <2>1 DEF Good
  <2> QED BY <1>6, <1>11, <2>2
<1>13. g[n] \in R
  <2>1. n \in 1 .. n + 1 OBVIOUS
  <2> QED BY <1>5, <2>1
<1>14. g[n] = [call \in C |-> Sorted(g[n], call)] BY <1>12, <1>13 DEF R
<1> QED BY <1>14 DEF Sorts, C

LEMMA CallsSort ==
    ASSUME NEW n \in Nat, n # 0, NEW sort, Sorts(sort, n), NEW call \in SortCalls(n)
    PROVE  /\ Reorders(sort[call], call.arr, n, call.left, call.right)
           /\ Ascends(sort[call], call.left, call.right)
<1> DEFINE C == SortCalls(n)
           Done(c) == Reorders(sort[c], c.arr, n, c.left, c.right) /\ Ascends(sort[c], c.left, c.right)
           Good == {i \in 0 .. n - 1 : \A c \in C : Length(c) <= i => Done(c)}
<1>1. ASSUME NEW c \in C
      PROVE  /\ c.arr \in [0 .. n - 1 -> INT] /\ c.left \in 0 .. n - 1 /\ c.right \in 0 .. n - 1
             /\ Length(c) \in Int /\ Length(c) <= n - 1 /\ sort[c] = Sorted(sort, c)
             /\ (Length(c) <= 0 <=> ~(c.left < c.right))
  <2>1. c.arr \in [0 .. n - 1 -> INT] /\ c.left \in 0 .. n - 1 /\ c.right \in 0 .. n - 1 BY DEF SortCalls
  <2>2. sort[c] = Sorted(sort, c) BY DEF Sorts
  <2> QED BY <2>1, <2>2 DEF Length
<1>2. ASSUME NEW c \in C, Length(c) <= 0 PROVE Done(c)
  <2> DEFINE a == c.arr
             l == c.left
             r == c.right
  <2>1. sort[c] = a /\ ~(l < r) /\ l \in Int /\ r \in Int /\ a \in [0 .. n - 1 -> INT] BY <1>1, <1>2 DEF Sorted
  <2> HIDE DEF a, l, r
  <2>2. Reorders(a, a, n, l, r) BY <2>1, ReordersItself
  <2>3. Ascends(a, l, r) BY <2>1 DEF Ascends
  <2> QED BY <2>1, <2>2, <2>3 DEF a, l, r
<1>3. ASSUME NEW i \in 0 .. (n - 1) - 1, i \in Good, NEW c \in C, Length(c) <= i + 1 PROVE Done(c)
  <2>1. CASE Length(c) <= 0 BY <1>2, <2>1
  <2>2. CASE ~(Length(c) <= 0)
    <3> DEFINE l == c.left
               r == c.right
               m == Mid(c)
               a == c.arr
               half == sort[FirstHalf(c)]
               both == sort[SecondHalf(c, half)]
               all == Merge(both, l, m, r)
    <3>1. l < r /\ l \in 0 .. n - 1 /\ r \in 0 .. n - 1 /\ sort[c] = all /\ a \in [0 .. n - 1 -> INT]
      BY <1>1, <2>2 DEF Sorted
    <3>2. m \in l .. r - 1 BY <3>1, SmallerCalls
    <3>3. /\ FirstHalf(c) \in C /\ Length(FirstHalf(c)) <= i /\ FirstHalf(c).arr = a
          /\ FirstHalf(c).left = l /\ FirstHalf(c).right = m
      <4>1. FirstHalf(c) \in C /\ Length(FirstHalf(c)) < Length(c) BY <3>1, SmallerCalls
      <4>2. Length(FirstHalf(c)) <= i BY <1>1, <1>3, <4>1
      <4> QED BY <3>1, <4>1, <4>2, SmallerCalls
    <3> HIDE DEF m
    <3>4. Done(FirstHalf(c)) BY <1>3, <3>3
    <3> HIDE DEF Done
    <3>5. Reorders(half, a, n, l, m) /\ Ascends(half, l, m) BY <3>3, <3>4 DEF Done
    <3>6. half \in [0 .. n - 1 -> INT] BY <3>5 DEF Reorders
    <3> HIDE DEF half
    <3>7. /\ SecondHalf(c, half) \in C /\ Length(SecondHalf(c, half)) <= i /\ SecondHalf(c, half).arr = half
          /\ SecondHalf(c, half).left = m + 1 /\ SecondHalf(c, half).right = r
      <4>1. SecondHalf(c, half) \in C /\ Length(SecondHalf(c, half)) < Length(c) BY <3>1, <3>6, SmallerCalls
      <4>2. Length(SecondHalf(c, half)) <= i BY <1>1, <1>3, <4>1
      <4> QED BY <3>1, <3>6, <4>1, <4>2, SmallerCalls DEF m
    <3>8. Done(SecondHalf(c, half)) BY <1>3, <3>7
    <3>9. Reorders(both, half, n, m + 1, r) /\ Ascends(both, m + 1, r) BY <3>7, <3>8 DEF Done
    <3>10. both \in [0 .. n - 1 -> INT] BY <3>9 DEF Reorders
    <3> HIDE DEF both
    <3>11. Ascends(both, l, m)
      <4>1. \A k \in l .. m : both[k] = half[k]
        <5>1. \A k \in l .. m : k \in 0 .. n - 1 /\ k \notin (m + 1) .. r BY <3>1, <3>2
        <5>2. \A k \in 0 .. n - 1 : k \notin (m + 1) .. r => both[k] = half[k] BY <3>9 DEF Reorders
        <5> QED BY <5>1, <5>2
      <4> QED BY <3>5, <4>1 DEF Ascends
    <3> HIDE DEF l, r, a
    <3>12. Reorders(all, both, n, l, r) BY <3>1, <3>2, <3>10, MergeReorders
    <3>13. Ascends(all, l, r) BY <3>1, <3>2, <3>9, <3>10, <3>11, MergeAscends
    <3> HIDE DEF all
    <3>14. l \in Int /\ r \in Int /\ m \in Int /\ m + 1 \in Int /\ l <= m + 1 /\ r <= r /\ l <= l /\ m <= r
      BY <3>1, <3>2
    <3>15. Reorders(all, half, n, l, r) BY <3>9, <3>12, <3>14, ReordersTwice
    <3>16. Reorders(all, a, n, l, r) BY <3>5, <3>14, <3>15, ReordersTwice
    <3> QED BY <3>1, <3>13, <3>16 DEF Done, l, r, a
  <2> QED BY <2>1, <2>2
<1> HIDE DEF C, Done
<1>4. 0 \in Good BY <1>2
<1> HIDE DEF Good
<1>5. \A i \in 0 .. (n - 1) - 1 : i \in Good => i + 1 \in Good
  <2> SUFFICES ASSUME NEW i \in 0 .. (n - 1) - 1, i \in Good PROVE i + 1 \in Good OBVIOUS
  <2>1. i + 1 \in 0 .. n - 1 OBVIOUS
  <2>2. \A c \in C : Length(c) <= i + 1 => Done(c) BY <1>3
  <2> QED BY <2>1, <2>2 DEF Good
<1>6. 0 .. n - 1 \subseteq Good
  <2> DEFINE m == n - 1
  <2>1. m \in Nat OBVIOUS
  <2> HIDE DEF m
  <2>2. 0 \in Good /\ \A i \in 0 .. m - 1 : i \in Good => i + 1 \in Good BY <1>4, <1>5 DEF m
  <2>3. 0 .. m \subseteq Good BY <2>1, <2>2, UpTo
  <2> QED BY <2>3 DEF m
<1>7. n - 1 \in Good BY <1>6
<1>8. call \in C /\ Length(call) <= n - 1 BY <1>1 DEF C
<1>9. Done(call) BY <1>7, <1>8 DEF Good
<1> QED BY <1>9 DEF Done

\* MergeSort puts an array in order and loses nothing of it.
LEMMA MergeSortSorts ==
    ASSUME NEW n \in Nat, n # 0, NEW arr \in [0 .. n - 1 -> INT]
    PROVE  LET b == MergeSort(arr, 0, n - 1) IN Reorders(b, arr, n, 0, n - 1) /\ Ascends(b, 0, n - 1)
<1> DEFINE call == [arr |-> arr, left |-> 0, right |-> n - 1]
           Calls == [arr : [DOMAIN arr -> INT], left : DOMAIN arr, right : DOMAIN arr]
           P(s) == s = [c \in Calls |->
            IF c.left < c.right
            THEN LET mid == c.left + (c.right - c.left) \div 2
                     half == s[[c EXCEPT !.right = mid]]
                     halves == s[[c EXCEPT !.arr = half, !.left = mid + 1]]
                 IN  Merge(halves, c.left, mid, c.right)
            ELSE c.arr]
<1>1. MergeSort(arr, 0, n - 1) = (CHOOSE s : P(s))[call] BY DEF MergeSort
<1>2. Calls = SortCalls(n)
  <2>1. DOMAIN arr = 0 .. n - 1 OBVIOUS
  <2> QED BY <2>1 DEF SortCalls
<1>3. \A s : P(s) <=> s = [c \in Calls |-> Sorted(s, c)] BY DEF Sorted, Mid, FirstHalf, SecondHalf
<1> HIDE DEF Calls, P
<1>4. \A s : P(s) <=> Sorts(s, n) BY <1>2, <1>3 DEF Sorts
<1>5. \E s : P(s) BY <1>4, SortsExists
<1>6. PICK s : Sorts(s, n) /\ MergeSort(arr, 0, n - 1) = s[call] BY <1>1, <1>4, <1>5
<1>7. call \in SortCalls(n) BY DEF SortCalls
<1>8. call.arr = arr /\ call.left = 0 /\ call.right = n - 1 OBVIOUS
<1> HIDE DEF call
<1>9. Reorders(s[call], call.arr, n, call.left, call.right) /\ Ascends(s[call], call.left, call.right)
  BY <1>6, <1>7, CallsSort
<1> QED BY <1>6, <1>8, <1>9

-----------------------------------------------------------------------------
(* What a reordered array has in common with the array that it was *)

\* In place of the definition of Reorders, for a whole array.
Permutes(p, b, a, n) ==
    /\ p \in [0 .. n - 1 -> 0 .. n - 1]
    /\ \A i, j \in 0 .. n - 1 : p[i] = p[j] => i = j
    /\ \A j \in 0 .. n - 1 : \E i \in 0 .. n - 1 : p[i] = j
    /\ \A i \in 0 .. n - 1 : b[i] = a[p[i]]

LEMMA ReordersPermutes ==
    ASSUME NEW n \in Nat, NEW a, NEW b, NEW left, NEW right, Reorders(b, a, n, left, right)
    PROVE  \E p : Permutes(p, b, a, n)
<1> DEFINE D == 0 .. n - 1
<1>1. PICK p \in [D -> D] : /\ \A i, j \in D : p[i] = p[j] => i = j
                            /\ \A i \in D : b[i] = a[p[i]]
  BY DEF Reorders
<1> HIDE DEF D
<1>2. IsFiniteSet(D) BY FS_Interval DEF D
<1>3. p \in Injection(D, D) BY <1>1 DEF Injection, IsInjective
<1>4. p \in Surjection(D, D) BY <1>2, <1>3, FS_Injection
<1>5. \A j \in D : \E i \in D : p[i] = j BY <1>4 DEF Surjection
<1> QED BY <1>1, <1>5 DEF Permutes, D

\* Where an array has one of the numbers in V.
Where(a, n, V) == {i \in 0 .. n - 1 : a[i] \in V}

LEMMA CountsKept ==
    ASSUME NEW n \in Nat, NEW a, NEW b, NEW p, Permutes(p, b, a, n), NEW V
    PROVE  Cardinality(Where(b, n, V)) = Cardinality(Where(a, n, V))
<1> DEFINE D == 0 .. n - 1
           B == {i \in D : b[i] \in V}
           A == {i \in D : a[i] \in V}
           f == [i \in B |-> p[i]]
<1>1. IsFiniteSet(B)
  <2>1. IsFiniteSet(D) /\ B \in SUBSET D BY FS_Interval
  <2> QED BY <2>1, FS_Subset
<1>2. \A i \in B : p[i] \in A BY DEF Permutes
<1>3. f \in [B -> A] BY <1>2
<1>4. \A i, j \in B : f[i] = f[j] => i = j BY DEF Permutes
<1>5. \A j \in A : \E i \in B : f[i] = j
  <2> SUFFICES ASSUME NEW j \in A PROVE \E i \in B : f[i] = j OBVIOUS
  <2>1. PICK i \in D : p[i] = j BY DEF Permutes
  <2>2. i \in B BY <2>1 DEF Permutes
  <2> QED BY <2>1, <2>2
<1> HIDE DEF A, B, f
<1>6. f \in Injection(B, A)
  <2>1. IsInjective(f) BY <1>3, <1>4 DEF IsInjective
  <2> QED BY <1>3, <2>1 DEF Injection
<1>7. f \in Surjection(B, A) BY <1>3, <1>5 DEF Surjection
<1>8. ExistsBijection(B, A) BY <1>6, <1>7 DEF ExistsBijection, Bijection
<1>9. Cardinality(A) = Cardinality(B) BY <1>1, <1>8, FS_Bijection
<1> QED BY <1>9 DEF A, B, Where

LEMMA SumKept ==
    ASSUME NEW n \in Nat, NEW a \in [0 .. n - 1 -> INT], NEW b \in [0 .. n - 1 -> INT],
           NEW p, Permutes(p, b, a, n)
    PROVE  SumFunction(b) = SumFunction(a)
<1> DEFINE D == 0 .. n - 1
           Taken(k) == {p[i] : i \in 0 .. k - 1}
           Good == {k \in 0 .. n : SumFunctionOnSet(b, 0 .. k - 1) = SumFunctionOnSet(a, Taken(k))}
<1>1. \A i \in D : a[i] \in Int /\ b[i] \in Int /\ p[i] \in D /\ b[i] = a[p[i]] BY DEF INT, Permutes
<1>2. IsFiniteSet(D) BY FS_Interval
<1>3. 0 \in Good
  <2>1. 0 .. 0 - 1 = {} OBVIOUS
  <2>2. Taken(0) = {} BY <2>1
  <2>3. SumFunctionOnSet(b, {}) = SumFunctionOnSet(a, {}) BY SumEmpty
  <2>4. 0 \in 0 .. n OBVIOUS
  <2> QED BY <2>1, <2>2, <2>3, <2>4
<1>4. ASSUME NEW k \in 0 .. n - 1, k \in Good PROVE k + 1 \in Good
  <2> DEFINE S == 0 .. k - 1
             T == Taken(k)
  <2>1. 0 .. (k + 1) - 1 = S \cup {k} /\ k \notin S /\ k \in D /\ S \subseteq D OBVIOUS
  <2>2. Taken(k + 1) = T \cup {p[k]} BY <2>1
  <2>3. T \subseteq D /\ p[k] \in D BY <1>1, <2>1
  <2>4. p[k] \notin T BY <2>1 DEF Permutes
  <2>5. SumFunctionOnSet(b, S) = SumFunctionOnSet(a, T) BY <1>4
  <2>6. k + 1 \in 0 .. n OBVIOUS
  <2> HIDE DEF S, T, D
  <2>7. SumFunctionOnSet(b, S \cup {k}) = SumFunctionOnSet(b, S) + b[k]
    <3>1. IsFiniteSet(S) BY <1>2, <2>1, FS_Subset
    <3>2. \A y \in S \cup {k} : b[y] \in Int BY <1>1, <2>1
    <3> QED BY <2>1, <3>1, <3>2, SumAdd
  <2>8. SumFunctionOnSet(a, T \cup {p[k]}) = SumFunctionOnSet(a, T) + a[p[k]]
    <3>1. IsFiniteSet(T) BY <1>2, <2>3, FS_Subset
    <3>2. \A y \in T \cup {p[k]} : a[y] \in Int BY <1>1, <2>3
    <3> QED BY <2>4, <3>1, <3>2, SumAdd
  <2>9. b[k] = a[p[k]] BY <1>1, <2>1
  <2> HIDE DEF Taken
  <2> QED BY <2>1, <2>2, <2>5, <2>6, <2>7, <2>8, <2>9
<1> HIDE DEF Good
<1>5. n \in Good
  <2>1. 0 .. n \subseteq Good BY <1>3, <1>4, UpTo
  <2> QED BY <2>1
<1>6. SumFunctionOnSet(b, D) = SumFunctionOnSet(a, Taken(n)) BY <1>5 DEF Good
<1>7. Taken(n) = D
  <2>1. Taken(n) \subseteq D BY <1>1
  <2>2. \A j \in D : \E i \in D : p[i] = j BY DEF Permutes
  <2>3. D \subseteq Taken(n) BY <2>2
  <2> QED BY <2>1, <2>3
<1>8. DOMAIN a = D /\ DOMAIN b = D OBVIOUS
<1> HIDE DEF D, Taken
<1> QED BY <1>6, <1>7, <1>8 DEF SumFunction

\* The counts of an array of integers.
LEMMA CountsAre ==
    ASSUME NEW n \in Nat, NEW a \in [0 .. n - 1 -> INT], NEW x \in Int
    PROVE  /\ Copies(a, x) = Cardinality(Where(a, n, {x}))
           /\ Below(a, x) = Cardinality(Where(a, n, {y \in Int : y < x}))
           /\ AtMost(a, x) = Cardinality(Where(a, n, {y \in Int : y <= x}))
<1>1. DOMAIN a = 0 .. n - 1 /\ \A i \in 0 .. n - 1 : a[i] \in Int BY DEF INT
<1>2. {i \in DOMAIN a : a[i] = x} = Where(a, n, {x}) BY <1>1 DEF Where
<1>3. {i \in DOMAIN a : a[i] < x} = Where(a, n, {y \in Int : y < x}) BY <1>1 DEF Where
<1>4. {i \in DOMAIN a : a[i] <= x} = Where(a, n, {y \in Int : y <= x}) BY <1>1 DEF Where
<1> QED BY <1>2, <1>3, <1>4 DEF Copies, Below, AtMost

\* In an ascending array, the k-th smallest number is the k-th.
LEMMA KthOfSorted ==
    ASSUME NEW n \in Nat, NEW a \in [0 .. n - 1 -> INT], NEW b \in [0 .. n - 1 -> INT],
           NEW p, Permutes(p, b, a, n), Ascends(b, 0, n - 1), NEW k \in 1 .. n
    PROVE  KthSmallest(a, k) = b[k - 1]
<1> DEFINE D == 0 .. n - 1
           Lt(x) == {i \in D : b[i] < x}
           Le(x) == {i \in D : b[i] <= x}
           m == b[k - 1]
<1>1. \A i \in D : a[i] \in Int /\ b[i] \in Int BY DEF INT
<1>2. IsFiniteSet(D) BY FS_Interval
<1>3. ASSUME NEW x \in Int PROVE Below(a, x) = Cardinality(Lt(x)) /\ AtMost(a, x) = Cardinality(Le(x))
  <2> DEFINE L == {y \in Int : y < x}
             E == {y \in Int : y <= x}
  <2>1. Below(a, x) = Cardinality(Where(a, n, L)) /\ AtMost(a, x) = Cardinality(Where(a, n, E)) BY CountsAre
  <2>2. Where(b, n, L) = Lt(x) /\ Where(b, n, E) = Le(x) BY <1>1 DEF Where
  <2> HIDE DEF Lt, Le, L, E
  <2>3. Cardinality(Where(b, n, L)) = Cardinality(Where(a, n, L)) BY CountsKept
  <2>4. Cardinality(Where(b, n, E)) = Cardinality(Where(a, n, E)) BY CountsKept
  <2> QED BY <2>1, <2>2, <2>3, <2>4
<1>4. \A x : Lt(x) \in SUBSET D /\ Le(x) \in SUBSET D OBVIOUS
<1>5. \A S \in SUBSET D : IsFiniteSet(S) /\ Cardinality(S) \in Nat BY <1>2, FS_Subset, FS_CardinalityType
<1>6. k - 1 \in D /\ k \in Nat /\ m \in Int BY <1>1
<1>7. Cardinality(Lt(m)) < k
  <2>1. Lt(m) \subseteq 0 .. k - 2
    <3> SUFFICES ASSUME NEW i \in D, b[i] < b[k - 1] PROVE i \in 0 .. k - 2 OBVIOUS
    <3>1. CASE k - 1 < i
      <4>1. b[k - 1] <= b[i] BY <1>6, <3>1 DEF Ascends
      <4> QED BY <1>1, <1>6, <4>1
    <3>2. CASE ~(k - 1 < i)
      <4>1. i # k - 1
        <5> SUFFICES ASSUME i = k - 1 PROVE FALSE OBVIOUS
        <5>1. b[i] \in Int BY <1>1
        <5>2. b[i] < b[i] OBVIOUS
        <5> QED BY <5>1, <5>2
      <4> QED BY <3>2, <4>1
    <3> QED BY <3>1, <3>2
  <2>2. IsFiniteSet(0 .. k - 2) /\ Cardinality(0 .. k - 2) = k - 1
    <3>1. k - 2 \in Int /\ (IF 0 > k - 2 THEN 0 ELSE (k - 2) - 0 + 1) = k - 1 OBVIOUS
    <3> QED BY <3>1, FS_Interval
  <2> HIDE DEF Lt
  <2>3. Cardinality(Lt(m)) <= k - 1 BY <2>1, <2>2, FS_Subset
  <2> QED BY <1>4, <1>5, <1>6, <2>3
<1>8. k <= Cardinality(Le(m))
  <2>1. 0 .. k - 1 \subseteq Le(m)
    <3> SUFFICES ASSUME NEW i \in 0 .. k - 1 PROVE i \in D /\ b[i] <= b[k - 1] OBVIOUS
    <3>1. CASE i = k - 1 BY <1>6, <3>1
    <3>2. CASE i < k - 1
      <4>1. i \in 0 .. n - 1 BY <3>2
      <4> QED BY <1>6, <3>2, <4>1 DEF Ascends
    <3> QED BY <3>1, <3>2
  <2>2. Cardinality(0 .. k - 1) = k
    <3>1. k - 1 \in Int /\ (IF 0 > k - 1 THEN 0 ELSE (k - 1) - 0 + 1) = k OBVIOUS
    <3> QED BY <3>1, FS_Interval
  <2> HIDE DEF Le
  <2> QED BY <1>4, <1>5, <2>1, <2>2, FS_Subset
<1> DEFINE Is(x) == Below(a, x) < k /\ k <= AtMost(a, x)
           X == {a[i] : i \in DOMAIN a}
<1>9. m \in X
  <2>1. p[k - 1] \in D /\ m = a[p[k - 1]] BY <1>6 DEF Permutes
  <2> QED BY <2>1
<1>10. X \subseteq Int BY <1>1
<1> HIDE DEF Lt, Le, m, X, D
<1>11. Is(m) BY <1>3, <1>6, <1>7, <1>8
<1>12. ASSUME NEW x \in X, Is(x), NEW y \in X, Is(y), x < y PROVE FALSE
  <2>1. x \in Int /\ y \in Int BY <1>10
  <2>2. Le(x) \subseteq Lt(y) BY <1>1, <1>12, <2>1 DEF Le, Lt
  <2>3. Cardinality(Le(x)) <= Cardinality(Lt(y)) BY <1>4, <1>5, <2>2, FS_Subset
  <2>4. k <= Cardinality(Le(x)) /\ Cardinality(Lt(y)) < k BY <1>3, <1>12, <2>1
  <2>5. Cardinality(Le(x)) \in Nat /\ Cardinality(Lt(y)) \in Nat BY <1>4, <1>5
  <2> QED BY <1>6, <2>3, <2>4, <2>5
<1>13. \A x \in X : Is(x) => x = m
  <2> SUFFICES ASSUME NEW x \in X, Is(x), x # m PROVE FALSE OBVIOUS
  <2>1. x < m \/ m < x BY <1>6, <1>9, <1>10
  <2> HIDE DEF Is
  <2> QED BY <1>9, <1>11, <1>12, <2>1
<1>14. KthSmallest(a, k) = CHOOSE x \in X : Is(x) BY DEF KthSmallest, X
<1> HIDE DEF Is
<1>15. KthSmallest(a, k) = m BY <1>9, <1>11, <1>13, <1>14
<1> QED BY <1>15 DEF m

\* An int keeps its value.
LEMMA WrapsNothing == ASSUME NEW x \in INT PROVE Wrap(x) = x
<1>1. INT_MAX \in Nat BY SortAssumption
<1> DEFINE m == INT_MAX + 1
<1>2. m \in Nat \ {0} /\ x + m \in 0 .. 2 * m - 1 BY <1>1 DEF INT
<1>3. \A d \in Nat \ {0} : \A y \in 0 .. d - 1 : y % d = y OBVIOUS
<1>4. (x + m) % (2 * m) = x + m
  <2> DEFINE d == 2 * m
             y == x + m
  <2>1. d \in Nat \ {0} /\ y \in 0 .. d - 1 BY <1>2
  <2> HIDE DEF d, y
  <2>2. y % d = y BY <1>3, <2>1
  <2> QED BY <2>2 DEF d, y
<1>5. x \in Int BY <1>1 DEF INT
<1>6. (x + m) - m = x BY <1>2, <1>5
<1>7. Wrap(x) = ((x + m) % (2 * m)) - m
  <2>1. x + INT_MAX + 1 = x + m BY <1>1, <1>5
  <2> QED BY <2>1 DEF Wrap
<1> QED BY <1>4, <1>6, <1>7

\* What CalculateMedian takes from the sorted array are the numbers in the middle.
LEMMA MedianIsMiddle ==
    ASSUME NEW n \in Nat, n # 0, NEW a \in [0 .. n - 1 -> INT], NEW b \in [0 .. n - 1 -> INT],
           NEW p, Permutes(p, b, a, n), Ascends(b, 0, n - 1), \A i \in 0 .. n - 1 : 2 * a[i] \in INT
    PROVE  TwiceMedian(b, n) = KthSmallest(a, (n + 1) \div 2) + KthSmallest(a, n \div 2 + 1)
<1>1. INT_MAX \in Nat BY SortAssumption
<1>2. ASSUME NEW i \in 0 .. n - 1 PROVE b[i] \in Int /\ 2 * b[i] \in INT
  <2>1. p[i] \in 0 .. n - 1 /\ b[i] = a[p[i]] BY DEF Permutes
  <2>2. 2 * a[p[i]] \in INT BY <2>1
  <2>3. b[i] \in Int BY DEF INT
  <2> QED BY <2>1, <2>2, <2>3
<1>3. PICK m \in Nat : n = 2 * m \/ n = 2 * m + 1
  <2>1. n \div 2 \in Nat /\ (n = 2 * (n \div 2) \/ n = 2 * (n \div 2) + 1) OBVIOUS
  <2> QED BY <2>1
<1>4. CASE n = 2 * m
  <2>1. n \div 2 = m /\ (n + 1) \div 2 = m /\ n % 2 = 0 /\ m \in 1 .. n /\ m + 1 \in 1 .. n /\ (m + 1) - 1 = m BY <1>4
  <2>2. KthSmallest(a, m) = b[m - 1] BY <2>1, KthOfSorted
  <2>3. KthSmallest(a, m + 1) = b[m]
    <3>1. KthSmallest(a, m + 1) = b[(m + 1) - 1] BY <2>1, KthOfSorted
    <3> QED BY <2>1, <3>1
  <2>4. b[m - 1] + b[m] \in INT
    <3>1. m - 1 \in 0 .. n - 1 /\ m \in 0 .. n - 1 BY <1>4
    <3>2. b[m - 1] \in Int /\ b[m] \in Int /\ 2 * b[m - 1] \in INT /\ 2 * b[m] \in INT BY <1>2, <3>1
    <3>3. \A x, y, z \in Int : (2 * x \in -z .. z - 1 /\ 2 * y \in -z .. z - 1) => x + y \in -z .. z - 1 OBVIOUS
    <3>4. INT_MAX + 1 \in Int /\ INT = -(INT_MAX + 1) .. (INT_MAX + 1) - 1 BY <1>1 DEF INT
    <3> QED BY <3>2, <3>3, <3>4
  <2>5. TwiceMedian(b, n) = b[m - 1] + b[m] BY <2>1, <2>4, WrapsNothing DEF TwiceMedian
  <2> QED BY <2>1, <2>2, <2>3, <2>5
<1>5. CASE n = 2 * m + 1
  <2>1. n \div 2 = m /\ (n + 1) \div 2 = m + 1 /\ n % 2 # 0 /\ m + 1 \in 1 .. n /\ (m + 1) - 1 = m /\ m \in 0 .. n - 1
    BY <1>5
  <2>2. KthSmallest(a, m + 1) = b[m]
    <3>1. KthSmallest(a, m + 1) = b[(m + 1) - 1] BY <2>1, KthOfSorted
    <3> QED BY <2>1, <3>1
  <2>3. TwiceMedian(b, n) = 2 * b[m] BY <2>1 DEF TwiceMedian
  <2>4. 2 * b[m] = b[m] + b[m] BY <1>2, <2>1
  <2> QED BY <2>1, <2>2, <2>3, <2>4
<1> QED BY <1>3, <1>4, <1>5

-----------------------------------------------------------------------------
(* The sorter *)


SortInv ==
    /\ sort_pc \in {"read", "sort", "median", "mean", "exit"}
    /\ sort_pc = "read" => entered = <<>> /\ numbers_array = <<>>
    /\ sort_pc # "read" => entered \in Numbers
    /\ sort_pc = "sort" => numbers_array = entered
    /\ sort_pc \in {"median", "mean", "exit"}
         => /\ Reorders(numbers_array, entered, Size(entered), 0, Size(entered) - 1)
            /\ Ascends(numbers_array, 0, Size(entered) - 1)
    /\ sort_pc \in {"mean", "exit"} => median2 = TwiceMedian(numbers_array, Size(numbers_array))
    /\ sort_pc = "exit" => media = SumFunction(numbers_array)

LEMMA NumbersAreArrays ==
    ASSUME NEW arr \in Numbers PROVE Size(arr) \in Nat /\ Size(arr) # 0 /\ arr \in [0 .. Size(arr) - 1 -> INT]
<1>1. IsFiniteSet(DOMAIN arr) /\ Size(arr) # 0 /\ arr \in [0 .. Size(arr) - 1 -> INT] BY SortAssumption
<1> QED BY <1>1, FS_CardinalityType DEF Size

LEMMA SortKeepsInv == ASSUME SortInv, [SortNext /\ UNCHANGED courseVars]_<<sortVars, courseVars>> PROVE SortInv'
<1>1. CASE ReadNumbers BY <1>1 DEF ReadNumbers, SortInv
<1>2. CASE SortArray
  <2> DEFINE n == Size(entered)
  <2>1. n \in Nat /\ n # 0 /\ entered \in [0 .. n - 1 -> INT] /\ numbers_array = entered /\ entered \in Numbers
    BY <1>2, NumbersAreArrays DEF SortArray, SortInv
  <2>2. numbers_array' = MergeSort(entered, 0, n - 1) /\ sort_pc' = "median" /\ UNCHANGED <<entered, median2, media>>
    BY <1>2, <2>1 DEF SortArray
  <2>3. Reorders(numbers_array', entered, n, 0, n - 1) /\ Ascends(numbers_array', 0, n - 1)
    <3> HIDE DEF n
    <3> QED BY <2>1, <2>2, MergeSortSorts
  <2>4. Size(entered)' = n BY <2>2
  <2> HIDE DEF n
  <2> QED BY <2>1, <2>2, <2>3, <2>4 DEF SortInv
<1>3. CASE CalculateMedian
  <2>1. Size(entered)' = Size(entered) /\ Size(numbers_array)' = Size(numbers_array) BY <1>3 DEF CalculateMedian
  <2>2. TwiceMedian(numbers_array, Size(numbers_array))' = TwiceMedian(numbers_array, Size(numbers_array))
    BY <1>3 DEF CalculateMedian
  <2> QED BY <1>3, <2>1, <2>2 DEF CalculateMedian, SortInv
<1>4. CASE CalculateMean
  <2>1. Size(entered)' = Size(entered) /\ Size(numbers_array)' = Size(numbers_array) BY <1>4 DEF CalculateMean
  <2>2. TwiceMedian(numbers_array, Size(numbers_array))' = TwiceMedian(numbers_array, Size(numbers_array))
    BY <1>4 DEF CalculateMean
  <2> QED BY <1>4, <2>1, <2>2 DEF CalculateMean, SortInv
<1>5. CASE UNCHANGED <<sortVars, courseVars>> BY <1>5 DEF sortVars, SortInv, Size
<1> QED BY <1>1, <1>2, <1>3, <1>4, <1>5 DEF SortNext

LEMMA SortInvImplies == ASSUME SortInv PROVE SortedPermutation /\ SortTypeOK
<1>1. CASE sort_pc = "read"
  <2>1. entered = <<>> /\ numbers_array = <<>> BY <1>1 DEF SortInv
  <2>2. \A i \in DOMAIN numbers_array : numbers_array[i] \in INT BY <2>1
  <2> QED BY <1>1, <2>1, <2>2 DEF SortedPermutation, SortTypeOK
<1>2. CASE sort_pc = "sort"
  <2>1. entered \in Numbers /\ numbers_array = entered BY <1>2 DEF SortInv
  <2> QED BY <1>2, <2>1, NumbersAreArrays DEF SortedPermutation, SortTypeOK
<1>3. CASE sort_pc \in {"median", "mean", "exit"}
  <2> DEFINE n == Size(entered)
             a == entered
             b == numbers_array
  <2>1. n \in Nat /\ n # 0 /\ a \in [0 .. n - 1 -> INT] BY <1>3, NumbersAreArrays DEF SortInv
  <2>2. Reorders(b, a, n, 0, n - 1) /\ Ascends(b, 0, n - 1) BY <1>3 DEF SortInv
  <2> HIDE DEF n
  <2>3. b \in [0 .. n - 1 -> INT] BY <2>2 DEF Reorders
  <2>4. PICK p : Permutes(p, b, a, n) BY <2>1, <2>2, ReordersPermutes
  <2>5. DOMAIN b = 0 .. n - 1 /\ DOMAIN a = 0 .. n - 1 /\ Size(b) = n BY <2>1, <2>3 DEF Size, n
  <2>6. SortTypeOK BY <1>3, <2>3, <2>5 DEF SortTypeOK
  <2>7. \A i, j \in DOMAIN b : i < j => b[i] <= b[j] BY <2>2, <2>5 DEF Ascends
  <2>8. ASSUME NEW x \in INT PROVE Copies(b, x) = Copies(a, x)
    <3>1. x \in Int BY DEF INT
    <3>2. Copies(b, x) = Cardinality(Where(b, n, {x})) /\ Copies(a, x) = Cardinality(Where(a, n, {x}))
      BY <2>1, <2>3, <3>1, CountsAre
    <3> QED BY <2>1, <2>4, <3>2, CountsKept
  <2>9. ASSUME sort_pc = "exit" PROVE media = SumFunction(a)
    <3>1. media = SumFunction(b) BY <2>9 DEF SortInv
    <3> QED BY <2>1, <2>3, <2>4, <3>1, SumKept
  <2>10. ASSUME sort_pc = "exit", \A i \in DOMAIN a : 2 * a[i] \in INT
         PROVE  median2 = KthSmallest(a, (n + 1) \div 2) + KthSmallest(a, n \div 2 + 1)
    <3>1. median2 = TwiceMedian(b, n) BY <2>5, <2>10 DEF SortInv
    <3> QED BY <2>1, <2>2, <2>3, <2>4, <2>5, <2>10, <3>1, MedianIsMiddle
  <2>11. SortedPermutation BY <2>7, <2>8, <2>9, <2>10 DEF SortedPermutation, n
  <2> QED BY <2>6, <2>11
<1> QED BY <1>1, <1>2, <1>3 DEF SortInv

\* For every array of one int or more: it becomes an ascending permutation of
\* what was read, the median is the middle of it, and the sum is that of what
\* was read.
THEOREM ArraySorted == SortSpec => [](SortedPermutation /\ SortTypeOK)
<1>1. SortInit => SortInv BY DEF SortInit, SortInv
<1>2. SortInv /\ [SortNext /\ UNCHANGED courseVars]_<<sortVars, courseVars>> => SortInv' BY SortKeepsInv
<1>3. SortInv => SortedPermutation /\ SortTypeOK BY SortInvImplies
<1> QED BY <1>1, <1>2, <1>3, PTL DEF SortSpec
=============================================================================
