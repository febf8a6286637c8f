-------------------------- MODULE ConversionProofs --------------------------
(***************************************************************************)
(* Proofs about the conversions of NmeaFields and AtNumbers, for every     *)
(* field, every order and every report.  The conversions are recursive     *)
(* functions of the length of a text or of a number; what they compute is  *)
(* proved by the induction and the recursion of NaturalLemmas.             *)
(***************************************************************************)
EXTENDS NmeaFields, AtNumbers, NaturalLemmas, SequenceTheorems, TLAPS

(* Powers of ten. *)
LEMMA Pow10Is ==
  /\ Pow10[0] = 1
  /\ \A n \in Nat : Pow10[n + 1] = 10 * Pow10[n]
  <1> DEFINE base == [n \in {0} |-> 1]
             prev == [n \in Nat \ {0} |-> n - 1]
             step == [n \in Nat \ {0} |-> [v \in Int |-> 10 * v]]
             E(f) == [n \in Nat |-> IF n = 0 THEN 1 ELSE 10 * f[n - 1]]
  <1>1. PICK f \in [Nat -> Int] : Solves(f, Nat, {0}, base, prev, step)
    <2>1. base \in [{0} -> Int] /\ prev \in [Nat \ {0} -> Nat]
          /\ step \in [Nat \ {0} -> [Int -> Int]]
          /\ \A n \in Nat \ {0} : prev[n] < n
      OBVIOUS
    <2>2. Nat \in SUBSET Nat /\ {0} \in SUBSET Nat
      OBVIOUS
    <2> HIDE DEF base, prev, step
    <2> QED BY <2>1, <2>2, Recursion
  <1>2. \A n \in Nat : f[n] = IF n = 0 THEN 1 ELSE 10 * f[n - 1]
    <2> TAKE n \in Nat
    <2>1. f[n] = IF n \in {0} THEN base[n] ELSE step[n][f[prev[n]]]
      BY ONLY <1>1, n \in Nat, Zenon DEF Solves
    <2>2. CASE n = 0
      BY <2>1, <2>2
    <2>3. CASE n # 0
      <3>1. f[n - 1] \in Int /\ n \in Nat \ {0}
        BY <1>1, <2>3
      <3> QED BY <2>1, <3>1
    <2> QED BY <2>2, <2>3
  <1>3. f = E(f)
    BY <1>2
  <1>4. Pow10 = CHOOSE g : g = E(g)
    BY Zenon DEF Pow10
  <1> HIDE DEF E
  <1>5. Pow10 = E(Pow10)
    BY <1>3, <1>4
  <1>6. \A n \in Nat : Pow10[n] = IF n = 0 THEN 1 ELSE 10 * Pow10[n - 1]
    BY <1>5, Zenon DEF E
  <1> QED BY <1>6

LEMMA Pow10Type == \A n \in Nat : Pow10[n] \in Nat \ {0}
  <1> DEFINE T == {n \in Nat : Pow10[n] \in Nat \ {0}}
  <1>1. 0 \in T
    BY Pow10Is
  <1>2. \A n \in Nat : n \in T => n + 1 \in T
    BY Pow10Is
  <1>3. \A n \in Nat : n \in T
    BY <1>1, <1>2, SetInduction
  <1> QED BY <1>3

(* The first powers. *)
LEMMA Pow10Small ==
  /\ Pow10[0] = 1 /\ Pow10[1] = 10 /\ Pow10[2] = 100 /\ Pow10[3] = 1000
  /\ Pow10[4] = 10000 /\ Pow10[5] = 100000
  <1>1. 0 + 1 = 1 /\ 1 + 1 = 2 /\ 2 + 1 = 3 /\ 3 + 1 = 4 /\ 4 + 1 = 5
    OBVIOUS
  <1> QED BY <1>1, Pow10Is

LEMMA Pow10Sum ==
  ASSUME NEW m \in Nat, NEW n \in Nat
  PROVE  Pow10[m + n] = Pow10[m] * Pow10[n]
  <1> DEFINE T == {k \in Nat : Pow10[m + k] = Pow10[m] * Pow10[k]}
  <1>1. 0 \in T
    BY Pow10Is, Pow10Type
  <1>2. ASSUME NEW k \in Nat, k \in T PROVE k + 1 \in T
    <2> DEFINE a == Pow10[m]
               b == Pow10[k]
    <2>1. Pow10[m + (k + 1)] = 10 * Pow10[m + k]
      <3>1. m + k \in Nat /\ m + (k + 1) = (m + k) + 1
        OBVIOUS
      <3> QED BY <3>1, Pow10Is
    <2>2. Pow10[m + k] = a * b /\ Pow10[k + 1] = 10 * b
      BY <1>2, Pow10Is
    <2>3. a \in Nat /\ b \in Nat
      BY Pow10Type
    <2> HIDE DEF a, b
    <2>4. 10 * (a * b) = a * (10 * b)
      BY <2>3
    <2>5. Pow10[m + (k + 1)] = a * Pow10[k + 1]
      BY <2>1, <2>2, <2>4
    <2> QED BY <2>5 DEF a
  <1>3. n \in T
    BY <1>1, <1>2, SetInduction
  <1> QED BY <1>3

(* A greater power has a greater exponent. *)
LEMMA Pow10Grows ==
  ASSUME NEW m \in Nat, NEW n \in Nat, m <= n
  PROVE  Pow10[m] <= Pow10[n]
  <1> DEFINE d == n - m
  <1>1. d \in Nat /\ n = m + d
    OBVIOUS
  <1> HIDE DEF d
  <1>2. Pow10[n] = Pow10[m] * Pow10[d]
    BY <1>1, Pow10Sum
  <1>3. Pow10[m] \in Nat /\ Pow10[d] \in Nat \ {0}
    BY <1>1, Pow10Type
  <1> QED BY <1>2, <1>3

-----------------------------------------------------------------------------
(* The number a sequence of digits shows. *)
LEMMA NumberSteps ==
  ASSUME NEW s \in Seq(Int)
  PROVE  /\ NumberTo(s)[0] = 0
         /\ \A k \in 1 .. Len(s) : NumberTo(s)[k] = 10 * NumberTo(s)[k - 1] + s[k]
         /\ \A k \in 0 .. Len(s) : NumberTo(s)[k] \in Int
  <1> DEFINE n == Len(s)
             base == [k \in {0} |-> 0]
             prev == [k \in (0 .. n) \ {0} |-> k - 1]
             step == [k \in (0 .. n) \ {0} |-> [v \in Int |-> 10 * v + s[k]]]
             E(f) == [k \in 0 .. n |-> IF k = 0 THEN 0 ELSE 10 * f[k - 1] + s[k]]
  <1>0. n \in Nat /\ \A k \in (0 .. n) \ {0} : s[k] \in Int
    OBVIOUS
  <1>1. PICK f \in [0 .. n -> Int] : Solves(f, 0 .. n, {0}, base, prev, step)
    <2>1. base \in [{0} -> Int] /\ prev \in [(0 .. n) \ {0} -> 0 .. n]
          /\ \A k \in (0 .. n) \ {0} : prev[k] < k
      BY <1>0
    <2>2. step \in [(0 .. n) \ {0} -> [Int -> Int]]
      BY <1>0
    <2>3. 0 .. n \in SUBSET Nat /\ {0} \in SUBSET (0 .. n)
      BY <1>0
    <2> HIDE DEF base, prev, step, n
    <2> QED BY <2>1, <2>2, <2>3, Recursion
  <1>2. \A k \in 0 .. n : f[k] = IF k = 0 THEN 0 ELSE 10 * f[k - 1] + s[k]
    <2> TAKE k \in 0 .. n
    <2>1. f[k] = IF k \in {0} THEN base[k] ELSE step[k][f[prev[k]]]
      BY ONLY <1>1, k \in 0 .. n, Zenon DEF Solves
    <2>2. CASE k = 0
      BY <2>1, <2>2
    <2>3. CASE k # 0
      <3>1. k - 1 \in 0 .. n /\ k \in (0 .. n) \ {0}
        BY ONLY <1>0, <2>3, k \in 0 .. n
      <3>2. f[k - 1] \in Int
        BY ONLY <1>1, <3>1
      <3> QED BY <2>1, <3>1, <3>2
    <2> QED BY <2>2, <2>3
  <1>3. f = E(f)
    BY <1>2
  <1>4. NumberTo(s) = CHOOSE g : g = E(g)
    BY Zenon DEF NumberTo
  <1> HIDE DEF E
  <1>5. NumberTo(s) = E(NumberTo(s))
    BY <1>3, <1>4
  <1>6. \A k \in 0 .. n :
          NumberTo(s)[k] = IF k = 0 THEN 0 ELSE 10 * NumberTo(s)[k - 1] + s[k]
    BY <1>5, Zenon DEF E
  <1> HIDE DEF n
  <1> DEFINE T == {k \in Nat : NumberTo(s)[k] \in Int}
  <1>7. 0 \in T
    BY <1>0, <1>6
  <1>8. ASSUME NEW k \in Nat, k < n, k \in T PROVE k + 1 \in T
    <2>1. k + 1 \in 0 .. n /\ k + 1 # 0 /\ (k + 1) - 1 = k /\ s[k + 1] \in Int
      BY <1>0, <1>8
    <2>2. NumberTo(s)[k] \in Int
      BY <1>8
    <2>3. NumberTo(s)[k + 1] = 10 * NumberTo(s)[k] + s[k + 1]
      BY <1>6, <2>1
    <2> QED BY <2>1, <2>2, <2>3
  <1>9. \A k \in 0 .. n : k \in T
    BY <1>0, <1>7, <1>8, InductionTo
  <1> QED BY <1>0, <1>6, <1>9 DEF n

(* Only the digits read so far count. *)
LEMMA NumberAgrees ==
  ASSUME NEW s \in Seq(Int), NEW t \in Seq(Int), NEW n \in Nat, n <= Len(s), n <= Len(t),
         \A k \in 1 .. n : s[k] = t[k]
  PROVE  NumberTo(s)[n] = NumberTo(t)[n]
  <1> DEFINE T == {k \in Nat : NumberTo(s)[k] = NumberTo(t)[k]}
  <1>1. 0 \in T
    BY NumberSteps
  <1>2. ASSUME NEW k \in Nat, k < n, k \in T PROVE k + 1 \in T
    <2>1. k + 1 \in 1 .. Len(s) /\ k + 1 \in 1 .. Len(t) /\ s[k + 1] = t[k + 1]
          /\ (k + 1) - 1 = k
      BY <1>2
    <2>2. /\ NumberTo(s)[k + 1] = 10 * NumberTo(s)[k] + s[k + 1]
          /\ NumberTo(t)[k + 1] = 10 * NumberTo(t)[k] + t[k + 1]
      BY <2>1, NumberSteps
    <2> QED BY <1>2, <2>1, <2>2
  <1>3. \A k \in 0 .. n : k \in T
    BY <1>1, <1>2, InductionTo
  <1> QED BY <1>3

(* Digits that are put behind others. *)
LEMMA NumberConcat ==
  ASSUME NEW s \in Seq(Int), NEW t \in Seq(Int)
  PROVE  Number(s \o t) = Number(s) * Pow10[Len(t)] + Number(t)
  <1> DEFINE m == Len(s)
             n == Len(t)
             u == s \o t
  <1>1. /\ m \in Nat /\ n \in Nat /\ u \in Seq(Int) /\ Len(u) = m + n
        /\ \A k \in 1 .. m : u[k] = s[k]
        /\ \A k \in 1 .. n : u[m + k] = t[k] /\ t[k] \in Int
    OBVIOUS
  <1> HIDE DEF u
  <1>2. NumberTo(u)[m] = NumberTo(s)[m]
    <2>1. m <= Len(u) /\ m <= Len(s)
      BY <1>1
    <2> HIDE DEF m, n
    <2> QED BY <1>1, <2>1, NumberAgrees
  <1> HIDE DEF m, n
  <1> DEFINE T == {k \in Nat : NumberTo(u)[m + k] = NumberTo(s)[m] * Pow10[k] + NumberTo(t)[k]}
  <1>3. NumberTo(s)[m] \in Int
    BY <1>1, NumberSteps DEF m
  <1>4. 0 \in T
    <2>1. m + 0 = m /\ NumberTo(t)[0] = 0 /\ Pow10[0] = 1
      BY <1>1, NumberSteps, Pow10Is
    <2> QED BY <1>2, <1>3, <2>1
  <1>5. ASSUME NEW k \in Nat, k < n, k \in T PROVE k + 1 \in T
    <2> DEFINE a == NumberTo(s)[m]
               b == Pow10[k]
               c == NumberTo(t)[k]
               d == t[k + 1]
    <2>1. k + 1 \in 1 .. n /\ (k + 1) - 1 = k /\ k \in 0 .. n
          /\ m + (k + 1) \in 1 .. Len(u) /\ (m + (k + 1)) - 1 = m + k
      BY <1>1, <1>5
    <2>2. NumberTo(t)[k + 1] = 10 * c + d /\ c \in Int /\ d \in Int
      BY <1>1, <2>1, NumberSteps DEF n
    <2>3. NumberTo(u)[m + (k + 1)] = 10 * NumberTo(u)[m + k] + d
      BY <1>1, <2>1, NumberSteps
    <2>4. NumberTo(u)[m + k] = a * b + c /\ Pow10[k + 1] = 10 * b /\ b \in Nat
      BY <1>5, Pow10Is, Pow10Type
    <2> HIDE DEF a, b, c, d
    <2>5. a \in Int
      BY <1>3 DEF a
    <2>6. 10 * (a * b + c) + d = a * (10 * b) + (10 * c + d)
      BY <2>2, <2>4, <2>5
    <2>7. NumberTo(u)[m + (k + 1)] = a * Pow10[k + 1] + NumberTo(t)[k + 1]
      BY <2>2, <2>3, <2>4, <2>6
    <2> QED BY <2>7 DEF a
  <1>6. \A k \in 0 .. n : k \in T
    BY <1>1, <1>4, <1>5, InductionTo
  <1>7. n \in T
    BY <1>1, <1>6
  <1> QED BY <1>1, <1>7 DEF Number, u, m, n

(* A digit's number is the digit, and no digits are zero. *)
LEMMA NumberOne ==
  /\ Number(<<>>) = 0
  /\ \A c \in 0 .. 9 : Number(<<c>>) = c
  <1>1. Number(<<>>) = 0
    <2>1. <<>> \in Seq(Int) /\ Len(<<>>) = 0
      OBVIOUS
    <2> QED BY <2>1, NumberSteps DEF Number
  <1>2. ASSUME NEW c \in 0 .. 9 PROVE Number(<<c>>) = c
    <2>1. <<c>> \in Seq(Int) /\ Len(<<c>>) = 1 /\ <<c>>[1] = c /\ 1 - 1 = 0
      OBVIOUS
    <2> DEFINE s == <<c>>
    <2>2. s \in Seq(Int) /\ 1 \in 1 .. Len(s) /\ s[1] = c /\ Len(s) = 1
      BY <2>1
    <2> HIDE DEF s
    <2>3. NumberTo(s)[0] = 0 /\ NumberTo(s)[1] = 10 * NumberTo(s)[1 - 1] + s[1]
      BY ONLY <2>2, NumberSteps
    <2>4. NumberTo(s)[1] = c
      BY <2>1, <2>2, <2>3
    <2> QED BY <2>2, <2>4 DEF Number, s
  <1> QED BY <1>1, <1>2

(* A number of so many digits. *)
LEMMA NumberBound ==
  ASSUME NEW s \in Seq(0 .. 9)
  PROVE  Number(s) \in Nat /\ Number(s) < Pow10[Len(s)]
  <1> DEFINE n == Len(s)
             T == {k \in Nat : NumberTo(s)[k] \in Nat /\ NumberTo(s)[k] < Pow10[k]}
  <1>1. s \in Seq(Int) /\ n \in Nat /\ \A k \in 1 .. n : s[k] \in 0 .. 9
    OBVIOUS
  <1>2. 0 \in T
    <2>1. NumberTo(s)[0] = 0 /\ Pow10[0] = 1
      BY <1>1, NumberSteps, Pow10Is
    <2> QED BY <2>1
  <1>3. ASSUME NEW k \in Nat, k < n, k \in T PROVE k + 1 \in T
    <2> DEFINE c == NumberTo(s)[k]
               b == Pow10[k]
    <2>1. k + 1 \in 1 .. n /\ (k + 1) - 1 = k /\ s[k + 1] \in 0 .. 9
      BY <1>1, <1>3
    <2>2. NumberTo(s)[k + 1] = 10 * c + s[k + 1] /\ Pow10[k + 1] = 10 * b
      BY <1>1, <2>1, NumberSteps, Pow10Is
    <2>3. c \in Nat /\ c < b /\ b \in Nat
      BY <1>3, Pow10Type
    <2> HIDE DEF b, c
    <2>4. 10 * c + s[k + 1] \in Nat /\ 10 * c + s[k + 1] < 10 * b
      BY ONLY <2>1, <2>3
    <2> QED BY <2>2, <2>4
  <1>4. \A k \in 0 .. n : k \in T
    BY <1>1, <1>2, <1>3, InductionTo
  <1>5. n \in T
    BY <1>1, <1>4
  <1> QED BY <1>5 DEF Number

-----------------------------------------------------------------------------
(* Parts of a text. *)
LEMMA PartOf ==
  ASSUME NEW S, NEW s \in Seq(S), NEW m \in Nat \ {0}, NEW n \in Nat,
         m <= n + 1, n <= Len(s)
  PROVE  /\ SubSeq(s, m, n) \in Seq(S)
         /\ Len(SubSeq(s, m, n)) = n - m + 1
         /\ \A i \in 1 .. (n - m + 1) : SubSeq(s, m, n)[i] = s[m + i - 1]
  <1>1. m \in Int /\ n \in Int /\ \A i \in m .. n : s[i] \in S
    OBVIOUS
  <1>2. m <= n => Len(SubSeq(s, m, n)) = n - m + 1
    BY <1>1, SubSeqProperties
  <1>3. ~ (m <= n) => Len(SubSeq(s, m, n)) = 0 /\ n - m + 1 = 0
    BY <1>1, SubSeqProperties
  <1> QED BY <1>1, <1>2, <1>3, SubSeqProperties

(* A text is what stands up to a place and what stands behind it. *)
LEMMA SplitAt ==
  ASSUME NEW S, NEW s \in Seq(S), NEW p \in 0 .. Len(s)
  PROVE  /\ SubSeq(s, 1, p) \in Seq(S)
         /\ SubSeq(s, p + 1, Len(s)) \in Seq(S)
         /\ Len(SubSeq(s, p + 1, Len(s))) = Len(s) - p
         /\ Len(SubSeq(s, 1, p)) = p
         /\ \A i \in 1 .. p : SubSeq(s, 1, p)[i] = s[i]
         /\ \A i \in 1 .. (Len(s) - p) : SubSeq(s, p + 1, Len(s))[i] = s[p + i]
         /\ s = SubSeq(s, 1, p) \o SubSeq(s, p + 1, Len(s))
  <1> DEFINE n == Len(s)
             F == SubSeq(s, 1, p)
             R == SubSeq(s, p + 1, n)
  <1>1. n \in Nat /\ p \in Nat /\ p <= n
    OBVIOUS
  <1>2. F \in Seq(S) /\ Len(F) = p /\ \A i \in 1 .. p : F[i] = s[i]
    <2>1. 1 \in Nat \ {0} /\ 1 <= p + 1
      BY <1>1
    <2>2. F \in Seq(S) /\ Len(F) = p - 1 + 1
          /\ \A i \in 1 .. (p - 1 + 1) : F[i] = s[1 + i - 1]
      BY <1>1, <2>1, PartOf
    <2> HIDE DEF F
    <2>3. p - 1 + 1 = p /\ \A i \in 1 .. p : 1 + i - 1 = i
      BY <1>1
    <2> QED BY ONLY <2>2, <2>3
  <1>3. R \in Seq(S) /\ Len(R) = n - p /\ \A i \in 1 .. (n - p) : R[i] = s[p + i]
    <2> DEFINE m == p + 1
    <2>1. m \in Nat \ {0} /\ m <= n + 1 /\ n <= Len(s)
      BY <1>1
    <2>2. n - m + 1 = n - p /\ \A i \in 1 .. (n - p) : m + i - 1 = p + i
      BY <1>1
    <2> HIDE DEF m, n
    <2>3. SubSeq(s, m, n) \in Seq(S) /\ Len(SubSeq(s, m, n)) = n - m + 1
          /\ \A i \in 1 .. (n - m + 1) : SubSeq(s, m, n)[i] = s[m + i - 1]
      BY ONLY <1>1, <2>1, s \in Seq(S), PartOf
    <2>4. R = SubSeq(s, m, n)
      BY DEF m
    <2> HIDE DEF R
    <2> QED BY ONLY <2>2, <2>3, <2>4
  <1> HIDE DEF F, R
  <1>4. F \o R \in Seq(S) /\ Len(F \o R) = n
        /\ \A i \in 1 .. n : (F \o R)[i] = IF i <= p THEN F[i] ELSE R[i - p]
    <2>1. F \o R \in Seq(S) /\ Len(F \o R) = Len(F) + Len(R)
          /\ \A i \in 1 .. (Len(F) + Len(R)) :
                (F \o R)[i] = IF i <= Len(F) THEN F[i] ELSE R[i - Len(F)]
      BY <1>2, <1>3, ConcatProperties
    <2>2. Len(F) + Len(R) = n
      BY <1>1, <1>2, <1>3
    <2> QED BY <1>2, <2>1, <2>2
  <1>5. \A i \in 1 .. n : s[i] = (F \o R)[i]
    <2> TAKE i \in 1 .. n
    <2>1. CASE i <= p
      BY <1>1, <1>2, <1>4, <2>1
    <2>2. CASE ~ (i <= p)
      <3>1. i - p \in 1 .. (n - p) /\ p + (i - p) = i
        BY <1>1, <2>2
      <3> QED BY <1>3, <1>4, <2>2, <3>1
    <2> QED BY <2>1, <2>2
  <1>6. s = F \o R
    BY <1>4, <1>5, SeqEqual
  <1> QED BY <1>2, <1>3, <1>6 DEF F, R

(* All of a text is the text. *)
LEMMA SubSeqWhole ==
  ASSUME NEW S, NEW s \in Seq(S)
  PROVE  SubSeq(s, 1, Len(s)) = s /\ SubSeq(s, 0 + 1, Len(s)) = s
  <1> DEFINE n == Len(s)
  <1>1. n \in Nat /\ n \in 0 .. Len(s) /\ 0 + 1 = 1
    OBVIOUS
  <1>2. SubSeq(s, 1, n) \in Seq(S) /\ Len(SubSeq(s, 1, n)) = n
        /\ \A i \in 1 .. n : SubSeq(s, 1, n)[i] = s[i]
    BY <1>1, SplitAt
  <1>3. SubSeq(s, 1, n) = s
    BY <1>2, SeqEqual
  <1> QED BY <1>1, <1>3

(* A text of some characters is one of others. *)
LEMMA SeqMono ==
  ASSUME NEW S, NEW T, S \subseteq T, NEW s \in Seq(S)
  PROVE  s \in Seq(T)
  OBVIOUS

(* A text that is all digits. *)
LEMMA DigitsAre ==
  ASSUME NEW s \in Seq(Int), \A i \in 1 .. Len(s) : IsDigit(s[i])
  PROVE  s \in Seq(0 .. 9)
  <1> DEFINE n == Len(s)
             D == 0 .. 9
  <1>1. n \in Nat /\ s = [i \in 1 .. n |-> s[i]]
    BY LenProperties
  <1>2. \A i \in 1 .. n : s[i] \in D
    BY DEF IsDigit
  <1> HIDE DEF n, D
  <1>3. s \in [1 .. n -> D]
    BY ONLY <1>1, <1>2, Zenon
  <1>4. s \in UNION {[1 .. k -> D] : k \in Nat}
    BY ONLY <1>1, <1>3, Zenon
  <1>5. s \in Seq(D)
    BY ONLY <1>4, SeqDef, Zenon
  <1> QED BY <1>5 DEF D

LEMMA SplitDigits ==
  ASSUME NEW s \in Seq(0 .. 9), NEW p \in 0 .. Len(s)
  PROVE  /\ SubSeq(s, 1, p) \in Seq(0 .. 9)
         /\ SubSeq(s, p + 1, Len(s)) \in Seq(0 .. 9)
         /\ Len(SubSeq(s, p + 1, Len(s))) = Len(s) - p
         /\ Len(SubSeq(s, 1, p)) = p
         /\ \A i \in 1 .. p : SubSeq(s, 1, p)[i] = s[i]
         /\ \A i \in 1 .. (Len(s) - p) : SubSeq(s, p + 1, Len(s))[i] = s[p + i]
         /\ s = SubSeq(s, 1, p) \o SubSeq(s, p + 1, Len(s))
  <1> DEFINE D == 0 .. 9
  <1>1. s \in Seq(D) /\ p \in 0 .. Len(s)
    OBVIOUS
  <1> HIDE DEF D
  <1>2. /\ SubSeq(s, 1, p) \in Seq(D)
        /\ SubSeq(s, p + 1, Len(s)) \in Seq(D)
        /\ Len(SubSeq(s, p + 1, Len(s))) = Len(s) - p
        /\ Len(SubSeq(s, 1, p)) = p
        /\ \A i \in 1 .. p : SubSeq(s, 1, p)[i] = s[i]
        /\ \A i \in 1 .. (Len(s) - p) : SubSeq(s, p + 1, Len(s))[i] = s[p + i]
        /\ s = SubSeq(s, 1, p) \o SubSeq(s, p + 1, Len(s))
    BY ONLY <1>1, SplitAt, Zenon
  <1> QED BY <1>2, Zenon DEF D

LEMMA NoComma ==
  ASSUME NEW s \in Seq(0 .. 9)
  PROVE  \A i \in 1 .. Len(s) : s[i] # Comma
  <1>1. \A i \in 1 .. Len(s) : s[i] \in 0 .. 9
    OBVIOUS
  <1>2. \A c \in 0 .. 9 : c # Comma
    BY DEF Comma
  <1> QED BY ONLY <1>1, <1>2, Zenon

(* The number of the digits left of a point and of some right of it.       *)
Trunc(digits, places) ==
    IF Len(digits) <= places THEN Number(digits) * Pow10[places - Len(digits)]
    ELSE Number(SubSeq(digits, 1, places))

(* Digits on either side of a point, as a number of 1 / 10^places.         *)
LEMMA ScaledIs ==
  ASSUME NEW W \in Seq(0 .. 9), NEW D \in Seq(0 .. 9), NEW p \in Nat
  PROVE  (IF Len(D) <= p THEN Number(W \o D) * Pow10[p - Len(D)]
          ELSE Number(W \o D) \div Pow10[Len(D) - p])
           = Number(W) * Pow10[p] + Trunc(D, p)
  <1> DEFINE l == Len(D)
             w == Number(W)
  <1>1. W \in Seq(Int) /\ D \in Seq(Int) /\ l \in Nat
    OBVIOUS
  <1>2. Number(W \o D) = w * Pow10[l] + Number(D)
    BY <1>1, NumberConcat
  <1>3. w \in Nat /\ Number(D) \in Nat /\ Pow10[l] \in Nat
    BY <1>1, NumberBound, Pow10Type
  <1>4. CASE l <= p
    <2> DEFINE r == p - l
    <2>1. r \in Nat /\ p = l + r
      BY <1>1, <1>4
    <2>2. Pow10[p] = Pow10[l] * Pow10[r] /\ Pow10[r] \in Nat
      BY <1>1, <2>1, Pow10Sum, Pow10Type
    <2> DEFINE a == Pow10[l]
               b == Pow10[r]
               d == Number(D)
    <2>3. a \in Nat /\ b \in Nat /\ d \in Nat
      BY <1>3, <2>2
    <2>4. Number(W \o D) * b = (w * a + d) * b
      BY <1>2
    <2> HIDE DEF a, b, d, w
    <2>5. (w * a + d) * b = w * (a * b) + d * b
      BY <1>3, <2>3
    <2>6. Trunc(D, p) = d * b
      BY <1>4 DEF Trunc, d, b
    <2> QED BY <1>4, <2>2, <2>4, <2>5, <2>6 DEF a, b, w
  <1>5. CASE ~ (l <= p)
    <2> DEFINE r == l - p
               F == SubSeq(D, 1, p)
               R == SubSeq(D, p + 1, l)
    <2>1. r \in Nat /\ l = p + r /\ p <= l /\ p + 1 \in Nat \ {0} /\ p + 1 <= l + 1
      BY <1>1, <1>5
    <2>2. F \in Seq(0 .. 9) /\ R \in Seq(0 .. 9) /\ Len(R) = r /\ Len(F) = p
          /\ (\A i \in 1 .. p : F[i] = D[i]) /\ \A i \in 1 .. r : R[i] = D[p + i]
      <3> HIDE DEF l, r
      <3>1. p \in 0 .. l /\ l = Len(D) /\ r = l - p
        BY <1>1, <2>1 DEF l, r
      <3>2. /\ F \in Seq(0 .. 9) /\ R \in Seq(0 .. 9) /\ Len(R) = Len(D) - p
            /\ Len(F) = p /\ (\A i \in 1 .. p : F[i] = D[i])
            /\ \A i \in 1 .. (Len(D) - p) : R[i] = D[p + i]
        BY ONLY <3>1, D \in Seq(0 .. 9), SplitDigits, Zenon DEF F, R
      <3> QED BY ONLY <3>1, <3>2, Zenon
    <2>3. D = F \o R
      <3> HIDE DEF l, r
      <3>1. p \in 0 .. l /\ l = Len(D)
        BY <1>1, <2>1 DEF l, r
      <3>2. D = SubSeq(D, 1, p) \o SubSeq(D, p + 1, Len(D))
        BY ONLY <3>1, D \in Seq(0 .. 9), SplitDigits, Zenon
      <3> QED BY ONLY <3>1, <3>2, Zenon DEF F, R
    <2> HIDE DEF F, R
    <2> DEFINE f == Number(F)
               d == Number(R)
               a == Pow10[p]
               b == Pow10[r]
    <2>4. F \in Seq(Int) /\ R \in Seq(Int)
      BY ONLY <2>2, 0 .. 9 \subseteq Int, SeqMono
    <2>5. Number(D) = f * b + d
      BY <2>2, <2>3, <2>4, NumberConcat
    <2>6. Pow10[l] = a * b
      BY <2>1, Pow10Sum
    <2>7. f \in Nat /\ d \in 0 .. (b - 1) /\ a \in Nat /\ b \in Nat \ {0}
      <3>1. d \in Nat /\ d < b /\ f \in Nat
        BY <2>2, NumberBound
      <3>2. a \in Nat /\ b \in Nat \ {0}
        BY <2>1, Pow10Type
      <3> HIDE DEF a, b, d, f
      <3> QED BY <3>1, <3>2
    <2>8. Number(W \o D) = w * (a * b) + (f * b + d)
      BY <1>2, <2>5, <2>6
    <2>9. Trunc(D, p) = f
      BY <1>5 DEF Trunc, F
    <2>10. Number(W \o D) \div Pow10[l - p] = (w * (a * b) + (f * b + d)) \div b
      BY <2>8
    <2> HIDE DEF a, b, d, f, w
    <2>11. w * (a * b) + (f * b + d) = (w * a + f) * b + d /\ w * a + f \in Nat
      BY <1>3, <2>7
    <2>12. ((w * a + f) * b + d) \div b = w * a + f
      BY <2>7, <2>11, QuotientIs
    <2> QED BY <1>5, <2>9, <2>10, <2>11, <2>12 DEF a, w
  <1> QED BY <1>4, <1>5

-----------------------------------------------------------------------------
(* Searches in a text. *)
LEMMA FirstInIs ==
  ASSUME NEW text, NEW c, NEW from \in Nat, NEW to \in Nat, NEW p \in from .. to,
         CharAt(text, p) = c, \A i \in from .. (p - 1) : CharAt(text, i) # c
  PROVE  FirstIn(text, c, from, to) = p
  <1> DEFINE found == {i \in from .. to : CharAt(text, i) = c}
  <1>1. p \in found /\ \A i \in found : p <= i
    OBVIOUS
  <1>2. \A q \in found : (\A i \in found : q <= i) => q = p
    BY <1>1
  <1>3. Min(found) = p
    BY <1>1, <1>2 DEF Min
  <1>4. found # {}
    BY <1>1
  <1> QED BY <1>3, <1>4 DEF FirstIn

LEMMA FirstInNone ==
  ASSUME NEW text, NEW c, NEW from \in Nat, NEW to \in Nat,
         \A i \in from .. to : CharAt(text, i) # c
  PROVE  FirstIn(text, c, from, to) = 0
  BY DEF FirstIn

LEMMA FirstInFound ==
  ASSUME NEW text, NEW c, NEW from \in Nat \ {0}, NEW to \in Nat
  PROVE  \/ /\ FirstIn(text, c, from, to) = 0
            /\ \A i \in from .. to : CharAt(text, i) # c
         \/ /\ FirstIn(text, c, from, to) \in from .. to
            /\ CharAt(text, FirstIn(text, c, from, to)) = c
            /\ \A i \in from .. (FirstIn(text, c, from, to) - 1) : CharAt(text, i) # c
  <1> DEFINE found == {i \in from .. to : CharAt(text, i) = c}
  <1>1. CASE found = {}
    BY <1>1, FirstInNone
  <1>2. CASE found # {}
    <2>1. found \in SUBSET Nat
      OBVIOUS
    <2>2. PICK p \in found : \A i \in found : p <= i
      BY <1>2, <2>1, LeastNumber
    <2>3. p \in from .. to /\ CharAt(text, p) = c
          /\ \A i \in from .. (p - 1) : CharAt(text, i) # c
      BY <2>2
    <2>4. FirstIn(text, c, from, to) = p
      BY <2>3, FirstInIs
    <2> QED BY <2>3, <2>4
  <1> QED BY <1>1, <1>2

LEMMA DigitRunIs ==
  ASSUME NEW text, NEW from \in Nat, NEW most \in Nat, NEW n \in 0 .. most,
         \A i \in from .. (from + n - 1) : IsDigit(CharAt(text, i)),
         n = most \/ ~ IsDigit(CharAt(text, from + n))
  PROVE  DigitRun(text, from, most) = SubSeq(text, from, from + n - 1)
  <1> DEFINE runs == {k \in 0 .. most :
                        \A i \in from .. (from + k - 1) : IsDigit(CharAt(text, i))}
  <1>1. n \in runs
    OBVIOUS
  <1>2. ASSUME NEW k \in runs PROVE k <= n
    <2> SUFFICES ASSUME n < k PROVE FALSE
      OBVIOUS
    <2>1. n # most /\ from + n \in from .. (from + k - 1)
      OBVIOUS
    <2> QED BY <2>1
  <1>3. \A q \in runs : (\A k \in runs : q >= k) => q = n
    BY <1>1, <1>2
  <1>4. Max(runs) = n
    BY <1>1, <1>2, <1>3 DEF Max
  <1> HIDE DEF runs
  <1>5. DigitRun(text, from, most) = SubSeq(text, from, from + Max(runs) - 1)
    BY DEF DigitRun, runs
  <1> QED BY <1>4, <1>5

-----------------------------------------------------------------------------
(* Digits behind a point. *)
LEMMA TruncBound ==
  ASSUME NEW D \in Seq(0 .. 9), NEW p \in Nat
  PROVE  Trunc(D, p) \in Nat /\ Trunc(D, p) < Pow10[p]
  <1> DEFINE l == Len(D)
  <1>1. l \in Nat
    OBVIOUS
  <1>2. CASE l <= p
    <2> DEFINE d == Number(D)
               a == Pow10[l]
               b == Pow10[p - l]
    <2>1. p - l \in Nat /\ l + (p - l) = p
      BY <1>1, <1>2
    <2>2. d \in Nat /\ d < a
      BY NumberBound
    <2>3. a \in Nat /\ b \in Nat \ {0} /\ Pow10[p] = a * b
      <3> HIDE DEF l
      <3>1. Pow10[l + (p - l)] = Pow10[l] * Pow10[p - l]
        BY ONLY <1>1, <2>1, Pow10Sum, Zenon
      <3> QED BY ONLY <1>1, <2>1, <3>1, Pow10Type
    <2>4. Trunc(D, p) = d * b
      BY <1>2, SMTT(40) DEF Trunc
    <2> HIDE DEF a, b, d
    <2>5. a - d \in Nat /\ a - d >= 1
      BY <2>2, <2>3
    <2>6. (a - d) * b >= 1 /\ (a - d) * b = a * b - d * b /\ d * b \in Nat
      BY ONLY <2>2, <2>3, <2>5
    <2>7. d * b < a * b
      BY ONLY <2>2, <2>3, <2>6
    <2> QED BY <2>3, <2>4, <2>6, <2>7
  <1>3. CASE ~ (l <= p)
    <2>1. p \in 0 .. Len(D)
      BY <1>1, <1>3
    <2>2. SubSeq(D, 1, p) \in Seq(0 .. 9) /\ Len(SubSeq(D, 1, p)) = p
      BY <2>1, SplitAt
    <2>3. Trunc(D, p) = Number(SubSeq(D, 1, p))
      BY <1>3 DEF Trunc
    <2> QED BY <2>2, <2>3, NumberBound
  <1> QED BY <1>2, <1>3

(* One more of them. *)
LEMMA TruncStep ==
  ASSUME NEW D \in Seq(0 .. 9), NEW p \in Nat
  PROVE  \E digit \in 0 .. 9 : Trunc(D, p + 1) = 10 * Trunc(D, p) + digit
  <1> DEFINE l == Len(D)
  <1>1. l \in Nat
    OBVIOUS
  <1>2. CASE l <= p
    <2> DEFINE d == Number(D)
               b == Pow10[p - l]
    <2>1. p - l \in Nat /\ (p - l) + 1 = (p + 1) - l /\ l <= p + 1
      BY <1>1, <1>2
    <2>2. d \in Nat /\ b \in Nat
      <3> HIDE DEF l
      <3> QED BY <2>1, NumberBound, Pow10Type
    <2>3. Pow10[(p + 1) - l] = 10 * b
      <3> HIDE DEF l
      <3> QED BY <2>1, Pow10Is
    <2>4. Trunc(D, p) = d * b /\ Trunc(D, p + 1) = d * (10 * b)
      BY <1>2, <2>1, <2>3 DEF Trunc
    <2> HIDE DEF b, d
    <2>5. d * (10 * b) = 10 * (d * b) + 0
      BY <2>2
    <2> QED BY <2>4, <2>5
  <1>3. CASE ~ (l <= p)
    <2> DEFINE G == SubSeq(D, 1, p + 1)
               F == SubSeq(D, 1, p)
    <2>1. p + 1 \in 0 .. Len(D) /\ p \in 0 .. Len(D)
      BY <1>1, <1>3
    <2>2. G \in Seq(0 .. 9) /\ Len(G) = p + 1 /\ \A i \in 1 .. (p + 1) : G[i] = D[i]
      BY <2>1, SplitAt
    <2>3. F \in Seq(0 .. 9) /\ Len(F) = p /\ \A i \in 1 .. p : F[i] = D[i]
      BY <2>1, SplitAt
    <2>4. Trunc(D, p + 1) = Number(G) /\ Trunc(D, p) = Number(F)
      <3>1. Trunc(D, p) = Number(F)
        BY <1>3 DEF Trunc
      <3>2. CASE l = p + 1
        <4>1. \A i \in 1 .. l : G[i] = D[i]
          BY <2>2, <3>2
        <4> HIDE DEF G
        <4>2. G = D
          BY <2>2, <3>2, <4>1, SeqEqual
        <4>3. Trunc(D, p + 1) = Number(D) * Pow10[0]
          BY <3>2 DEF Trunc
        <4>4. Number(D) \in Nat /\ Pow10[0] = 1
          BY NumberBound, Pow10Is
        <4> QED BY <3>1, <4>2, <4>3, <4>4
      <3>3. CASE l # p + 1
        <4>1. ~ (l <= p + 1)
          BY <1>1, <1>3, <3>3
        <4> QED BY <3>1, <4>1 DEF Trunc
      <3> QED BY <3>2, <3>3
    <2> HIDE DEF F, G
    <2>5. G = F \o <<G[p + 1]>> /\ G[p + 1] \in 0 .. 9
      <3>1. G[p + 1] \in 0 .. 9
        BY <2>2
      <3>2. F \o <<G[p + 1]>> \in Seq(0 .. 9) /\ Len(F \o <<G[p + 1]>>) = p + 1
            /\ \A i \in 1 .. (p + 1) :
                  (F \o <<G[p + 1]>>)[i] = IF i <= p THEN F[i] ELSE G[p + 1]
        BY <2>3, <3>1
      <3>3. \A i \in 1 .. (p + 1) : G[i] = (F \o <<G[p + 1]>>)[i]
        <4> TAKE i \in 1 .. (p + 1)
        <4>1. (F \o <<G[p + 1]>>)[i] = IF i <= p THEN F[i] ELSE G[p + 1]
          BY <3>2
        <4>2. CASE i <= p
          BY <2>2, <2>3, <4>1, <4>2
        <4>3. CASE ~ (i <= p)
          <5>1. i = p + 1
            BY ONLY <4>3, i \in 1 .. (p + 1), p \in Nat
          <5> QED BY ONLY <4>1, <4>3, <5>1
        <4> QED BY ONLY <4>2, <4>3
      <3> QED BY <2>2, <3>1, <3>2, <3>3, SeqEqual
    <2>6. Number(G) = Number(F) * Pow10[1] + Number(<<G[p + 1]>>)
      <3>1. F \in Seq(Int) /\ <<G[p + 1]>> \in Seq(Int) /\ Len(<<G[p + 1]>>) = 1
        <4>1. F \in Seq(Int)
          BY <2>3, SeqMono
        <4>2. G[p + 1] \in Int
          BY <2>5
        <4> HIDE DEF l
        <4> QED BY ONLY <4>1, <4>2
      <3> QED BY <2>5, <3>1, NumberConcat
    <2>7. Number(<<G[p + 1]>>) = G[p + 1]
      BY <2>5, NumberOne
    <2>8. Number(F) \in Nat /\ Pow10[1] = 10
      BY <2>3, NumberBound, Pow10Small
    <2>9. Trunc(D, p + 1) = 10 * Trunc(D, p) + G[p + 1]
      BY <2>4, <2>5, <2>6, <2>7, <2>8
    <2> QED BY <2>5, <2>9
  <1> QED BY <1>2, <1>3

-----------------------------------------------------------------------------
(* The digits behind a point, read as far as they count. *)
LEMMA RunIsTrunc ==
  ASSUME NEW text \in Seq(Char), NEW m \in 0 .. Len(text), NEW most \in Nat,
         SubSeq(text, m + 1, Len(text)) \in Seq(0 .. 9)
  PROVE  LET run == DigitRun(text, m + 1, most)
         IN  /\ Number(run) * Pow10[most - Len(run)]
                  = Trunc(SubSeq(text, m + 1, Len(text)), most)
             /\ run \in Seq(0 .. 9) /\ Len(run) \in 0 .. most
  <1> DEFINE n == Len(text)
             D == SubSeq(text, m + 1, n)
             k == IF n - m <= most THEN n - m ELSE most
             run == SubSeq(text, m + 1, m + k)
  <1>1. n \in Nat /\ m \in Nat /\ m <= n /\ k \in 0 .. most /\ m + k <= n
    OBVIOUS
  <1>2. Len(D) = n - m /\ \A i \in 1 .. (n - m) : D[i] = text[m + i]
    BY SplitAt
  <1>3. D \in Seq(0 .. 9)
    OBVIOUS
  <1> HIDE DEF D, n
  <1>4. \A i \in 1 .. (n - m) : text[m + i] \in 0 .. 9
    <2>1. \A i \in 1 .. (n - m) : D[i] \in 0 .. 9
      BY ONLY <1>1, <1>2, <1>3
    <2> QED BY <1>2, <2>1
  <1>5. DigitRun(text, m + 1, most) = run
    <2>1. \A i \in (m + 1) .. ((m + 1) + k - 1) : IsDigit(CharAt(text, i))
      <3> TAKE i \in (m + 1) .. ((m + 1) + k - 1)
      <3>1. i - m \in 1 .. (n - m) /\ m + (i - m) = i /\ i <= n
        BY <1>1
      <3>2. text[i] \in 0 .. 9
        BY <1>4, <3>1
      <3> QED BY <3>1, <3>2 DEF IsDigit, CharAt, n
    <2>2. k = most \/ ~ IsDigit(CharAt(text, (m + 1) + k))
      <3>1. CASE n - m <= most
        <4>1. ~ ((m + 1) + k <= n)
          BY <1>1, <3>1
        <4>2. CharAt(text, (m + 1) + k) = Nul
          BY <4>1 DEF CharAt, n
        <4> QED BY <4>2 DEF Nul, IsDigit
      <3> QED BY <3>1
    <2>3. m + 1 \in Nat /\ (m + 1) + k - 1 = m + k
      BY <1>1
    <2> DEFINE a == m + 1
    <2>4. DigitRun(text, a, most) = SubSeq(text, a, a + k - 1)
      <3> HIDE DEF k
      <3>1. a \in Nat /\ k \in 0 .. most
            /\ (\A i \in a .. (a + k - 1) : IsDigit(CharAt(text, i)))
            /\ (k = most \/ ~ IsDigit(CharAt(text, a + k)))
        BY ONLY <1>1, <2>1, <2>2, <2>3
      <3> HIDE DEF a
      <3> QED BY ONLY <3>1, most \in Nat, DigitRunIs
    <2> HIDE DEF k
    <2> QED BY ONLY <2>3, <2>4 DEF a, run
  <1>6. run \in Seq(Char) /\ Len(run) = k /\ \A i \in 1 .. k : run[i] = text[m + i]
    <2> DEFINE a == m + 1
               b == m + k
    <2>1. a \in Nat \ {0} /\ b \in Nat /\ a <= b + 1 /\ b <= Len(text)
      BY <1>1 DEF n
    <2>2. b - a + 1 = k /\ \A i \in 1 .. k : a + i - 1 = m + i
      BY <1>1
    <2> HIDE DEF k
    <2>3. run = SubSeq(text, a, b)
      BY DEF run, a, b
    <2> HIDE DEF a, b, run
    <2>4. SubSeq(text, a, b) \in Seq(Char) /\ Len(SubSeq(text, a, b)) = b - a + 1
          /\ \A i \in 1 .. (b - a + 1) : SubSeq(text, a, b)[i] = text[a + i - 1]
      BY ONLY <2>1, text \in Seq(Char), PartOf, SMTT(20)
    <2> QED BY ONLY <2>2, <2>3, <2>4
  <1> HIDE DEF run
  <1>7. run \in Seq(0 .. 9)
    <2>1. \A i \in 1 .. Len(run) : run[i] \in 0 .. 9
      <3>1. \A i \in 1 .. k : i \in 1 .. (n - m)
        BY ONLY <1>1
      <3> QED BY ONLY <1>4, <1>6, <3>1, Zenon
    <2>2. run \in Seq(Int)
      BY <1>6, SeqMono DEF Char
    <2> QED BY <2>1, <2>2, DigitsAre DEF IsDigit
  <1>8. CASE n - m <= most
    <2>1. k = n - m
      BY <1>8
    <2>2. run = D
      BY <1>2, <1>3, <1>6, <1>7, <2>1, SeqEqual
    <2> QED BY <1>1, <1>2, <1>5, <1>6, <1>7, <1>8, <2>2 DEF Trunc, D, n
  <1>9. CASE ~ (n - m <= most)
    <2>1. k = most /\ most \in 0 .. Len(D)
      BY <1>1, <1>2, <1>9
    <2>2. SubSeq(D, 1, most) \in Seq(0 .. 9) /\ Len(SubSeq(D, 1, most)) = most
          /\ \A i \in 1 .. most : SubSeq(D, 1, most)[i] = D[i]
      BY <1>3, <2>1, SplitAt
    <2>3. \A i \in 1 .. most : run[i] = SubSeq(D, 1, most)[i]
      <3> TAKE i \in 1 .. most
      <3>1. i \in 1 .. k /\ i \in 1 .. (n - m)
        BY ONLY <1>1, <1>9, <2>1, i \in 1 .. most, most \in Nat
      <3>2. run[i] = text[m + i] /\ D[i] = text[m + i]
        BY ONLY <1>2, <1>6, <3>1
      <3> QED BY ONLY <2>2, <3>2, i \in 1 .. most
    <2>4. run = SubSeq(D, 1, most)
      BY <1>6, <1>7, <2>1, <2>2, <2>3, SeqEqual
    <2>5. Trunc(D, most) = Number(run)
      BY <1>2, <1>9, <2>4 DEF Trunc
    <2>6. Number(run) \in Nat /\ Pow10[most - Len(run)] = 1
      <3>1. Number(run) \in Nat
        BY <1>7, NumberBound
      <3>2. most - Len(run) = 0
        BY ONLY <1>6, <2>1, most \in Nat
      <3> QED BY <3>1, <3>2, Pow10Is
    <2>7. Number(run) * Pow10[most - Len(run)] = Trunc(D, most)
      BY <2>5, <2>6
    <2> QED BY <1>1, <1>5, <1>6, <1>7, <2>7 DEF D, n
  <1> QED BY <1>8, <1>9

(* The two parts of a decimal that stands in a text behind its sign. *)
LEMMA DecimalParts ==
  ASSUME NEW text \in Seq(Char), NEW o \in {0, 1}, o <= Len(text),
         NEW u, u = SubSeq(text, o + 1, Len(text)), IsDecimal(u)
  PROVE  LET dot == FirstIn(text, Dot, o + 1, Len(text))
             end == IF dot = 0 THEN Len(text) ELSE dot - 1
             W == SubSeq(text, o + 1, end)
             D == IF dot = 0 THEN <<>> ELSE SubSeq(text, dot + 1, Len(text))
         IN  /\ dot = 0 \/ dot \in (o + 1) .. Len(text)
             /\ \A i \in (o + 1) .. end : IsDigit(text[i])
             /\ W \in Seq(0 .. 9) /\ D \in Seq(0 .. 9)
             /\ \A p \in Nat : Scaled(u, p) = Number(W) * Pow10[p] + Trunc(D, p)
  <1> DEFINE n == Len(text)
             dot == FirstIn(text, Dot, o + 1, n)
             end == IF dot = 0 THEN n ELSE dot - 1
             W == SubSeq(text, o + 1, end)
             D == IF dot = 0 THEN <<>> ELSE SubSeq(text, dot + 1, n)
  <1>1. n \in Nat /\ o \in 0 .. Len(text) /\ o + 1 \in Nat \ {0} /\ o \in Nat
    OBVIOUS
  <1>2. u \in Seq(Char) /\ Len(u) = n - o /\ \A i \in 1 .. (n - o) : u[i] = text[o + i]
    BY <1>1, SplitAt
  <1>3. \A i \in (o + 1) .. n : CharAt(text, i) = text[i] /\ text[i] = CharAt(u, i - o)
                                /\ (IsDigit(text[i]) \/ text[i] = Dot)
    <2> TAKE i \in (o + 1) .. n
    <2>1. i - o \in 1 .. (n - o) /\ o + (i - o) = i /\ i <= n
      BY <1>1
    <2>2. u[i - o] = text[i] /\ i - o <= Len(u)
      BY <1>2, <2>1
    <2>3. IsDigit(u[i - o]) \/ u[i - o] = Dot
      BY <1>2, <2>1 DEF IsDecimal
    <2> QED BY <2>1, <2>2, <2>3 DEF CharAt
  <1>4. \/ dot = 0 /\ \A i \in (o + 1) .. n : CharAt(text, i) # Dot
        \/ /\ dot \in (o + 1) .. n /\ CharAt(text, dot) = Dot
           /\ \A i \in (o + 1) .. (dot - 1) : CharAt(text, i) # Dot
    <2> DEFINE a == o + 1
    <2>1. a \in Nat \ {0} /\ n \in Nat
      BY <1>1
    <2>2. LET p == FirstIn(text, Dot, a, n)
          IN  \/ p = 0 /\ \A i \in a .. n : CharAt(text, i) # Dot
              \/ /\ p \in a .. n /\ CharAt(text, p) = Dot
                 /\ \A i \in a .. (p - 1) : CharAt(text, i) # Dot
      <3> HIDE DEF a, n
      <3> QED BY ONLY <2>1, FirstInFound
    <2> QED BY <2>2
  <1> HIDE DEF n, dot
  <1>5. CASE dot = 0
    <2>0. ~ (dot \in (o + 1) .. n)
      BY <1>1, <1>5
    <2>1. \A i \in (o + 1) .. n : IsDigit(text[i]) /\ CharAt(u, i - o) # Dot
      BY <1>3, <1>4, <2>0
    <2>2. \A j \in 1 .. Len(u) : CharAt(u, j) # Dot /\ IsDigit(u[j])
      <3> TAKE j \in 1 .. Len(u)
      <3>1. o + j \in (o + 1) .. n /\ (o + j) - o = j
        BY <1>1, <1>2
      <3>2. CharAt(u, j) = u[j]
        BY <1>2 DEF CharAt
      <3> QED BY <1>2, <2>1, <3>1, <3>2
    <2>3. FirstIn(u, Dot, 1, Len(u)) = 0
      <3>1. Len(u) \in Nat
        BY <1>2
      <3> QED BY <2>2, <3>1, FirstInNone
    <2>4. u \in Seq(0 .. 9)
      <3>1. u \in Seq(Int)
        BY <1>2, SeqMono DEF Char
      <3> QED BY <2>2, <3>1, DigitsAre
    <2>5. W = u /\ D = <<>> /\ end = n /\ <<>> \in Seq(0 .. 9)
      BY <1>5 DEF n
    <2>6. ASSUME NEW p \in Nat
          PROVE  Scaled(u, p) = Number(u) * Pow10[p] + Trunc(<<>>, p)
      <3>1. Scaled(u, p) = IF Len(<<>>) <= p THEN Number(u \o <<>>) * Pow10[p - Len(<<>>)]
                           ELSE Number(u \o <<>>) \div Pow10[Len(<<>>) - p]
        BY <2>3 DEF Scaled
      <3> QED BY <2>4, <2>5, <3>1, ScaledIs
    <2> HIDE DEF W, D, end
    <2>7. dot = 0 /\ (\A i \in (o + 1) .. end : IsDigit(text[i]))
          /\ W \in Seq(0 .. 9) /\ D \in Seq(0 .. 9)
          /\ \A p \in Nat : Scaled(u, p) = Number(W) * Pow10[p] + Trunc(D, p)
      BY <1>5, <2>1, <2>4, <2>5, <2>6
    <2> QED BY <2>7 DEF W, D, end, dot, n
  <1>6. CASE dot # 0
    <2> DEFINE d == dot - o
    <2>1. /\ dot \in (o + 1) .. n /\ CharAt(text, dot) = Dot
          /\ \A i \in (o + 1) .. (dot - 1) : CharAt(text, i) # Dot
      BY <1>4, <1>6
    <2>2. d \in 1 .. Len(u) /\ d + o = dot /\ d \in Nat /\ dot \in Nat /\ Len(u) \in Nat
      BY <1>1, <1>2, <2>1
    <2> HIDE DEF d
    <2>3. u[d] = Dot
      <3>1. text[dot] = Dot /\ o + d = dot
        BY <1>1, <1>3, <2>1, <2>2
      <3> QED BY <1>2, <2>2, <3>1
    <2>4. \A j \in 1 .. Len(u) : j # d => IsDigit(u[j])
      BY <2>2, <2>3 DEF IsDecimal
    <2>5. FirstIn(u, Dot, 1, Len(u)) = d
      <3>1. CharAt(u, d) = Dot
        BY <2>2, <2>3 DEF CharAt
      <3>2. \A j \in 1 .. (d - 1) : CharAt(u, j) # Dot
        <4> TAKE j \in 1 .. (d - 1)
        <4>1. j \in 1 .. Len(u) /\ j # d /\ j <= Len(u)
          BY <2>2
        <4>2. u[j] \in 0 .. 9
          BY <2>4, <4>1 DEF IsDigit
        <4>3. CharAt(u, j) = u[j]
          BY <4>1 DEF CharAt
        <4> QED BY ONLY <4>2, <4>3 DEF Dot
      <3> QED BY <2>2, <3>1, <3>2, FirstInIs
    <2> DEFINE B == SubSeq(u, 1, d - 1)
               E == SubSeq(u, d + 1, Len(u))
    <2>6. B \in Seq(0 .. 9) /\ Len(B) = d - 1 /\ \A j \in 1 .. (d - 1) : B[j] = u[j]
      <3>1. d - 1 \in 0 .. Len(u)
        BY <2>2
      <3>2. B \in Seq(Char) /\ Len(B) = d - 1 /\ \A j \in 1 .. (d - 1) : B[j] = u[j]
        BY <1>2, <3>1, SplitAt, SMTT(40)
      <3> HIDE DEF B
      <3>3. \A j \in 1 .. Len(B) : IsDigit(B[j])
        <4> TAKE j \in 1 .. Len(B)
        <4>1. j \in 1 .. (d - 1) /\ j \in 1 .. Len(u) /\ j # d
          BY <2>2, <3>2
        <4> QED BY <2>4, <3>2, <4>1
      <3>4. B \in Seq(Int)
        BY <3>2, SeqMono DEF Char
      <3> QED BY <3>2, <3>3, <3>4, DigitsAre
    <2>7. E \in Seq(0 .. 9) /\ Len(E) = Len(u) - d
          /\ \A j \in 1 .. (Len(u) - d) : E[j] = u[d + j]
      <3>1. d \in 0 .. Len(u)
        BY <2>2
      <3>2. E \in Seq(Char) /\ Len(E) = Len(u) - d
            /\ \A j \in 1 .. (Len(u) - d) : E[j] = u[d + j]
        BY <1>2, <3>1, SplitAt, SMTT(40)
      <3> HIDE DEF E
      <3>3. \A j \in 1 .. Len(E) : IsDigit(E[j])
        <4> TAKE j \in 1 .. Len(E)
        <4>1. j \in 1 .. (Len(u) - d) /\ d + j \in 1 .. Len(u) /\ d + j # d
          BY <2>2, <3>2
        <4> QED BY <2>4, <3>2, <4>1
      <3>4. E \in Seq(Int)
        BY <3>2, SeqMono DEF Char
      <3> QED BY <3>2, <3>3, <3>4, DigitsAre
    <2>8. ASSUME NEW p \in Nat PROVE Scaled(u, p) = Number(B) * Pow10[p] + Trunc(E, p)
      <3>1. Scaled(u, p) = IF Len(E) <= p THEN Number(B \o E) * Pow10[p - Len(E)]
                           ELSE Number(B \o E) \div Pow10[Len(E) - p]
        <4>1. d # 0
          BY <2>2
        <4> QED BY <2>5, <4>1 DEF Scaled
      <3> HIDE DEF B, E
      <3> QED BY <2>6, <2>7, <3>1, ScaledIs
    <2> HIDE DEF B, E
    <2>9. W = B
      <3>1. /\ W \in Seq(Char) /\ Len(W) = end - (o + 1) + 1
            /\ \A i \in 1 .. (end - (o + 1) + 1) : W[i] = text[(o + 1) + i - 1]
        <4> DEFINE a == o + 1
        <4>1. a \in Nat \ {0} /\ end \in Nat /\ a <= end + 1 /\ end <= Len(text)
          BY <1>1, <1>6, <2>1, <2>2 DEF n
        <4> HIDE DEF a, end
        <4>2. /\ SubSeq(text, a, end) \in Seq(Char)
              /\ Len(SubSeq(text, a, end)) = end - a + 1
              /\ \A i \in 1 .. (end - a + 1) : SubSeq(text, a, end)[i] = text[a + i - 1]
          BY ONLY <4>1, text \in Seq(Char), PartOf
        <4> QED BY <4>2 DEF a
      <3>2. end - (o + 1) + 1 = d - 1 /\ \A i \in 1 .. (d - 1) : (o + 1) + i - 1 = o + i
        BY <1>1, <1>6, <2>2
      <3> HIDE DEF W, end
      <3>3. \A i \in 1 .. (d - 1) : W[i] = B[i]
        <4> TAKE i \in 1 .. (d - 1)
        <4>1. i \in 1 .. (n - o)
          BY <1>2, <2>2
        <4>2. W[i] = text[o + i]
          BY <3>1, <3>2
        <4> QED BY <1>2, <2>6, <4>1, <4>2
      <3>4. Len(W) = Len(B)
        BY <2>6, <3>1, <3>2
      <3>5. W \in Seq(Int) /\ B \in Seq(Int)
        <4>1. W \in Seq(Int)
          BY <3>1, SeqMono DEF Char
        <4>2. B \in Seq(Int)
          BY <2>6, SeqMono
        <4> QED BY <4>1, <4>2
      <3>6. \A i \in 1 .. Len(W) : W[i] = B[i]
        BY <2>6, <3>3, <3>4
      <3> QED BY <3>4, <3>5, <3>6, SeqEqual
    <2>10. D = E
      <3>1. dot \in 0 .. Len(text)
        BY <1>1, <2>1, <2>2 DEF n
      <3>2. D \in Seq(Char) /\ Len(D) = n - dot /\ \A j \in 1 .. (n - dot) : D[j] = text[dot + j]
        BY <1>6, <3>1, SplitAt DEF n
      <3> HIDE DEF D
      <3>3. n - dot = Len(u) - d
        BY ONLY <1>1, <1>2, <2>2
      <3>4. \A j \in 1 .. (n - dot) : D[j] = E[j]
        <4> TAKE j \in 1 .. (n - dot)
        <4>1. d + j \in 1 .. (n - o) /\ o + (d + j) = dot + j
          BY <1>1, <1>2, <2>1, <2>2
        <4> QED BY <1>2, <2>7, <3>2, <3>3, <4>1
      <3>5. Len(D) = Len(E)
        BY <2>7, <3>2, <3>3
      <3> QED BY <2>7, <3>2, <3>4, <3>5, SeqEqual
    <2>11. \A i \in (o + 1) .. (dot - 1) : IsDigit(text[i])
      <3> TAKE i \in (o + 1) .. (dot - 1)
      <3>1. i \in (o + 1) .. n
        BY <1>1, <2>1
      <3> QED BY <1>3, <2>1, <3>1
    <2> HIDE DEF W, D
    <2>12. dot \in (o + 1) .. n /\ (\A i \in (o + 1) .. end : IsDigit(text[i]))
          /\ W \in Seq(0 .. 9) /\ D \in Seq(0 .. 9)
          /\ \A p \in Nat : Scaled(u, p) = Number(W) * Pow10[p] + Trunc(D, p)
      BY <1>6, <2>1, <2>6, <2>7, <2>8, <2>9, <2>10, <2>11
    <2> QED BY <2>12 DEF W, D, end, dot, n
  <1> QED BY <1>5, <1>6

-----------------------------------------------------------------------------
(* What the conversions of a field compute. *)
FieldInv == field \in Seq(Char)

LEMMA FieldIsText == FieldSpec => []FieldInv
  <1>1. field = NoField => FieldInv
    BY DEF NoField, FieldInv
  <1>2. FieldInv /\ [FieldComes]_field => FieldInv'
    BY FieldsAssumption DEF FieldComes, FieldInv
  <1> QED BY <1>1, <1>2, PTL DEF FieldSpec

(* The characters that parseU8 reads. *)
LEMMA CountText ==
  ASSUME NEW text \in Seq(Char)
  PROVE  LET read == SubSeq(text, 1, IF Len(text) < 4 THEN Len(text) ELSE 4)
         IN  read \in Seq(Char) /\ Len(read) <= 4
  <1> DEFINE k == IF Len(text) < 4 THEN Len(text) ELSE 4
  <1>1. k \in 0 .. Len(text) /\ k <= 4
    OBVIOUS
  <1> HIDE DEF k
  <1>2. SubSeq(text, 1, k) \in Seq(Char) /\ Len(SubSeq(text, 1, k)) = k
    BY <1>1, SplitAt
  <1> QED BY <1>1, <1>2 DEF k

(* Digits without a point are the number they show. *)
LEMMA ScaledWhole ==
  ASSUME NEW s \in Seq(Char), \A i \in 1 .. Len(s) : IsDigit(s[i])
  PROVE  Scaled(s, 0) = Number(s) /\ Number(s) \in Nat
  <1>1. s \in Seq(0 .. 9)
    <2>1. s \in Seq(Int)
      BY SeqMono DEF Char
    <2> QED BY <2>1, DigitsAre
  <1>2. Number(s) \in Nat
    BY <1>1, NumberBound
  <1>3. FirstIn(s, Dot, 1, Len(s)) = 0
    <2>1. \A i \in 1 .. Len(s) : CharAt(s, i) # Dot
      <3> TAKE i \in 1 .. Len(s)
      <3>1. s[i] \in 0 .. 9
        BY <1>1
      <3>2. CharAt(s, i) = s[i]
        BY DEF CharAt
      <3> QED BY ONLY <3>1, <3>2 DEF Dot
    <2>2. Len(s) \in Nat
      OBVIOUS
    <2> QED BY <2>1, <2>2, FirstInNone
  <1>4. s \o <<>> = s /\ Len(<<>>) = 0 /\ 0 - 0 = 0
    OBVIOUS
  <1>5. Scaled(s, 0) = Number(s) * Pow10[0]
    <2>1. Scaled(s, 0) = IF Len(<<>>) <= 0 THEN Number(s \o <<>>) * Pow10[0 - Len(<<>>)]
                         ELSE Number(s \o <<>>) \div Pow10[Len(<<>>) - 0]
      BY <1>3 DEF Scaled
    <2> QED BY <1>4, <2>1
  <1> QED BY <1>2, <1>5, Pow10Is

LEMMA CountOfText == FieldInv => CountsExact
  <1> SUFFICES ASSUME field \in Seq(Char) PROVE CountsExact
    BY DEF FieldInv
  <1> DEFINE read == SubSeq(field, 1, IF Len(field) < 4 THEN Len(field) ELSE 4)
             count == ParseU8(field)
  <1>1. read \in Seq(Char)
    BY CountText
  <1>2. CASE \A i \in 1 .. Len(read) : IsDigit(read[i])
    <2> HIDE DEF read
    <2>1. Scaled(read, 0) = Number(read) /\ Number(read) \in Nat
      BY <1>1, <1>2, ScaledWhole
    <2>2. count = ToU8(Number(read))
      BY <1>2 DEF ParseU8, read
    <2> HIDE DEF count
    <2>3. count.ok <=> ~ (Number(read) > 255)
      BY <2>2 DEF ToU8, Value, Refused
    <2>4. count.ok => count.val = Number(read)
      BY <2>2, <2>3 DEF ToU8, Value
    <2>5. count.ok => count.val \in 0 .. 255 /\ count.val = Scaled(read, 0)
      BY ONLY <2>1, <2>3, <2>4
    <2>6. count.ok <=> Scaled(read, 0) <= 255
      BY ONLY <2>1, <2>3
    <2> QED BY <2>5, <2>6 DEF CountsExact, read, count
  <1>3. CASE \E i \in 1 .. Len(read) : ~ IsDigit(read[i])
    <2>1. count = Refused
      BY <1>3 DEF ParseU8
    <2>2. ~ count.ok
      BY <2>1 DEF Refused
    <2> QED BY <1>3, <2>2 DEF CountsExact
  <1> QED BY <1>2, <1>3

(* A number of satellites is the field's, or it is refused: parseU8 never  *)
(* wraps, whatever the receiver sends.                                     *)
THEOREM CountsNeverWrap == FieldSpec => []CountsExact
  BY FieldIsText, CountOfText, PTL

(* parseFP computes a sign and the decimal behind it. *)
LEMMA FixedPointOf ==
  ASSUME NEW text \in Seq(Char), NEW o \in {0, 1}, o <= Len(text), text # <<>>,
         (CharAt(text, 1) = Minus) <=> (o = 1),
         IsDecimal(SubSeq(text, o + 1, Len(text)))
  PROVE  ParseFP(text, 2)
           = Value(Signed(o = 1, Scaled(SubSeq(text, o + 1, Len(text)), 2)))
  <1> DEFINE n == Len(text)
             u == SubSeq(text, o + 1, n)
             negative == CharAt(text, 1) = Minus
             start == IF negative THEN 2 ELSE 1
             dot == FirstIn(text, Dot, o + 1, n)
             end == IF dot = 0 THEN n ELSE dot - 1
             W == SubSeq(text, o + 1, end)
             D == IF dot = 0 THEN <<>> ELSE SubSeq(text, dot + 1, n)
             frac == IF dot = 0 THEN <<>> ELSE DigitRun(text, dot + 1, 2)
  <1>1. start = o + 1 /\ (negative <=> o = 1)
    OBVIOUS
  <1>2. /\ dot = 0 \/ dot \in (o + 1) .. n
        /\ \A i \in (o + 1) .. end : IsDigit(text[i])
        /\ W \in Seq(0 .. 9) /\ D \in Seq(0 .. 9)
        /\ \A p \in Nat : Scaled(u, p) = Number(W) * Pow10[p] + Trunc(D, p)
    BY DecimalParts
  <1>3. Number(frac) * Pow10[2 - Len(frac)] = Trunc(D, 2)
    <2>1. CASE dot = 0
      <3>1. frac = <<>> /\ D = <<>> /\ Len(<<>>) <= 2
        BY <2>1
      <3> QED BY <3>1 DEF Trunc
    <2>2. CASE dot # 0
      <3>1. dot \in 0 .. Len(text)
        BY <1>2, <2>2
      <3>2. SubSeq(text, dot + 1, Len(text)) \in Seq(0 .. 9)
        BY <1>2, <2>2
      <3> HIDE DEF dot
      <3> QED BY <2>2, <3>1, <3>2, RunIsTrunc
    <2> QED BY <2>1, <2>2
  <1>4. ParseFP(text, 2)
          = Value(FixedPoint(negative, Number(W), Number(frac) * Pow10[2 - Len(frac)],
                             Pow10[2]))
    <2>1. ParseFP(text, 2)
            = IF text = <<>> \/ \E i \in (o + 1) .. end : ~ IsDigit(text[i]) THEN Refused
              ELSE Value(FixedPoint(negative, Number(W),
                                    Number(frac) * Pow10[2 - Len(frac)], Pow10[2]))
      BY <1>1 DEF ParseFP
    <2> HIDE DEF W, frac, end, negative
    <2> QED BY <1>2, <2>1
  <1> HIDE DEF W, D, frac, u, negative, end, dot
  <1>5. ParseFP(text, 2) = Value(Signed(o = 1, Number(W) * Pow10[2] + Trunc(D, 2)))
    BY <1>1, <1>3, <1>4 DEF FixedPoint, negative
  <1>6. Scaled(u, 2) = Number(W) * Pow10[2] + Trunc(D, 2)
    BY <1>2
  <1> QED BY <1>5, <1>6 DEF u, n

LEMMA FixedPointOfText == FieldInv => FixedPointExact
  <1> SUFFICES ASSUME field \in Seq(Char) PROVE FixedPointExact
    BY DEF FieldInv
  <1>1. ASSUME IsDecimal(field), field # <<>>
        PROVE  ParseFP(field, 2) = Value(Scaled(field, 2))
    <2>1. Len(field) \in Nat /\ 0 <= Len(field) /\ 1 \in 1 .. Len(field)
      BY <1>1
    <2>2. SubSeq(field, 1, Len(field)) = field
      BY SubSeqWhole
    <2>3. CharAt(field, 1) # Minus
      <3>1. IsDigit(field[1]) \/ field[1] = Dot
        BY <1>1, <2>1 DEF IsDecimal
      <3>2. CharAt(field, 1) = field[1]
        BY <2>1 DEF CharAt
      <3> QED BY <3>1, <3>2 DEF IsDigit, Dot, Minus
    <2>4. ParseFP(field, 2) = Value(Signed(0 = 1, Scaled(SubSeq(field, 0 + 1, Len(field)), 2)))
      <3>1. 0 + 1 = 1 /\ 0 # 1
        OBVIOUS
      <3>2. SubSeq(field, 0 + 1, Len(field)) = field
        BY ONLY <2>2, <3>1
      <3>3. IsDecimal(SubSeq(field, 0 + 1, Len(field)))
        BY ONLY <1>1, <3>2, Zenon
      <3>4. (CharAt(field, 1) = Minus) <=> (0 = 1)
        BY ONLY <2>3, <3>1, Zenon
      <3> QED BY <1>1, <2>1, <3>3, <3>4, FixedPointOf
    <2>5. SubSeq(field, 0 + 1, Len(field)) = field
      BY SubSeqWhole
    <2>6. Signed(0 = 1, Scaled(field, 2)) = Scaled(field, 2)
      <3>1. 0 # 1
        OBVIOUS
      <3> QED BY ONLY <3>1, Zenon DEF Signed
    <2> QED BY ONLY <2>4, <2>5, <2>6, Zenon
  <1>2. ASSUME field # <<>>, Head(field) = Minus, IsDecimal(Tail(field))
        PROVE  ParseFP(field, 2) = Value(- Scaled(Tail(field), 2))
    <2>1. Len(field) \in Nat /\ 1 <= Len(field) /\ 1 \in 1 .. Len(field)
      BY <1>2
    <2>2. SubSeq(field, 2, Len(field)) = Tail(field)
      <3>1. 1 \in 0 .. Len(field) /\ 1 + 1 = 2
            /\ \A i \in 1 .. (Len(field) - 1) : 1 + i = i + 1
        BY <2>1
      <3>2. /\ SubSeq(field, 1 + 1, Len(field)) \in Seq(Char)
            /\ Len(SubSeq(field, 1 + 1, Len(field))) = Len(field) - 1
            /\ \A i \in 1 .. (Len(field) - 1) :
                  SubSeq(field, 1 + 1, Len(field))[i] = field[1 + i]
        BY <1>2, <3>1, SplitAt, ZenonT(60)
      <3>3. /\ SubSeq(field, 2, Len(field)) \in Seq(Char)
            /\ Len(SubSeq(field, 2, Len(field))) = Len(field) - 1
            /\ \A i \in 1 .. (Len(field) - 1) :
                  SubSeq(field, 2, Len(field))[i] = field[i + 1]
        BY <3>1, <3>2
      <3>4. /\ Tail(field) \in Seq(Char) /\ Len(Tail(field)) = Len(field) - 1
            /\ \A i \in 1 .. (Len(field) - 1) : Tail(field)[i] = field[i + 1]
        BY <1>2, HeadTailProperties
      <3> QED BY <3>3, <3>4, SeqEqual
    <2>3. CharAt(field, 1) = Minus
      BY <1>2, <2>1 DEF CharAt
    <2>4. ParseFP(field, 2) = Value(Signed(1 = 1, Scaled(SubSeq(field, 1 + 1, Len(field)), 2)))
      <3>1. 1 + 1 = 2
        OBVIOUS
      <3>2. SubSeq(field, 1 + 1, Len(field)) = Tail(field)
        BY ONLY <2>2, <3>1
      <3>3. IsDecimal(SubSeq(field, 1 + 1, Len(field)))
        BY ONLY <1>2, <3>2, Zenon
      <3>4. (CharAt(field, 1) = Minus) <=> (1 = 1)
        BY ONLY <2>3, Zenon
      <3> QED BY <1>2, <2>1, <3>3, <3>4, FixedPointOf
    <2>5. SubSeq(field, 1 + 1, Len(field)) = Tail(field)
      <3>1. 1 + 1 = 2
        OBVIOUS
      <3> QED BY ONLY <2>2, <3>1
    <2>6. Signed(1 = 1, Scaled(Tail(field), 2)) = - Scaled(Tail(field), 2)
      BY Zenon DEF Signed
    <2> QED BY ONLY <2>4, <2>5, <2>6, Zenon
  <1> QED BY <1>1, <1>2 DEF FixedPointExact

(* A height or a dilution is the field's, cut off behind two decimals, and *)
(* its sign is the whole's, for a field of any length.                     *)
THEOREM HundredthsAreExact == FieldSpec => []FixedPointExact
  BY FieldIsText, FixedPointOfText, PTL

-----------------------------------------------------------------------------
(* The negative of nothing. *)
LEMMA NegativeZero == ASSUME NEW x \in Int, x <= 0, x >= 0 PROVE - x = x
  OBVIOUS

(* A quotient is determined by its remainder. *)
LEMMA MicroBound ==
  ASSUME NEW x \in Nat, NEW fifth \in 0 .. 9
  PROVE  LET micro == (x * 100) \div 60
         IN  /\ micro \in Nat
             /\ 6 * micro <= 10 * x + fifth /\ 10 * x + fifth < 6 * micro + 15
  <1> DEFINE y == x * 100
             micro == y \div 60
             r == y % 60
  <1>1. y \in Nat /\ y = 100 * x
    OBVIOUS
  <1> HIDE DEF y
  <1>2. micro \in Nat /\ r \in 0 .. 59 /\ y = 60 * micro + r
    BY <1>1
  <1> HIDE DEF micro, r
  <1>3. 6 * micro <= 10 * x + fifth /\ 10 * x + fifth < 6 * micro + 15
    BY <1>1, <1>2
  <1> QED BY <1>2, <1>3 DEF micro, y

(* A position with its minutes and the digits behind their point. *)
Fifths(degrees, minutes, frac, fifth) ==
    (degrees * Pow10[2] + minutes) * Pow10[5] + (10 * frac + fifth)

LEMMA PositionOf ==
  ASSUME NEW degrees \in Nat, NEW minutes \in Nat, NEW frac \in Nat, NEW fifth \in 0 .. 9,
         minutes < Pow10[2], frac < Pow10[4]
  PROVE  /\ MinutesToMicro(minutes, frac) \in Nat
         /\ Fifths(degrees, minutes, frac, fifth) \div (10 * Million) = degrees
         /\ 6 * MinutesToMicro(minutes, frac)
              <= Fifths(degrees, minutes, frac, fifth) % (10 * Million)
         /\ Fifths(degrees, minutes, frac, fifth) % (10 * Million)
              < 6 * MinutesToMicro(minutes, frac) + 15
  <1> DEFINE exact == Fifths(degrees, minutes, frac, fifth)
             x == minutes * 10000 + frac
             s == 10 * x + fifth
             b == 10 * Million
             micro == (x * 100) \div 60
  <1>0. Pow10[2] = 100 /\ Pow10[4] = 10000 /\ Pow10[5] = 100000
    BY Pow10Small
  <1>1. x \in Nat /\ x < Million
    BY <1>0, SMT DEF Million
  <1>2. exact = degrees * b + s
    <2>1. exact = (degrees * 100 + minutes) * 100000 + (10 * frac + fifth)
      BY <1>0, SMT DEF Fifths
    <2> HIDE DEF exact
    <2> QED BY ONLY <2>1, degrees \in Nat, minutes \in Nat, frac \in Nat, fifth \in 0 .. 9,
                    SMT DEF Million
  <1> HIDE DEF x
  <1> HIDE DEF exact
  <1>3. s \in 0 .. (b - 1) /\ b \in Nat \ {0}
    <2>1. s \in Nat /\ s < b /\ b \in Nat
      BY ONLY <1>1, fifth \in 0 .. 9, SMT DEF Million
    <2> HIDE DEF s, b
    <2> QED BY ONLY <2>1
  <1> HIDE DEF s
  <1>4. (degrees * b + s) \div b = degrees /\ (degrees * b + s) % b = s
    <2> HIDE DEF b
    <2> QED BY <1>3, QuotientIs
  <1>5. micro \in Nat /\ 6 * micro <= s /\ s < 6 * micro + 15
    BY <1>1, MicroBound DEF s
  <1> HIDE DEF micro
  <1>6. MinutesToMicro(minutes, frac) = micro
    BY DEF MinutesToMicro, micro, x
  <1>7. exact \div (10 * Million) = degrees /\ exact % (10 * Million) = s
    BY ONLY <1>2, <1>4 DEF b
  <1> QED BY ONLY <1>5, <1>6, <1>7 DEF exact

LEMMA PositionOfText == FieldInv => DegMinRoundsDown
  <1> SUFFICES ASSUME FieldInv PROVE DegMinRoundsDown
    OBVIOUS
  <1> DEFINE text == field
             n == Len(text)
             near == FirstIn(text, Dot, 1, 16)
             whole == SubSeq(text, 1, near - 1)
             decimals == DigitRun(text, near + 1, 4)
             frac == Number(decimals) * Pow10[4 - Len(decimals)]
             degrees == Number(SubSeq(whole, 1, near - 3))
             minutes == Number(SubSeq(whole, near - 2, near - 1))
             refused == near < 4 \/ \E i \in 1 .. (near - 1) : ~ IsDigit(whole[i])
             val == degrees * Million + MinutesToMicro(minutes, frac)
  <1>0. text \in Seq(Char) /\ n \in Nat
    BY DEF FieldInv
  <1>1. \A south \in BOOLEAN :
          ParseDegMin(text, south) = IF refused THEN Refused ELSE Value(Signed(south, val))
    BY DEF ParseDegMin
  <1>2. CASE refused
    <2> DEFINE north == ParseDegMin(field, FALSE)
               south == ParseDegMin(field, TRUE)
    <2>1. north = Refused /\ south = Refused
      <3> HIDE DEF val, refused
      <3> QED BY <1>1, <1>2
    <2>2. Refused.ok = FALSE /\ Refused.val = 0
      BY DEF Refused
    <2> HIDE DEF north, south
    <2>3. ~ north.ok /\ south.ok = north.ok /\ south.val = - north.val
      <3>1. north.val = 0 /\ south.val = north.val /\ ~ north.ok /\ south.ok = north.ok
        BY ONLY <2>1, <2>2
      <3>2. north.val \in Int /\ north.val <= 0 /\ north.val >= 0
        BY ONLY <3>1
      <3>3. - north.val = north.val
        BY ONLY <3>2, NegativeZero
      <3> QED BY ONLY <3>1, <3>3, Zenon
    <2> QED BY ONLY <2>3, Zenon DEF DegMinRoundsDown, north, south
  <1>3. ASSUME ~ refused, IsDecimal(text)
        PROVE  LET exact == Scaled(text, 5)
                   micro == val - Million * (exact \div (10 * Million))
                   sixths == exact % (10 * Million)
               IN  6 * micro <= sixths /\ sixths < 6 * micro + 15
    <2>1. /\ near \in 4 .. 16 /\ CharAt(text, near) = Dot
          /\ \A i \in 1 .. (near - 1) : CharAt(text, i) # Dot
      <3>1. \/ near = 0
            \/ /\ near \in 1 .. 16 /\ CharAt(text, near) = Dot
               /\ \A i \in 1 .. (near - 1) : CharAt(text, i) # Dot
        BY FirstInFound
      <3>2. ~ (near < 4)
        BY <1>3
      <3> HIDE DEF near
      <3> QED BY <3>1, <3>2
    <2>2. near <= n
      <3>1. Dot # Nul
        BY DEF Dot, Nul
      <3> HIDE DEF near
      <3> QED BY <2>1, <3>1 DEF CharAt
    <2>3. FirstIn(text, Dot, 0 + 1, n) = near
      <3>1. FirstIn(text, Dot, 1, n) = near
        <4>1. near \in 1 .. n
          <5> HIDE DEF near
          <5> QED BY <1>0, <2>1, <2>2
        <4> HIDE DEF near
        <4> QED BY <1>0, <2>1, <4>1, FirstInIs
      <3>2. 0 + 1 = 1
        OBVIOUS
      <3> QED BY <3>1, <3>2
    <2> DEFINE D == SubSeq(text, near + 1, n)
    <2>4. /\ whole \in Seq(0 .. 9) /\ D \in Seq(0 .. 9)
          /\ Scaled(text, 5) = Number(whole) * Pow10[5] + Trunc(D, 5)
      <3>1. SubSeq(text, 0 + 1, n) = text
        BY <1>0, SubSeqWhole
      <3>2. 0 <= Len(text) /\ IsDecimal(text)
        BY <1>0, <1>3
      <3>3. near # 0
        <4> HIDE DEF near
        <4> QED BY <2>1
      <3> DEFINE end == IF near = 0 THEN n ELSE near - 1
                 V == SubSeq(text, 0 + 1, end)
                 E == IF near = 0 THEN <<>> ELSE SubSeq(text, near + 1, n)
      <3>4. /\ V \in Seq(0 .. 9) /\ E \in Seq(0 .. 9)
            /\ \A p \in Nat : Scaled(text, p) = Number(V) * Pow10[p] + Trunc(E, p)
        BY <1>0, <2>3, <3>1, <3>2, DecimalParts
      <3>5. V = whole /\ E = D
        <4> HIDE DEF near, n
        <4>1. 0 + 1 = 1
          OBVIOUS
        <4>2. end = near - 1 /\ E = D
          BY ONLY <3>3, Zenon DEF E, D, end
        <4> HIDE DEF end
        <4> QED BY ONLY <4>1, <4>2 DEF V, whole
      <3> HIDE DEF V, E, D, whole
      <3> QED BY <3>4, <3>5
    <2>5. Len(whole) = near - 1
      <3>1. near - 1 \in 0 .. Len(text)
        <4> HIDE DEF near
        <4> QED BY <1>0, <2>1, <2>2
      <3> HIDE DEF near
      <3> QED BY <1>0, <3>1, SplitAt
    <2>6. frac = Trunc(D, 4)
      <3>1. near \in 0 .. Len(text)
        <4> HIDE DEF near
        <4> QED BY <1>0, <2>1, <2>2
      <3>2. D \in Seq(0 .. 9)
        BY <2>4
      <3> HIDE DEF near
      <3> QED BY <1>0, <3>1, <3>2, RunIsTrunc
    <2> HIDE DEF whole, D, frac, near, val
    <2>7. frac \in Nat /\ frac < Pow10[4]
      <3>1. Trunc(D, 4) \in Nat /\ Trunc(D, 4) < Pow10[4]
        BY ONLY <2>4, TruncBound
      <3> QED BY ONLY <2>6, <3>1
    <2>8. PICK fifth \in 0 .. 9 : Trunc(D, 5) = 10 * frac + fifth
      <3>1. \E digit \in 0 .. 9 : Trunc(D, 4 + 1) = 10 * Trunc(D, 4) + digit
        BY <2>4, TruncStep
      <3>2. 4 + 1 = 5
        OBVIOUS
      <3> QED BY <2>6, <3>1, <3>2
    <2>9. /\ degrees \in Nat /\ minutes \in Nat /\ minutes < Pow10[2]
          /\ Number(whole) = degrees * Pow10[2] + minutes
      <3> DEFINE a == near - 3
                 A == SubSeq(whole, 1, a)
                 B == SubSeq(whole, a + 1, Len(whole))
      <3>1. a \in 0 .. Len(whole) /\ a + 1 = near - 2 /\ Len(whole) - a = 2
        BY <2>1, <2>5
      <3>2. A \in Seq(0 .. 9) /\ B \in Seq(0 .. 9) /\ Len(B) = 2 /\ whole = A \o B
        <4> HIDE DEF a
        <4>1. whole \in Seq(0 .. 9)
          BY <2>4
        <4>2. /\ A \in Seq(0 .. 9) /\ B \in Seq(0 .. 9)
              /\ Len(B) = Len(whole) - a /\ whole = A \o B
          <5>1. a \in 0 .. Len(whole)
            BY <3>1
          <5> QED BY ONLY <4>1, <5>1, SplitDigits, Zenon
        <4> HIDE DEF A, B
        <4> QED BY ONLY <3>1, <4>2
      <3>3. degrees = Number(A) /\ minutes = Number(B)
        BY <2>5, <3>1
      <3> HIDE DEF A, B
      <3>4. Number(A) \in Nat /\ Number(B) \in Nat /\ Number(B) < Pow10[2]
        <4>1. Number(A) \in Nat /\ Number(B) \in Nat /\ Number(B) < Pow10[Len(B)]
          BY ONLY <3>2, NumberBound
        <4> QED BY ONLY <3>2, <4>1
      <3>5. Number(A \o B) = Number(A) * Pow10[2] + Number(B)
        <4>1. A \in Seq(Int) /\ B \in Seq(Int)
          <5>1. 0 .. 9 \subseteq Int
            OBVIOUS
          <5> QED BY ONLY <3>2, <5>1, SeqMono
        <4>2. Number(A \o B) = Number(A) * Pow10[Len(B)] + Number(B)
          BY ONLY <4>1, NumberConcat
        <4> QED BY ONLY <3>2, <4>2
      <3> HIDE DEF degrees, minutes
      <3> QED BY ONLY <3>2, <3>3, <3>4, <3>5
    <2> HIDE DEF degrees, minutes
    <2>10. Scaled(text, 5) = Fifths(degrees, minutes, frac, fifth)
      BY <2>4, <2>8, <2>9 DEF Fifths
    <2> DEFINE exact == Scaled(text, 5)
               part == MinutesToMicro(minutes, frac)
    <2>11. /\ part \in Nat /\ exact \div (10 * Million) = degrees
           /\ 6 * part <= exact % (10 * Million) /\ exact % (10 * Million) < 6 * part + 15
      <3> HIDE DEF exact
      <3>1. exact = Fifths(degrees, minutes, frac, fifth)
        BY <2>10 DEF exact
      <3>2. /\ degrees \in Nat /\ minutes \in Nat /\ frac \in Nat /\ fifth \in 0 .. 9
            /\ minutes < Pow10[2] /\ frac < Pow10[4]
        BY <2>7, <2>8, <2>9
      <3>3. /\ MinutesToMicro(minutes, frac) \in Nat
            /\ exact \div (10 * Million) = degrees
            /\ 6 * MinutesToMicro(minutes, frac) <= exact % (10 * Million)
            /\ exact % (10 * Million) < 6 * MinutesToMicro(minutes, frac) + 15
        <4>1. /\ MinutesToMicro(minutes, frac) \in Nat
              /\ Fifths(degrees, minutes, frac, fifth) \div (10 * Million) = degrees
              /\ 6 * MinutesToMicro(minutes, frac)
                   <= Fifths(degrees, minutes, frac, fifth) % (10 * Million)
              /\ Fifths(degrees, minutes, frac, fifth) % (10 * Million)
                   < 6 * MinutesToMicro(minutes, frac) + 15
          BY ONLY <3>2, PositionOf, Zenon
        <4> QED BY ONLY <3>1, <4>1, Zenon
      <3> QED BY ONLY <3>3, Zenon DEF part
    <2>12. val - Million * (exact \div (10 * Million)) = part
      <3> HIDE DEF exact, part
      <3>1. val = degrees * Million + part
        BY DEF val, part
      <3> QED BY ONLY <2>9, <2>11, <3>1 DEF Million
    <2> HIDE DEF exact, part
    <2> QED BY <2>11, <2>12 DEF exact
  <1>4. ASSUME ~ refused
        PROVE  /\ ParseDegMin(field, FALSE) = Value(val)
               /\ ParseDegMin(field, TRUE) = Value(- val)
    <2> HIDE DEF val
    <2>1. /\ ParseDegMin(text, FALSE) = Value(Signed(FALSE, val))
          /\ ParseDegMin(text, TRUE) = Value(Signed(TRUE, val))
      BY <1>1, <1>4
    <2> QED BY <2>1 DEF Signed
  <1>5. CASE ~ refused
    <2> HIDE DEF val, refused
    <2>1. /\ Value(val).ok = TRUE /\ Value(val).val = val
          /\ Value(- val).ok = TRUE /\ Value(- val).val = - val
      BY DEF Value
    <2> DEFINE north == ParseDegMin(field, FALSE)
               south == ParseDegMin(field, TRUE)
    <2>2. north.ok = TRUE /\ north.val = val /\ south.ok = TRUE /\ south.val = - val
      BY <1>4, <1>5, <2>1
    <2> HIDE DEF north, south
    <2>3. IsDecimal(field) =>
            LET exact == Scaled(field, 5)
                micro == north.val - Million * (exact \div (10 * Million))
                sixths == exact % (10 * Million)
            IN  6 * micro <= sixths /\ sixths < 6 * micro + 15
      BY <1>3, <1>5, <2>2
    <2>4. south.ok = north.ok /\ south.val = - north.val
      BY <2>2
    <2> QED BY ONLY <2>3, <2>4, Zenon DEF DegMinRoundsDown, north, south
  <1> QED BY <1>2, <1>5

(* A position falls short of the field's by less than 2.5 millionths of a  *)
(* degree, south as north, for every field and every number of decimals.   *)
THEOREM PositionsRoundDown == FieldSpec => []DegMinRoundsDown
  BY FieldIsText, PositionOfText, PTL

-----------------------------------------------------------------------------
(* The decimal digits of a number. *)
LEMMA TensAndOnes ==
  ASSUME NEW v \in Nat, NEW q, NEW r, q = v \div 10, r = v % 10
  PROVE  q \in Nat /\ r \in 0 .. 9 /\ v = 10 * q + r /\ (v >= 10 => q < v /\ q > 0)
  <1>1. q \in Nat /\ r \in 0 .. 9
    OBVIOUS
  <1>2. v = 10 * q + r
    OBVIOUS
  <1> QED BY ONLY <1>1, <1>2, v \in Nat

LEMMA DecimalSteps ==
  \A v \in Nat : /\ DecimalDigits[v] \in Seq(0 .. 9)
                 /\ DecimalDigits[v] = IF v < 10 THEN <<v>>
                                       ELSE Append(DecimalDigits[v \div 10], v % 10)
  <1> DEFINE S == Seq(0 .. 9)
             base == [v \in 0 .. 9 |-> <<v>>]
             prev == [v \in Nat \ (0 .. 9) |-> v \div 10]
             step == [v \in Nat \ (0 .. 9) |-> [s \in S |-> Append(s, v % 10)]]
             E(f) == [v \in Nat |-> IF v < 10 THEN <<v>> ELSE Append(f[v \div 10], v % 10)]
  <1>0. \A v \in Nat : /\ v \div 10 \in Nat /\ v % 10 \in 0 .. 9
                       /\ v >= 10 => v \div 10 < v
    BY TensAndOnes
  <1>1. PICK f \in [Nat -> S] : Solves(f, Nat, 0 .. 9, base, prev, step)
    <2>1. base \in [0 .. 9 -> S]
      OBVIOUS
    <2>2. prev \in [Nat \ (0 .. 9) -> Nat] /\ \A v \in Nat \ (0 .. 9) : prev[v] < v
      BY <1>0
    <2>3. step \in [Nat \ (0 .. 9) -> [S -> S]]
      <3> SUFFICES ASSUME NEW v \in Nat, NEW s \in S PROVE Append(s, v % 10) \in S
        OBVIOUS
      <3> QED BY <1>0, AppendProperties
    <2>4. Nat \in SUBSET Nat /\ 0 .. 9 \in SUBSET Nat
      OBVIOUS
    <2> HIDE DEF base, prev, step, S
    <2> QED BY <2>1, <2>2, <2>3, <2>4, Recursion
  <1>2. \A v \in Nat : f[v] = IF v < 10 THEN <<v>> ELSE Append(f[v \div 10], v % 10)
    <2> TAKE v \in Nat
    <2>1. f[v] = IF v \in 0 .. 9 THEN base[v] ELSE step[v][f[prev[v]]]
      BY ONLY <1>1, v \in Nat, Zenon DEF Solves
    <2>2. CASE v < 10
      <3>1. v \in 0 .. 9
        BY <2>2
      <3> QED BY <2>1, <2>2, <3>1
    <2>3. CASE ~ (v < 10)
      <3>1. v \notin 0 .. 9
        BY <2>3
      <3>2. prev[v] = v \div 10 /\ f[v \div 10] \in S
        BY <1>0, <1>1, <3>1
      <3>3. step[v][f[v \div 10]] = Append(f[v \div 10], v % 10)
        BY <3>1, <3>2
      <3> HIDE DEF step, prev, base
      <3> QED BY <2>1, <2>3, <3>1, <3>2, <3>3
    <2> QED BY <2>2, <2>3
  <1>3. f = E(f)
    BY <1>1, <1>2
  <1>4. DecimalDigits = CHOOSE g : g = E(g)
    BY Zenon DEF DecimalDigits
  <1> HIDE DEF E
  <1>5. DecimalDigits = E(DecimalDigits)
    BY <1>3, <1>4
  <1>6. \A v \in Nat : DecimalDigits[v] = IF v < 10 THEN <<v>>
                                          ELSE Append(DecimalDigits[v \div 10], v % 10)
    BY <1>5, Zenon DEF E
  <1> DEFINE T == {v \in Nat : DecimalDigits[v] \notin Seq(0 .. 9)}
  <1>7. T = {}
    <2> SUFFICES ASSUME T # {} PROVE FALSE
      OBVIOUS
    <2>1. PICK v \in T : \A w \in T : v <= w
      <3>1. T \in SUBSET Nat
        OBVIOUS
      <3> HIDE DEF T
      <3> QED BY <3>1, LeastNumber
    <2>2. CASE v < 10
      <3>1. <<v>> \in Seq(0 .. 9)
        BY <2>1, <2>2
      <3> QED BY <1>6, <2>1, <2>2, <3>1
    <2>3. CASE ~ (v < 10)
      <3>1. v \div 10 \in Nat /\ v \div 10 < v
        BY ONLY v \in Nat, <2>3, SMT
      <3>2. v \div 10 \notin T
        BY <2>1, <3>1
      <3>3. Append(DecimalDigits[v \div 10], v % 10) \in Seq(0 .. 9)
        BY <1>0, <2>1, <3>1, <3>2, AppendProperties
      <3> QED BY <1>6, <2>1, <2>3, <3>3
    <2> QED BY <2>2, <2>3
  <1> QED BY <1>6, <1>7

LEMMA NumberAppend ==
  ASSUME NEW s \in Seq(0 .. 9), NEW c \in 0 .. 9
  PROVE  Number(Append(s, c)) = 10 * Number(s) + c
  <1>1. s \in Seq(Int) /\ <<c>> \in Seq(Int) /\ Len(<<c>>) = 1
    <2>1. s \in Seq(Int)
      BY SeqMono
    <2> QED BY <2>1
  <1>2. Append(s, c) = s \o <<c>>
    BY AppendIsConcat
  <1>3. Number(s \o <<c>>) = Number(s) * Pow10[1] + Number(<<c>>)
    BY <1>1, NumberConcat
  <1>4. Number(<<c>>) = c /\ Number(s) \in Nat /\ Pow10[1] = 10
    <2>1. Number(<<c>>) = c
      BY NumberOne
    <2>2. Number(s) \in Nat
      BY NumberBound
    <2> QED BY <2>1, <2>2, Pow10Small
  <1> QED BY <1>1, <1>2, <1>3, <1>4

(* They show the number, and none of them is in vain. *)
LEMMA DecimalShows ==
  ASSUME NEW v \in Nat
  PROVE  /\ DecimalDigits[v] \in Seq(0 .. 9) /\ Len(DecimalDigits[v]) \in Nat \ {0}
         /\ Number(DecimalDigits[v]) = v /\ v < Pow10[Len(DecimalDigits[v])]
         /\ v > 0 => v >= Pow10[Len(DecimalDigits[v]) - 1]
  <1> DEFINE Good(w) == /\ Len(DecimalDigits[w]) \in Nat \ {0}
                        /\ Number(DecimalDigits[w]) = w
                        /\ w > 0 => w >= Pow10[Len(DecimalDigits[w]) - 1]
             T == {w \in Nat : ~ Good(w)}
  <1>1. T = {}
    <2> SUFFICES ASSUME T # {} PROVE FALSE
      OBVIOUS
    <2>1. PICK w \in T : \A u \in T : w <= u
      <3>1. T \in SUBSET Nat
        OBVIOUS
      <3> HIDE DEF T
      <3> QED BY <3>1, LeastNumber
    <2>2. CASE w < 10
      <3>0. w \in Nat /\ w \in 0 .. 9
        BY <2>1, <2>2
      <3>1. DecimalDigits[w] = <<w>>
        BY ONLY <2>2, <3>0, DecimalSteps
      <3>2. Number(<<w>>) = w
        BY ONLY <3>0, NumberOne
      <3>3. Pow10[0] = 1 /\ 1 - 1 = 0 /\ Len(<<w>>) = 1
        BY Pow10Small
      <3>4. Len(DecimalDigits[w]) = 1 /\ Number(DecimalDigits[w]) = w
        BY ONLY <3>1, <3>2, <3>3
      <3>5. w > 0 => w >= Pow10[Len(DecimalDigits[w]) - 1]
        BY ONLY <3>0, <3>3, <3>4
      <3>6. Good(w)
        BY <3>4, <3>5
      <3> QED BY <2>1, <3>6
    <2>3. CASE ~ (w < 10)
      <3> DEFINE q == w \div 10
                 r == w % 10
                 l == Len(DecimalDigits[q])
      <3>1. q \in Nat /\ q < w /\ q > 0 /\ r \in 0 .. 9 /\ w = 10 * q + r
        BY <2>1, <2>3
      <3>2. DecimalDigits[w] = Append(DecimalDigits[q], r)
        BY <2>1, <2>3, DecimalSteps
      <3> HIDE DEF q, r
      <3>3. q \notin T
        BY <2>1, <3>1
      <3>4. l \in Nat \ {0} /\ Number(DecimalDigits[q]) = q /\ q >= Pow10[l - 1]
        BY <3>1, <3>3
      <3>5. DecimalDigits[q] \in Seq(0 .. 9)
        BY <3>1, DecimalSteps
      <3>6. Len(DecimalDigits[w]) = l + 1
        BY <3>1, <3>2, <3>5, AppendProperties
      <3>7. Number(DecimalDigits[w]) = w
        BY <3>1, <3>2, <3>4, <3>5, NumberAppend
      <3> HIDE DEF l
      <3>8. Pow10[l] = 10 * Pow10[l - 1] /\ Pow10[l - 1] \in Nat
        <4>1. l - 1 \in Nat /\ (l - 1) + 1 = l
          BY <3>4
        <4> QED BY <4>1, Pow10Is, Pow10Type
      <3>9. w >= Pow10[l] /\ (l + 1) - 1 = l /\ l + 1 \in Nat \ {0}
        BY <3>1, <3>4, <3>8
      <3>10. Good(w)
        BY <3>6, <3>7, <3>9
      <3> QED BY <2>1, <3>10
    <2> QED BY <2>2, <2>3
  <1>2. Good(v)
    BY <1>1
  <1>3. DecimalDigits[v] \in Seq(0 .. 9)
    BY DecimalSteps
  <1>4. v < Pow10[Len(DecimalDigits[v])]
    BY <1>2, <1>3, NumberBound
  <1> QED BY <1>2, <1>3, <1>4

(* A number below a power of ten has at most that many digits. *)
LEMMA DecimalLength ==
  ASSUME NEW v \in Nat, NEW k \in Nat \ {0}, v < Pow10[k]
  PROVE  Len(DecimalDigits[v]) <= k
  <1> DEFINE l == Len(DecimalDigits[v])
  <1>1. l \in Nat \ {0} /\ (v > 0 => v >= Pow10[l - 1])
    BY DecimalShows
  <1>2. CASE v = 0
    <2>1. DecimalDigits[0] = <<0>> /\ Len(<<0>>) = 1
      <3>1. 0 \in Nat /\ 0 < 10
        OBVIOUS
      <3> QED BY ONLY <3>1, DecimalSteps
    <2> QED BY <1>2, <2>1
  <1>3. CASE v > 0
    <2> HIDE DEF l
    <2> SUFFICES ASSUME l > k PROVE FALSE
      BY <1>1 DEF l
    <2>1. k <= l - 1 /\ l - 1 \in Nat
      BY <1>1
    <2>2. Pow10[k] <= Pow10[l - 1] /\ Pow10[k] \in Nat /\ Pow10[l - 1] \in Nat
      BY <2>1, Pow10Grows, Pow10Type
    <2> QED BY <1>1, <1>3, <2>2
  <1> QED BY <1>2, <1>3

-----------------------------------------------------------------------------
(* What u32toa writes. *)
LEMMA AllDigitsFit ==
  ASSUME NEW v \in Nat, NEW bufLen \in Nat, Len(DecimalDigits[v]) < bufLen
  PROVE  U32toA(v, bufLen) = DecimalDigits[v]
  <1> DEFINE all == DecimalDigits[v]
  <1>1. all \in Seq(0 .. 9)
    BY DecimalShows
  <1>2. U32toA(v, bufLen) = SubSeq(all, 1, Len(all))
    BY DEF U32toA
  <1> QED BY <1>1, <1>2, SubSeqWhole

LEMMA ReadsAsDigits ==
  ASSUME NEW s \in Seq(0 .. 9), NEW val
  PROVE  ReadsAs(s, val) <=> Number(s) = val
  <1>1. \A i \in 1 .. Len(s) : IsDigit(s[i])
    BY DEF IsDigit
  <1> QED BY <1>1 DEF ReadsAs

LEMMA ReadsAsDecimal ==
  ASSUME NEW v \in Nat, NEW val
  PROVE  ReadsAs(DecimalDigits[v], val) <=> v = val
  BY DecimalShows, ReadsAsDigits

(* An order of one digit is that digit. *)
LEMMA OneDigit ==
  ASSUME NEW v \in Nat
  PROVE  ReadsAs(<<v>>, v) <=> v <= 9
  <1>1. CASE v <= 9
    <2>1. v \in 0 .. 9
      BY <1>1
    <2>2. <<v>> \in Seq(0 .. 9) /\ Number(<<v>>) = v
      BY <2>1, NumberOne
    <2> QED BY <1>1, <2>2, ReadsAsDigits
  <1>2. CASE ~ (v <= 9)
    <2>1. <<v>>[1] = v /\ 1 \in 1 .. Len(<<v>>)
      OBVIOUS
    <2>2. ~ IsDigit(v)
      BY <1>2 DEF IsDigit
    <2> QED BY <1>2, <2>1, <2>2 DEF ReadsAs
  <1> QED BY <1>1, <1>2

(* A number of the word has its digits in u32toa's own buffer. *)
LEMMA WordLength ==
  ASSUME NEW v \in 0 .. (Word - 1)
  PROVE  Len(DecimalDigits[v]) <= 10
  <1> DEFINE k == Len(DecimalDigits[Word - 1])
  <1>1. Word - 1 \in Nat /\ v \in Nat /\ v <= Word - 1
    BY WordAssumption
  <1>2. k \in Nat \ {0} /\ k <= 10 /\ Word - 1 < Pow10[k]
    BY <1>1, DecimalShows, WordAssumption
  <1>3. Pow10[k] \in Nat
    BY <1>2, Pow10Type
  <1> HIDE DEF k
  <1>4. v < Pow10[k]
    BY ONLY <1>1, <1>2, <1>3
  <1>5. Len(DecimalDigits[v]) <= k /\ Len(DecimalDigits[v]) \in Nat
    BY <1>1, <1>2, <1>4, DecimalLength, DecimalShows
  <1> QED BY ONLY <1>2, <1>5

LEMMA OrderIs ==
  ASSUME datum \in Orders
  PROVE  /\ datum.op \in {"sf", "power", "payload", "freq"}
         /\ datum.arg \in 0 .. (Word - 1) /\ datum.arg \in Nat
  <1>1. datum \in [op : {"sf", "power", "payload", "freq"}, arg : 0 .. (Word - 1)]
    BY OrdersAssumption
  <1>2. datum.op \in {"sf", "power", "payload", "freq"} /\ datum.arg \in 0 .. (Word - 1)
    BY <1>1
  <1> QED BY <1>2, WordAssumption

LEMMA OrderArrives == ArgumentArrives
  <1> SUFFICES ASSUME datum \in Orders, Taken(datum)
               PROVE  ReadsAs(SentText(datum), Meaning(datum))
                        <=> ~ (datum.op = "sf" /\ datum.arg > 9)
                            /\ ~ (datum.op = "freq" /\ datum.arg * 1000 >= Word)
    BY DEF ArgumentArrives
  <1> DEFINE arg == datum.arg
  <1>0. datum.op \in {"sf", "power", "payload", "freq"} /\ arg \in Nat
    BY OrderIs
  <1>1. CASE datum.op = "sf"
    <2>1. SentText(datum) = <<arg>> /\ Meaning(datum) = arg
      BY <1>1 DEF SentText, SfText, Meaning
    <2>2. ReadsAs(<<arg>>, arg) <=> arg <= 9
      BY <1>0, OneDigit
    <2> QED BY <1>0, <1>1, <2>1, <2>2
  <1>2. CASE datum.op = "power"
    <2>1. arg <= 22
      BY <1>2 DEF Taken
    <2>2. SentText(datum) = U32toA(arg, 4) /\ Meaning(datum) = arg
      BY <1>2 DEF SentText, PowerText, Meaning
    <2>3. Len(DecimalDigits[arg]) <= 2 /\ Len(DecimalDigits[arg]) \in Nat
      <3>1. arg < Pow10[2]
        BY <1>0, <2>1, Pow10Small
      <3> QED BY <1>0, <3>1, DecimalLength, DecimalShows
    <2>4. SentText(datum) = DecimalDigits[arg]
      BY <1>0, <2>2, <2>3, AllDigitsFit
    <2>5. ReadsAs(SentText(datum), Meaning(datum))
      BY <1>0, <2>2, <2>4, ReadsAsDecimal
    <2> QED BY <1>2, <2>5
  <1>3. CASE datum.op = "payload"
    <2>1. arg <= 80
      BY <1>3 DEF Taken
    <2>2. SentText(datum) = U32toA(arg, 6) /\ Meaning(datum) = arg
      BY <1>3 DEF SentText, PayloadLenText, Meaning
    <2>3. Len(DecimalDigits[arg]) <= 2 /\ Len(DecimalDigits[arg]) \in Nat
      <3>1. arg < Pow10[2]
        BY <1>0, <2>1, Pow10Small
      <3> QED BY <1>0, <3>1, DecimalLength, DecimalShows
    <2>4. SentText(datum) = DecimalDigits[arg]
      BY <1>0, <2>2, <2>3, AllDigitsFit
    <2>5. ReadsAs(SentText(datum), Meaning(datum))
      BY <1>0, <2>2, <2>4, ReadsAsDecimal
    <2> QED BY <1>3, <2>5
  <1>4. CASE datum.op = "freq"
    <2> DEFINE hz == arg * 1000
               v == hz % Word
    <2>1. hz \in Nat /\ Word \in Nat \ {0}
      BY <1>0, WordAssumption
    <2>2. v \in Nat /\ v \in 0 .. (Word - 1) /\ (v = hz <=> hz < Word)
      <3> HIDE DEF hz
      <3> DEFINE q == hz \div Word
      <3>1. q \in Nat /\ v \in 0 .. (Word - 1) /\ hz = Word * q + v
        BY ONLY <2>1, SMT
      <3>2. hz < Word => q = 0
        <4> HIDE DEF q, v
        <4> SUFFICES ASSUME hz < Word, q >= 1 PROVE FALSE
          BY <3>1
        <4>1. Word * q >= Word
          BY <2>1, <3>1
        <4> QED BY ONLY <2>1, <3>1, <4>1, hz < Word
      <3>3. q = 0 => v = hz
        <4> HIDE DEF q, v
        <4> QED BY <2>1, <3>1
      <3> HIDE DEF q, v
      <3> QED BY ONLY <2>1, <3>1, <3>2, <3>3
    <2>3. SentText(datum) = U32toA(v, 12) /\ Meaning(datum) = hz
      BY <1>4 DEF SentText, FreqText, Meaning
    <2> HIDE DEF v, hz
    <2>4. Len(DecimalDigits[v]) < 12
      <3>1. Len(DecimalDigits[v]) <= 10 /\ Len(DecimalDigits[v]) \in Nat
        BY <2>2, WordLength, DecimalShows
      <3> QED BY ONLY <3>1
    <2>5. SentText(datum) = DecimalDigits[v]
      BY <2>2, <2>3, <2>4, AllDigitsFit
    <2>6. ReadsAs(SentText(datum), Meaning(datum)) <=> hz < Word
      BY <2>2, <2>3, <2>5, ReadsAsDecimal
    <2>7. hz < Word <=> ~ (hz >= Word)
      BY <2>1
    <2> QED BY <1>4, <2>6, <2>7 DEF hz
  <1> QED BY <1>0, <1>1, <1>2, <1>3, <1>4

(* Every number that a command is allowed to carry is the number the       *)
(* module is told, but for the two that the code gets wrong.               *)
THEOREM OrdersArrive == DatumSpec => []ArgumentArrives
  BY OrderArrives, PTL

LEMMA ShortTextIsHead == ShortBufferKeepsHead
  <1> SUFFICES ASSUME datum \in Orders, NEW bufLen \in 2 .. 12
               PROVE  LET text == U32toA(datum.arg, bufLen)
                      IN  /\ Len(text) < bufLen
                          /\ \/ ReadsAs(text, datum.arg)
                             \/ Len(text) = bufLen - 1 /\ datum.arg >= Pow10[Len(text)]
                                /\ \E k \in 1 .. 9 : ReadsAs(text, datum.arg \div Pow10[k])
    BY DEF ShortBufferKeepsHead
  <1> DEFINE arg == datum.arg
             all == DecimalDigits[arg]
             l == Len(all)
             text == U32toA(arg, bufLen)
  <1>0. arg \in Nat /\ l \in Nat \ {0} /\ l <= 10 /\ all \in Seq(0 .. 9)
    BY OrderIs, DecimalShows, WordLength
  <1>1. CASE l < bufLen
    <2>1. text = all
      BY <1>0, <1>1, AllDigitsFit
    <2>2. ReadsAs(text, arg)
      BY <1>0, <2>1, ReadsAsDecimal
    <2> HIDE DEF text
    <2>3. Len(text) < bufLen
      BY <1>1, <2>1
    <2> QED BY <2>2, <2>3 DEF text
  <1>2. CASE ~ (l < bufLen)
    <2> DEFINE m == bufLen - 1
               k == l - m
               F == SubSeq(all, 1, m)
               R == SubSeq(all, m + 1, l)
    <2>1. m \in 0 .. l /\ m \in Nat \ {0} /\ k \in 1 .. 9 /\ k \in Nat /\ m < bufLen
          /\ m <= l - 1 /\ l - 1 \in Nat /\ arg \in Nat /\ k = l - m
      <3> HIDE DEF l, arg, all, text
      <3>1. m \in Nat \ {0} /\ m < bufLen /\ m <= l - 1
        BY ONLY <1>0, <1>2, bufLen \in 2 .. 12
      <3>2. k \in 1 .. 9 /\ k = l - m
        BY ONLY <1>0, <3>1
      <3> QED BY ONLY <1>0, <3>1, <3>2
    <2>2. text = F
      BY <1>2 DEF U32toA
    <2>3. /\ F \in Seq(0 .. 9) /\ R \in Seq(0 .. 9) /\ Len(F) = m /\ Len(R) = k
          /\ all = F \o R
      <3> HIDE DEF k, m
      <3>1. m \in 0 .. Len(all) /\ all \in Seq(0 .. 9)
        BY <1>0, <2>1
      <3>2. /\ F \in Seq(0 .. 9) /\ R \in Seq(0 .. 9) /\ Len(F) = m
            /\ Len(R) = Len(all) - m /\ all = F \o R
        <4> HIDE DEF all
        <4> QED BY ONLY <3>1, SplitDigits, Zenon
      <3> HIDE DEF F, R
      <3> QED BY ONLY <2>1, <3>2 DEF l
    <2>4. Number(all) = arg /\ (arg > 0 => arg >= Pow10[l - 1]) /\ arg < Pow10[l]
      BY <1>0, DecimalShows
    <2> HIDE DEF F, R, l, all, arg, text, k
    <2>5. Number(F \o R) = Number(F) * Pow10[k] + Number(R)
      <3>1. F \in Seq(Int) /\ R \in Seq(Int)
        BY ONLY <2>3, 0 .. 9 \subseteq Int, SeqMono
      <3> QED BY <2>3, <3>1, NumberConcat
    <2>6. Number(F) \in Nat /\ Number(R) \in Nat /\ Number(R) < Pow10[k]
          /\ Pow10[k] \in Nat \ {0}
      BY <2>1, <2>3, NumberBound, Pow10Type
    <2>7. (Number(F) * Pow10[k] + Number(R)) \div Pow10[k] = Number(F)
      <3>1. Number(R) \in 0 .. (Pow10[k] - 1)
        BY ONLY <2>6
      <3> QED BY <2>6, <3>1, QuotientIs
    <2>8. arg \div Pow10[k] = Number(F)
      BY ONLY <2>3, <2>4, <2>5, <2>7
    <2>9. ReadsAs(text, arg \div Pow10[k])
      BY <2>2, <2>3, <2>8, ReadsAsDigits
    <2>10. arg > 0
      <3> SUFFICES ASSUME arg = 0 PROVE FALSE
        BY <2>1
      <3>1. DecimalDigits[0] = <<0>> /\ Len(<<0>>) = 1
        <4>1. 0 \in Nat /\ 0 < 10
          OBVIOUS
        <4> QED BY ONLY <4>1, DecimalSteps
      <3>2. l = 1
        BY <3>1 DEF l, all
      <3> QED BY <2>1, <3>2
    <2>11. arg >= Pow10[m]
      <3>1. Pow10[m] <= Pow10[l - 1] /\ Pow10[m] \in Nat /\ Pow10[l - 1] \in Nat
        BY <2>1, Pow10Grows, Pow10Type
      <3> QED BY ONLY <2>1, <2>4, <2>10, <3>1
    <2>12. Len(text) = m
      BY <2>2, <2>3
    <2> HIDE DEF m
    <2>13. /\ Len(text) < bufLen /\ Len(text) = m /\ arg >= Pow10[Len(text)]
           /\ \E i \in 1 .. 9 : ReadsAs(text, arg \div Pow10[i])
      BY <2>1, <2>9, <2>11, <2>12
    <2> QED BY <2>13, Zenon DEF arg, text, m
  <1> QED BY <1>1, <1>2

(* In a buffer of any length, a number that does not fit loses its last    *)
(* digits and nothing else.                                                *)
THEOREM ShortBuffersKeepTheHead == DatumSpec => []ShortBufferKeepsHead
  BY ShortTextIsHead, PTL

-----------------------------------------------------------------------------
(* A text that stands in another one behind a place. *)
Stands(text, p, part) ==
    \A i \in 1 .. Len(part) : p + i <= Len(text) /\ text[p + i] = part[i]

LEMMA StandsItself ==
  ASSUME NEW text \in Seq(Int)
  PROVE  Stands(text, 0, text)
  BY DEF Stands

LEMMA StandsApart ==
  ASSUME NEW text \in Seq(Int), NEW p \in Nat, NEW s \in Seq(Int), NEW t \in Seq(Int),
         Stands(text, p, s \o t)
  PROVE  Stands(text, p, s) /\ Stands(text, p + Len(s), t)
  <1> DEFINE m == Len(s)
             n == Len(t)
  <1>1. m \in Nat /\ n \in Nat
    OBVIOUS
  <1>2. Len(s \o t) = m + n /\ \A i \in 1 .. (m + n) :
          (s \o t)[i] = IF i <= m THEN s[i] ELSE t[i - m]
    BY ConcatProperties
  <1>3. \A i \in 1 .. (m + n) : p + i <= Len(text) /\ text[p + i] = (s \o t)[i]
    BY <1>2 DEF Stands
  <1>4. \A i \in 1 .. m : p + i <= Len(text) /\ text[p + i] = s[i]
    <2> TAKE i \in 1 .. m
    <2>1. i \in 1 .. (m + n) /\ i <= m
      BY <1>1
    <2> QED BY <1>2, <1>3, <2>1
  <1>5. \A i \in 1 .. n : (p + m) + i <= Len(text) /\ text[(p + m) + i] = t[i]
    <2> TAKE i \in 1 .. n
    <2>1. m + i \in 1 .. (m + n) /\ ~ (m + i <= m) /\ (m + i) - m = i
          /\ p + (m + i) = (p + m) + i
      BY <1>1
    <2> QED BY <1>2, <1>3, <2>1
  <1> QED BY <1>4, <1>5 DEF Stands

LEMMA StandsOne ==
  ASSUME NEW text \in Seq(Int), NEW p \in Nat, NEW c \in Int, Stands(text, p, <<c>>)
  PROVE  CharAt(text, p + 1) = c
  <1>1. 1 \in 1 .. Len(<<c>>) /\ <<c>>[1] = c
    OBVIOUS
  <1> QED BY <1>1 DEF Stands, CharAt

(* A field that stands before a comma ends at it. *)
LEMMA FieldEnds ==
  ASSUME NEW text \in Seq(Int), NEW p \in Nat, NEW s \in Seq(Int), NEW most \in Nat,
         Len(s) <= most, \A i \in 1 .. Len(s) : s[i] # Comma,
         Stands(text, p, s), CharAt(text, p + Len(s) + 1) = Comma
  PROVE  FieldEnd(text, p + 1, most) = p + Len(s) + 1
  <1> DEFINE l == Len(s)
             from == p + 1
             to == p + 1 + most
             at == p + l + 1
  <1>1. l \in Nat
    OBVIOUS
  <1>2. from \in Nat /\ to \in Nat /\ at \in from .. to
    BY <1>1
  <1>3. \A i \in from .. (at - 1) : CharAt(text, i) # Comma
    <2> TAKE i \in from .. (at - 1)
    <2>1. i - p \in 1 .. l /\ p + (i - p) = i
      BY <1>1
    <2>2. i <= Len(text) /\ text[i] = s[i - p]
      BY <2>1 DEF Stands
    <2> QED BY <2>1, <2>2 DEF CharAt
  <1>4. CharAt(text, at) = Comma
    OBVIOUS
  <1> HIDE DEF from, to, at
  <1>5. FirstIn(text, Comma, from, to) = at
    BY <1>2, <1>3, <1>4, FirstInIs
  <1> QED BY <1>5 DEF FieldEnd, from, to, at

(* The digits of a number that stand before something else are read. *)
LEMMA RunStands ==
  ASSUME NEW text \in Seq(Int), NEW p \in Nat, NEW s \in Seq(0 .. 9), NEW most \in Nat,
         Len(s) <= most, Stands(text, p, s), ~ IsDigit(CharAt(text, p + Len(s) + 1))
  PROVE  DigitRun(text, p + 1, most) = s
  <1> DEFINE l == Len(s)
             from == p + 1
             to == p + l
  <1>1. l \in Nat /\ l \in 0 .. most /\ \A i \in 1 .. l : s[i] \in 0 .. 9
    OBVIOUS
  <1>2. from \in Nat \ {0} /\ to \in Nat /\ from + l - 1 = to /\ from <= to + 1
        /\ to - from + 1 = l /\ from + l = p + l + 1
    BY <1>1
  <1>3. \A i \in from .. to : IsDigit(CharAt(text, i))
    <2> TAKE i \in from .. to
    <2>1. i - p \in 1 .. l /\ p + (i - p) = i
      BY <1>1
    <2>2. i <= Len(text) /\ text[i] = s[i - p]
      BY <2>1 DEF Stands
    <2> QED BY <1>1, <2>1, <2>2 DEF CharAt, IsDigit
  <1>4. to <= Len(text) \/ l = 0
    <2> SUFFICES ASSUME l # 0 PROVE to <= Len(text)
      OBVIOUS
    <2>1. l \in 1 .. l
      BY <1>1
    <2> QED BY <2>1 DEF Stands
  <1>5. DigitRun(text, from, most) = SubSeq(text, from, to)
    <2>1. ~ IsDigit(CharAt(text, from + l))
      BY <1>2
    <2> HIDE DEF from, to, l
    <2>2. DigitRun(text, from, most) = SubSeq(text, from, from + l - 1)
      <3>1. \A i \in from .. (from + l - 1) : IsDigit(CharAt(text, i))
        BY ONLY <1>2, <1>3
      <3>2. from \in Nat
        BY ONLY <1>2
      <3> QED BY ONLY <1>1, <2>1, <3>1, <3>2, most \in Nat, DigitRunIs
    <2> QED BY <1>2, <2>2
  <1>6. SubSeq(text, from, to) = s
    <2>1. CASE l = 0
      <3>1. from > to
        BY <1>2, <2>1
      <3>2. SubSeq(text, from, to) = <<>>
        <4> HIDE DEF from, to
        <4> QED BY <1>2, <3>1, SubSeqProperties
      <3>3. s = <<>>
        BY <2>1
      <3> QED BY <3>2, <3>3
    <2>2. CASE l # 0
      <3>1. to <= Len(text)
        BY <1>4, <2>2
      <3> DEFINE u == SubSeq(text, from, to)
      <3>2. u \in Seq(Int) /\ Len(u) = to - from + 1
            /\ \A i \in 1 .. (to - from + 1) : u[i] = text[from + i - 1]
        <4> HIDE DEF from, to
        <4> QED BY ONLY <1>2, <3>1, text \in Seq(Int), PartOf, SMTT(40)
      <3> HIDE DEF u
      <3>3. \A i \in 1 .. l : u[i] = s[i]
        <4> TAKE i \in 1 .. l
        <4>1. from + i - 1 = p + i
          BY <1>1
        <4>2. u[i] = text[p + i]
          BY <1>2, <3>2, <4>1
        <4> QED BY <4>2 DEF Stands
      <3>4. s \in Seq(Int)
        BY SeqMono
      <3>5. u = s
        <4>1. Len(u) = Len(s)
          BY <1>2, <3>2
        <4> QED BY ONLY <3>2, <3>3, <3>4, <4>1, SeqEqual DEF l
      <3> QED BY <3>5 DEF u
    <2> QED BY <2>1, <2>2
  <1> QED BY <1>5, <1>6

(* A number with its sign. *)
LEMMA SignedRun ==
  ASSUME NEW text \in Seq(Int), NEW p \in Nat, NEW v \in Int, NEW s \in Seq(0 .. 9),
         NEW most \in Nat, Len(s) \in 1 .. most, NEW at, at = p + Len(SignText(v)) + 1,
         Stands(text, p, SignText(v)), Stands(text, p + Len(SignText(v)), s),
         ~ IsDigit(CharAt(text, at + Len(s)))
  PROVE  /\ (CharAt(text, p + 1) = Minus) <=> v < 0
         /\ p + (IF CharAt(text, p + 1) = Minus THEN 2 ELSE 1) = at
         /\ DigitRun(text, at, most) = s /\ at + Len(s) \in Nat
  <1> DEFINE m == Len(SignText(v))
             l == Len(s)
  <1>1. l \in Nat /\ 1 \in 1 .. l /\ s[1] \in 0 .. 9 /\ l <= most
    <2>1. l \in Nat /\ \A i \in 1 .. l : s[i] \in 0 .. 9
      BY ONLY s \in Seq(0 .. 9)
    <2>2. l \in 1 .. most /\ most \in Nat
      OBVIOUS
    <2> HIDE DEF l
    <2>3. 1 \in 1 .. l /\ l <= most
      BY ONLY <2>1, <2>2
    <2> QED BY ONLY <2>1, <2>3, Zenon
  <1>2. m = (IF v < 0 THEN 1 ELSE 0) /\ m \in Nat
    BY DEF SignText
  <1>3. (CharAt(text, p + 1) = Minus) <=> v < 0
    <2>1. CASE v < 0
      <3>1. Stands(text, p, <<Minus>>) /\ Minus \in Int
        BY <2>1 DEF SignText, Minus
      <3> QED BY <2>1, <3>1, StandsOne
    <2>2. CASE ~ (v < 0)
      <3>1. m = 0 /\ p + m = p
        BY <1>2, <2>2
      <3>2. Stands(text, p, s)
        BY <3>1
      <3>3. p + 1 <= Len(text) /\ text[p + 1] = s[1]
        BY <1>1, <3>2 DEF Stands
      <3>4. CharAt(text, p + 1) = s[1]
        BY <3>3 DEF CharAt
      <3> QED BY ONLY <1>1, <2>2, <3>4 DEF Minus
    <2> QED BY <2>1, <2>2
  <1> HIDE DEF m, l
  <1>4. p + (IF CharAt(text, p + 1) = Minus THEN 2 ELSE 1) = p + m + 1
    BY <1>2, <1>3
  <1>5. DigitRun(text, p + m + 1, most) = s
    <2> DEFINE q == p + m
    <2>1. q \in Nat /\ (p + m + 1) + l = q + l + 1
      BY <1>1, <1>2
    <2>2. ~ IsDigit(CharAt(text, q + l + 1)) /\ Stands(text, q, s)
      BY <2>1 DEF m, l
    <2> HIDE DEF q
    <2>3. DigitRun(text, q + 1, most) = s
      BY <1>1, <2>1, <2>2, RunStands DEF l
    <2> QED BY <2>3 DEF q
  <1>6. at = p + m + 1 /\ at + Len(s) \in Nat
    BY <1>1, <1>2 DEF m, l
  <1> QED BY <1>3, <1>4, <1>5, <1>6

(* What parseRcv makes of a text whose fields end where they should. *)
RcvParts(text, addrEnd, lenEnd, dataEnd, v, s, at, end, w, t, then, point) ==
    /\ text \in Seq(Int) /\ addrEnd \in Nat \ {0} /\ lenEnd \in Nat \ {0}
    /\ dataEnd \in Nat \ {0}
    /\ FieldEnd(text, 1, 8) = addrEnd /\ FieldEnd(text, addrEnd + 1, 4) = lenEnd
    /\ FieldEnd(text, lenEnd + 1, 100) = dataEnd
    /\ v \in Int /\ s \in Seq(0 .. 9) /\ Len(s) \in 1 .. 6
    /\ at \in Nat /\ at = dataEnd + Len(SignText(v)) + 1
    /\ Stands(text, dataEnd, SignText(v)) /\ Stands(text, dataEnd + Len(SignText(v)), s)
    /\ end \in Nat /\ end = at + Len(s) /\ CharAt(text, end) = Comma
    /\ w \in Int /\ t \in Seq(0 .. 9) /\ Len(t) \in 1 .. 4
    /\ then \in Nat /\ then = end + Len(SignText(w)) + 1
    /\ Stands(text, end, SignText(w)) /\ Stands(text, end + Len(SignText(w)), t)
    /\ point \in Nat /\ point = then + Len(t) /\ ~ IsDigit(CharAt(text, point))

RcvReading(text, v, s, w, t, point) ==
    [ok |-> TRUE, rssi |-> AsI16(Signed(v < 0, Number(s))),
     snr10 |-> AsI16(Snr10(w < 0, Number(t),
                 IF CharAt(text, point) = Dot /\ IsDigit(CharAt(text, point + 1))
                 THEN text[point + 1] ELSE 0))]

LEMMA RcvReads ==
  ASSUME NEW text, NEW addrEnd, NEW lenEnd, NEW dataEnd, NEW v, NEW s, NEW at, NEW end,
         NEW w, NEW t, NEW then, NEW point,
         RcvParts(text, addrEnd, lenEnd, dataEnd, v, s, at, end, w, t, then, point)
  PROVE  RcvFields(text) = RcvReading(text, v, s, w, t, point)
  <1>0. /\ text \in Seq(Int) /\ addrEnd \in Nat \ {0} /\ lenEnd \in Nat \ {0}
        /\ dataEnd \in Nat \ {0}
        /\ FieldEnd(text, 1, 8) = addrEnd /\ FieldEnd(text, addrEnd + 1, 4) = lenEnd
        /\ FieldEnd(text, lenEnd + 1, 100) = dataEnd
        /\ v \in Int /\ s \in Seq(0 .. 9) /\ Len(s) \in 1 .. 6
        /\ at \in Nat /\ at = dataEnd + Len(SignText(v)) + 1
        /\ Stands(text, dataEnd, SignText(v)) /\ Stands(text, dataEnd + Len(SignText(v)), s)
        /\ end \in Nat /\ end = at + Len(s) /\ CharAt(text, end) = Comma
        /\ w \in Int /\ t \in Seq(0 .. 9) /\ Len(t) \in 1 .. 4
        /\ then \in Nat /\ then = end + Len(SignText(w)) + 1
        /\ Stands(text, end, SignText(w)) /\ Stands(text, end + Len(SignText(w)), t)
        /\ point \in Nat /\ point = then + Len(t) /\ ~ IsDigit(CharAt(text, point))
    BY DEF RcvParts
  <1>01. text \in Seq(Int)
    BY <1>0
  <1>1. /\ (CharAt(text, dataEnd + 1) = Minus) <=> v < 0
        /\ dataEnd + (IF CharAt(text, dataEnd + 1) = Minus THEN 2 ELSE 1) = at
        /\ DigitRun(text, at, 6) = s
    <2>1. ~ IsDigit(CharAt(text, at + Len(s)))
      <3>1. ~ IsDigit(Comma)
        BY DEF IsDigit, Comma
      <3>2. CharAt(text, at + Len(s)) = Comma
        BY <1>0
      <3> QED BY ONLY <3>1, <3>2, Zenon
    <2> DEFINE most == 6
    <2>2. /\ dataEnd \in Nat /\ most \in Nat /\ v \in Int /\ s \in Seq(0 .. 9)
          /\ Len(s) \in 1 .. most /\ at = dataEnd + Len(SignText(v)) + 1
          /\ Stands(text, dataEnd, SignText(v)) /\ Stands(text, dataEnd + Len(SignText(v)), s)
      BY <1>0
    <2> HIDE DEF most
    <2>3. /\ (CharAt(text, dataEnd + 1) = Minus) <=> v < 0
          /\ dataEnd + (IF CharAt(text, dataEnd + 1) = Minus THEN 2 ELSE 1) = at
          /\ DigitRun(text, at, most) = s
      BY ONLY <1>01, <2>1, <2>2, SignedRun
    <2> QED BY <2>3 DEF most
  <1>2. /\ (CharAt(text, end + 1) = Minus) <=> w < 0
        /\ end + (IF CharAt(text, end + 1) = Minus THEN 2 ELSE 1) = then
        /\ DigitRun(text, then, 4) = t
    <2> DEFINE most == 4
    <2>1. /\ most \in Nat /\ Len(t) \in 1 .. most /\ end \in Nat /\ w \in Int
          /\ t \in Seq(0 .. 9) /\ then = end + Len(SignText(w)) + 1
          /\ Stands(text, end, SignText(w)) /\ Stands(text, end + Len(SignText(w)), t)
      BY <1>0
    <2>2. ~ IsDigit(CharAt(text, then + Len(t)))
      <3>1. then + Len(t) = point
        BY <1>0
      <3>2. ~ IsDigit(CharAt(text, point))
        BY <1>0
      <3> QED BY ONLY <3>1, <3>2, Zenon
    <2> HIDE DEF most
    <2>3. /\ (CharAt(text, end + 1) = Minus) <=> w < 0
          /\ end + (IF CharAt(text, end + 1) = Minus THEN 2 ELSE 1) = then
          /\ DigitRun(text, then, most) = t
      BY ONLY <1>01, <2>1, <2>2, SignedRun
    <2> QED BY <2>3 DEF most
  <1> DEFINE a == FieldEnd(text, 1, 8)
             l == FieldEnd(text, a + 1, 4)
             d == FieldEnd(text, l + 1, 100)
             rssiNeg == CharAt(text, d + 1) = Minus
             rssiAt == d + (IF rssiNeg THEN 2 ELSE 1)
             rssi == DigitRun(text, rssiAt, 6)
             rssiEnd == rssiAt + Len(rssi)
             snrNeg == CharAt(text, rssiEnd + 1) = Minus
             snrAt == rssiEnd + (IF snrNeg THEN 2 ELSE 1)
             snr == DigitRun(text, snrAt, 4)
             p == snrAt + Len(snr)
             tenths == IF CharAt(text, p) = Dot /\ IsDigit(CharAt(text, p + 1))
                       THEN text[p + 1] ELSE 0
  <1>3. RcvFields(text) =
          IF 0 \in {a, l, d} \/ CharAt(text, rssiEnd) # Comma THEN RcvRefused
          ELSE [ok |-> TRUE, rssi |-> AsI16(Signed(rssiNeg, Number(rssi))),
                snr10 |-> AsI16(Snr10(snrNeg, Number(snr), tenths))]
    BY DEF RcvFields
  <1> HIDE DEF tenths
  <1>4. a = addrEnd
    BY <1>0
  <1> HIDE DEF a
  <1>5. l = lenEnd
    BY <1>0, <1>4
  <1> HIDE DEF l
  <1>6. d = dataEnd
    BY <1>0, <1>5
  <1> HIDE DEF d
  <1>7. rssiNeg = (v < 0) /\ rssiAt = at
    BY ONLY <1>1, <1>6
  <1> HIDE DEF rssiNeg, rssiAt
  <1>8. rssi = s
    BY <1>1, <1>7
  <1> HIDE DEF rssi
  <1>9. rssiEnd = end
    BY <1>0, <1>7, <1>8
  <1> HIDE DEF rssiEnd
  <1>10. snrNeg = (w < 0) /\ snrAt = then
    BY ONLY <1>2, <1>9
  <1> HIDE DEF snrNeg, snrAt
  <1>11. snr = t
    BY <1>2, <1>10
  <1> HIDE DEF snr
  <1>12. p = point
    BY <1>0, <1>10, <1>11
  <1> HIDE DEF p
  <1>13. tenths = IF CharAt(text, point) = Dot /\ IsDigit(CharAt(text, point + 1))
                  THEN text[point + 1] ELSE 0
    BY <1>12, Zenon DEF tenths
  <1>14. ~ (0 \in {a, l, d}) /\ CharAt(text, rssiEnd) = Comma
    BY <1>0, <1>4, <1>5, <1>6, <1>9
  <1>15. RcvFields(text) =
           [ok |-> TRUE, rssi |-> AsI16(Signed(v < 0, Number(s))),
            snr10 |-> AsI16(Snr10(w < 0, Number(t), tenths))]
    BY ONLY <1>3, <1>7, <1>8, <1>10, <1>11, <1>14, Zenon
  <1> QED BY ONLY <1>13, <1>15, Zenon DEF RcvReading

-----------------------------------------------------------------------------
(* Where the parts of a text of two parts stand. *)
LEMMA TwoParts ==
  ASSUME NEW text \in Seq(Int), NEW s \in Seq(Int), NEW t \in Seq(Int),
         Stands(text, 0, s \o t)
  PROVE  /\ Stands(text, 0, s) /\ Stands(text, Len(s), t)
  <1>1. Len(s) \in Nat /\ 0 + Len(s) = Len(s)
    OBVIOUS
  <1> QED BY <1>1, StandsApart

LEMMA PartsLength ==
  ASSUME NEW s \in Seq(Int), NEW t \in Seq(Int)
  PROVE  s \o t \in Seq(Int) /\ Len(s \o t) = Len(s) + Len(t) /\ Len(s \o t) \in Nat
  OBVIOUS

(* The layout of a report of such parts: where its fields end. *)
LaidOut(text, addr, length, data, rssiSign, rssi, snrSign, snr, decimal) ==
    \E addrEnd, lenEnd, comma, rssiEnd, point \in Nat :
        /\ text \in Seq(Int)
        /\ addrEnd = Len(addr) + 1 /\ lenEnd = addrEnd + Len(length) + 1
        /\ comma = lenEnd + Len(data) + 1
        /\ rssiEnd = comma + Len(rssiSign) + Len(rssi) + 1
        /\ point = rssiEnd + Len(snrSign) + Len(snr) + 1
        /\ Len(text) = point - 1 + Len(decimal)
        /\ Stands(text, 0, addr) /\ CharAt(text, addrEnd) = Comma
        /\ Stands(text, addrEnd, length) /\ CharAt(text, lenEnd) = Comma
        /\ Stands(text, lenEnd, data) /\ CharAt(text, comma) = Comma
        /\ Stands(text, comma, rssiSign) /\ Stands(text, comma + Len(rssiSign), rssi)
        /\ CharAt(text, rssiEnd) = Comma
        /\ Stands(text, rssiEnd, snrSign) /\ Stands(text, rssiEnd + Len(snrSign), snr)
        /\ Stands(text, point - 1, decimal)

LEMMA ReportLayout ==
  ASSUME NEW addr \in Seq(Int), NEW length \in Seq(Int), NEW data \in Seq(Int),
         NEW rssiSign \in Seq(Int), NEW rssi \in Seq(Int),
         NEW snrSign \in Seq(Int), NEW snr \in Seq(Int), NEW decimal \in Seq(Int), NEW text,
         text = addr \o <<Comma>> \o length \o <<Comma>> \o data \o <<Comma>>
                  \o rssiSign \o rssi \o <<Comma>> \o snrSign \o snr \o decimal
  PROVE  LaidOut(text, addr, length, data, rssiSign, rssi, snrSign, snr, decimal)
  <1> DEFINE C == <<Comma>>
             P1 == addr \o C
             P2 == P1 \o length
             P3 == P2 \o C
             P4 == P3 \o data
             P5 == P4 \o C
             P6 == P5 \o rssiSign
             P7 == P6 \o rssi
             P8 == P7 \o C
             P9 == P8 \o snrSign
             P10 == P9 \o snr
  <1>0. C \in Seq(Int) /\ Len(C) = 1 /\ Comma \in Int
    BY DEF Comma
  <1>01. text = P10 \o decimal
    OBVIOUS
  <1> HIDE DEF C
  <1>1. P1 \in Seq(Int) /\ Len(P1) = Len(addr) + 1 /\ Len(P1) \in Nat
    <2>1. P1 \in Seq(Int) /\ Len(P1) = Len(addr) + Len(C) /\ Len(P1) \in Nat
      BY <1>0, PartsLength
    <2> HIDE DEF P1
    <2> QED BY ONLY <1>0, <2>1
  <1> HIDE DEF P1
  <1>2. P2 \in Seq(Int) /\ Len(P2) = Len(P1) + Len(length) /\ Len(P2) \in Nat
    BY <1>1, PartsLength
  <1> HIDE DEF P2
  <1>3. P3 \in Seq(Int) /\ Len(P3) = Len(P2) + 1 /\ Len(P3) \in Nat
    <2>1. P3 \in Seq(Int) /\ Len(P3) = Len(P2) + Len(C) /\ Len(P3) \in Nat
      BY <1>0, <1>2, PartsLength
    <2> HIDE DEF P3
    <2> QED BY ONLY <1>0, <2>1
  <1> HIDE DEF P3
  <1>4. P4 \in Seq(Int) /\ Len(P4) = Len(P3) + Len(data) /\ Len(P4) \in Nat
    BY <1>3, PartsLength
  <1> HIDE DEF P4
  <1>5. P5 \in Seq(Int) /\ Len(P5) = Len(P4) + 1 /\ Len(P5) \in Nat
    <2>1. P5 \in Seq(Int) /\ Len(P5) = Len(P4) + Len(C) /\ Len(P5) \in Nat
      BY <1>0, <1>4, PartsLength
    <2> HIDE DEF P5
    <2> QED BY ONLY <1>0, <2>1
  <1> HIDE DEF P5
  <1>6. P6 \in Seq(Int) /\ Len(P6) = Len(P5) + Len(rssiSign) /\ Len(P6) \in Nat
    BY <1>5, PartsLength
  <1> HIDE DEF P6
  <1>7. P7 \in Seq(Int) /\ Len(P7) = Len(P6) + Len(rssi) /\ Len(P7) \in Nat
    BY <1>6, PartsLength
  <1> HIDE DEF P7
  <1>8. P8 \in Seq(Int) /\ Len(P8) = Len(P7) + 1 /\ Len(P8) \in Nat
    <2>1. P8 \in Seq(Int) /\ Len(P8) = Len(P7) + Len(C) /\ Len(P8) \in Nat
      BY <1>0, <1>7, PartsLength
    <2> HIDE DEF P8
    <2> QED BY ONLY <1>0, <2>1
  <1> HIDE DEF P8
  <1>9. P9 \in Seq(Int) /\ Len(P9) = Len(P8) + Len(snrSign) /\ Len(P9) \in Nat
    BY <1>8, PartsLength
  <1> HIDE DEF P9
  <1>10. P10 \in Seq(Int) /\ Len(P10) = Len(P9) + Len(snr) /\ Len(P10) \in Nat
    BY <1>9, PartsLength
  <1> HIDE DEF P10
  <1>11. text \in Seq(Int) /\ Len(text) = Len(P10) + Len(decimal)
    <2>1. decimal \in Seq(Int)
      OBVIOUS
    <2> QED BY ONLY <1>01, <1>10, <2>1, PartsLength, Zenon
  <1>12. Stands(text, 0, P10) /\ Stands(text, Len(P10), decimal)
    <2>1. Stands(text, 0, P10 \o decimal)
      BY <1>01, <1>11, StandsItself
    <2> QED BY <1>10, <1>11, <2>1, TwoParts
  <1>13. Stands(text, 0, P9) /\ Stands(text, Len(P9), snr)
    BY <1>9, <1>11, <1>12, TwoParts DEF P10
  <1>14. Stands(text, 0, P8) /\ Stands(text, Len(P8), snrSign)
    BY <1>8, <1>11, <1>13, TwoParts DEF P9
  <1>15. Stands(text, 0, P7) /\ Stands(text, Len(P7), C)
    BY <1>0, <1>7, <1>11, <1>14, TwoParts DEF P8
  <1>16. Stands(text, 0, P6) /\ Stands(text, Len(P6), rssi)
    BY <1>6, <1>11, <1>15, TwoParts DEF P7
  <1>17. Stands(text, 0, P5) /\ Stands(text, Len(P5), rssiSign)
    BY <1>5, <1>11, <1>16, TwoParts DEF P6
  <1>18. Stands(text, 0, P4) /\ Stands(text, Len(P4), C)
    BY <1>0, <1>4, <1>11, <1>17, TwoParts DEF P5
  <1>19. Stands(text, 0, P3) /\ Stands(text, Len(P3), data)
    BY <1>3, <1>11, <1>18, TwoParts DEF P4
  <1>20. Stands(text, 0, P2) /\ Stands(text, Len(P2), C)
    BY <1>0, <1>2, <1>11, <1>19, TwoParts DEF P3
  <1>21. Stands(text, 0, P1) /\ Stands(text, Len(P1), length)
    BY <1>1, <1>11, <1>20, TwoParts DEF P2
  <1>22. Stands(text, 0, addr) /\ Stands(text, Len(addr), C)
    BY <1>0, <1>11, <1>21, TwoParts DEF P1
  <1>23. /\ CharAt(text, Len(addr) + 1) = Comma /\ CharAt(text, Len(P2) + 1) = Comma
         /\ CharAt(text, Len(P4) + 1) = Comma /\ CharAt(text, Len(P7) + 1) = Comma
    <2>1. Len(addr) \in Nat
      OBVIOUS
    <2>2. CharAt(text, Len(addr) + 1) = Comma
      BY <1>0, <1>11, <1>22, <2>1, StandsOne DEF C
    <2>3. CharAt(text, Len(P2) + 1) = Comma
      BY <1>0, <1>2, <1>11, <1>20, StandsOne DEF C
    <2>4. CharAt(text, Len(P4) + 1) = Comma
      BY <1>0, <1>4, <1>11, <1>18, StandsOne DEF C
    <2>5. CharAt(text, Len(P7) + 1) = Comma
      BY <1>0, <1>7, <1>11, <1>15, StandsOne DEF C
    <2> QED BY <2>2, <2>3, <2>4, <2>5
  <1> DEFINE a == Len(P1)
             b == Len(P3)
             c == Len(P5)
             d == Len(P8)
             e == Len(P10) + 1
  <1>24. /\ a \in Nat /\ b \in Nat /\ c \in Nat /\ d \in Nat /\ e \in Nat
         /\ a = Len(addr) + 1 /\ b = a + Len(length) + 1 /\ c = b + Len(data) + 1
         /\ d = c + Len(rssiSign) + Len(rssi) + 1 /\ e = d + Len(snrSign) + Len(snr) + 1
         /\ Len(text) = e - 1 + Len(decimal) /\ e - 1 = Len(P10)
         /\ Len(P2) + 1 = b /\ Len(P4) + 1 = c /\ Len(P7) + 1 = d
         /\ Len(P6) = c + Len(rssiSign) /\ Len(P9) = d + Len(snrSign)
    <2>1. /\ Len(addr) \in Nat /\ Len(length) \in Nat /\ Len(data) \in Nat
          /\ Len(rssiSign) \in Nat /\ Len(rssi) \in Nat /\ Len(snrSign) \in Nat
          /\ Len(snr) \in Nat /\ Len(decimal) \in Nat
      OBVIOUS
    <2> QED BY ONLY <1>1, <1>2, <1>3, <1>4, <1>5, <1>6, <1>7, <1>8, <1>9, <1>10, <1>11, <2>1
  <1>25. /\ Stands(text, 0, addr) /\ CharAt(text, a) = Comma
         /\ Stands(text, a, length) /\ CharAt(text, b) = Comma
         /\ Stands(text, b, data) /\ CharAt(text, c) = Comma
         /\ Stands(text, c, rssiSign) /\ Stands(text, c + Len(rssiSign), rssi)
         /\ CharAt(text, d) = Comma
         /\ Stands(text, d, snrSign) /\ Stands(text, d + Len(snrSign), snr)
         /\ Stands(text, e - 1, decimal)
    <2>1. /\ CharAt(text, a) = Comma /\ CharAt(text, b) = Comma
          /\ CharAt(text, c) = Comma /\ CharAt(text, d) = Comma
      BY <1>1, <1>23, <1>24
    <2>2. /\ Stands(text, c + Len(rssiSign), rssi) /\ Stands(text, d + Len(snrSign), snr)
          /\ Stands(text, e - 1, decimal)
      BY <1>12, <1>13, <1>16, <1>24
    <2> QED BY <1>14, <1>17, <1>19, <1>21, <1>22, <2>1, <2>2
  <1> HIDE DEF a, b, c, d, e
  <1> QED BY <1>11, <1>24, <1>25, Zenon DEF LaidOut
-----------------------------------------------------------------------------
(* The numbers of a report. *)
LEMMA HalfIs == I16Half \in Nat /\ 10000 < I16Half /\ I16Half < 100000
  BY ONLY SMT DEF I16Half

LEMMA FitsI16 ==
  ASSUME NEW v \in Int, 0 - I16Half <= v, v < I16Half
  PROVE  AsI16(v) = v
  <1>1. I16Half \in Nat
    BY HalfIs
  <1>2. v + I16Half \in Nat /\ v + I16Half < 2 * I16Half
    BY <1>1
  <1>3. (v + I16Half) % (2 * I16Half) = v + I16Half
    <2> DEFINE k == v + I16Half
               m == 2 * I16Half
    <2>1. k \in Nat /\ m \in Nat \ {0} /\ k < m
      BY <1>1, <1>2
    <2> HIDE DEF k, m
    <2>2. k % m = k
      BY ONLY <2>1, SMT
    <2> QED BY <2>2 DEF k, m
  <1> QED BY <1>1, <1>3 DEF AsI16

LEMMA SignedBack == ASSUME NEW v \in Int PROVE Signed(v < 0, Magnitude(v)) = v
  BY DEF Signed, Magnitude

LEMMA MagnitudeIs ==
  ASSUME NEW v \in Int
  PROVE  Magnitude(v) \in Nat /\ (v < 0 => v = 0 - Magnitude(v)) /\ (v >= 0 => v = Magnitude(v))
  BY DEF Magnitude

(* An SNR's whole part and its tenth. *)
LEMMA Snr10Back ==
  ASSUME NEW v \in Int, NEW whole, whole = Magnitude(v) \div 10,
         NEW tenth, tenth = Magnitude(v) % 10
  PROVE  /\ whole \in Nat /\ tenth \in 0 .. 9 /\ Magnitude(v) = 10 * whole + tenth
         /\ Snr10(v < 0, whole, tenth) = v
         /\ v % 10 = 0 => tenth = 0
  <1> DEFINE m == Magnitude(v)
  <1>1. m \in Nat /\ (v < 0 => v = 0 - m) /\ (v >= 0 => v = m)
    BY MagnitudeIs
  <1>2. whole \in Nat /\ tenth \in 0 .. 9 /\ m = 10 * whole + tenth
    BY <1>1, TensAndOnes
  <1>3. Snr10(v < 0, whole, tenth) = Signed(v < 0, m)
    BY <1>2 DEF Snr10
  <1>4. v % 10 = 0 => tenth = 0
    <2> HIDE DEF m
    <2> DEFINE q == v \div 10
               k == v % 10
    <2>1. q \in Int /\ v = 10 * q + k
      OBVIOUS
    <2> HIDE DEF q, k
    <2> SUFFICES ASSUME k = 0 PROVE tenth = 0
      BY DEF k
    <2>2. v = 10 * q
      BY <2>1
    <2>3. CASE v < 0
      <3>1. 10 * (whole + q) + tenth = 0
        BY <1>1, <1>2, <2>1, <2>2, <2>3
      <3> QED BY ONLY <1>2, <2>1, <3>1
    <2>4. CASE v >= 0
      <3>1. 10 * (whole - q) + tenth = 0
        BY <1>1, <1>2, <2>1, <2>2, <2>4
      <3> QED BY ONLY <1>2, <2>1, <3>1
    <2> QED BY <2>3, <2>4
  <1> QED BY <1>2, <1>3, <1>4, SignedBack

LEMMA Snr10Parts ==
  ASSUME NEW v \in Int
  PROVE  /\ Magnitude(v) \div 10 \in Nat /\ Magnitude(v) % 10 \in 0 .. 9
         /\ Magnitude(v) = 10 * (Magnitude(v) \div 10) + (Magnitude(v) % 10)
         /\ Snr10(v < 0, Magnitude(v) \div 10, Magnitude(v) % 10) = v
         /\ v % 10 = 0 => Magnitude(v) % 10 = 0
  <1> DEFINE whole == Magnitude(v) \div 10
             tenth == Magnitude(v) % 10
  <1>1. whole = Magnitude(v) \div 10 /\ tenth = Magnitude(v) % 10
    OBVIOUS
  <1> HIDE DEF whole, tenth
  <1>2. /\ whole \in Nat /\ tenth \in 0 .. 9 /\ Magnitude(v) = 10 * whole + tenth
        /\ Snr10(v < 0, whole, tenth) = v
        /\ v % 10 = 0 => tenth = 0
    BY ONLY v \in Int, <1>1, Snr10Back, Zenon
  <1> QED BY ONLY <1>2 DEF whole, tenth

(* The digits of a report's numbers are as many as parseRcv reads. *)
LEMMA ReportNumbers ==
  ASSUME NEW r \in Reports
  PROVE  /\ r.addr \in Nat /\ Len(DecimalDigits[r.addr]) \in 1 .. 8
         /\ r.data \in Seq(Char) /\ Len(r.data) \in 0 .. 100
         /\ Len(DecimalDigits[Len(r.data)]) \in 1 .. 3
         /\ r.rssi \in Int /\ Magnitude(r.rssi) \in Nat
         /\ Len(DecimalDigits[Magnitude(r.rssi)]) \in 1 .. 3
         /\ AsI16(r.rssi) = r.rssi /\ AsI16(10 * r.rssi) = 10 * r.rssi
         /\ r.snr10 \in Int /\ Magnitude(r.snr10) \in Nat
         /\ Magnitude(r.snr10) \div 10 \in Nat
         /\ Len(DecimalDigits[Magnitude(r.snr10) \div 10]) \in 1 .. 4
         /\ AsI16(r.snr10) = r.snr10
  <1> DEFINE addr == r.addr
             n == Len(r.data)
             rssi == r.rssi
             snr10 == r.snr10
             m == Magnitude(snr10)
             whole == m \div 10
             tenth == m % 10
  <1>0. /\ addr \in Nat /\ Len(DecimalDigits[addr]) <= 8
        /\ r.data \in Seq(Char) /\ n <= 100
        /\ rssi \in Int /\ Magnitude(rssi) <= 999
        /\ snr10 \in Int /\ m < I16Half
    BY ONLY r \in Reports, ReportsAssumption
  <1>01. n \in Nat
    BY <1>0
  <1>3. whole \in Nat /\ tenth \in 0 .. 9 /\ m = 10 * whole + tenth
    <2>1. snr10 \in Int
      BY ONLY <1>0
    <2> QED BY ONLY <2>1, Snr10Parts, Zenon
  <1> HIDE DEF addr, n, rssi, snr10, m, whole, tenth
  <1>02. n \in 0 .. 100
    BY ONLY <1>0, <1>01
  <1>2. m \in Nat /\ (snr10 < 0 => snr10 = 0 - m) /\ (snr10 >= 0 => snr10 = m)
    BY ONLY <1>0, MagnitudeIs DEF m
  <1>21. /\ Magnitude(rssi) \in Nat /\ (rssi < 0 => rssi = 0 - Magnitude(rssi))
         /\ (rssi >= 0 => rssi = Magnitude(rssi))
    BY ONLY <1>0, MagnitudeIs
  <1>22. 0 - 999 <= rssi /\ rssi <= 999
    <2> DEFINE k == Magnitude(rssi)
    <2>1. /\ k \in Nat /\ k <= 999 /\ rssi \in Int /\ (rssi < 0 => rssi = 0 - k)
          /\ (rssi >= 0 => rssi = k)
      BY <1>0, <1>21
    <2> HIDE DEF k
    <2> QED BY ONLY <2>1
  <1>23. 0 - I16Half <= snr10 /\ snr10 < I16Half
    BY ONLY <1>0, <1>2, HalfIs
  <1>1. /\ addr \in Nat /\ Len(DecimalDigits[addr]) <= 8
        /\ r.data \in Seq(Char) /\ n \in 0 .. 100
        /\ rssi \in Int /\ 0 - 999 <= rssi /\ rssi <= 999
        /\ snr10 \in Int /\ 0 - I16Half <= snr10 /\ snr10 < I16Half /\ m < I16Half
    BY ONLY <1>0, <1>02, <1>22, <1>23
  <1>4. n \in Nat /\ n < Pow10[3]
    BY <1>1, Pow10Small
  <1>5. Magnitude(rssi) \in Nat /\ Magnitude(rssi) < Pow10[3]
    <2>1. Magnitude(rssi) \in Nat /\ Magnitude(rssi) < 1000
      BY <1>1, MagnitudeIs
    <2> QED BY <2>1, Pow10Small
  <1>6. whole < Pow10[4]
    <2>1. m < 100000
      BY <1>1, <1>2, HalfIs
    <2>2. whole < 10000
      BY ONLY <1>2, <1>3, <2>1
    <2> QED BY <2>2, Pow10Small
  <1>7. ASSUME NEW v \in Nat, NEW k \in Nat \ {0}, v < Pow10[k]
        PROVE  Len(DecimalDigits[v]) \in 1 .. k
    <2>1. Len(DecimalDigits[v]) <= k /\ Len(DecimalDigits[v]) \in Nat \ {0}
      BY <1>7, DecimalLength, DecimalShows
    <2> QED BY <2>1
  <1>8. 4 \in Nat \ {0} /\ 3 \in Nat \ {0}
    OBVIOUS
  <1>9. /\ Len(DecimalDigits[n]) \in 1 .. 3 /\ Len(DecimalDigits[Magnitude(rssi)]) \in 1 .. 3
        /\ Len(DecimalDigits[whole]) \in 1 .. 4
    BY ONLY <1>3, <1>4, <1>5, <1>6, <1>7, <1>8
  <1>10. Len(DecimalDigits[addr]) \in 1 .. 8
    <2> DEFINE len == Len(DecimalDigits[addr])
    <2>1. len \in Nat \ {0} /\ len <= 8
      BY <1>1, DecimalShows
    <2> HIDE DEF len
    <2>2. len \in 1 .. 8
      BY ONLY <2>1
    <2> QED BY <2>2 DEF len
  <1>11. AsI16(rssi) = rssi
    BY <1>1, HalfIs, FitsI16
  <1>12. AsI16(10 * rssi) = 10 * rssi
    <2> DEFINE t == 10 * rssi
    <2>1. t \in Int /\ 0 - 9990 <= t /\ t <= 9990
      BY <1>1
    <2> HIDE DEF t
    <2>2. 0 - I16Half <= t /\ t < I16Half
      BY ONLY <2>1, HalfIs
    <2>3. AsI16(t) = t
      BY ONLY <2>1, <2>2, FitsI16, SMTT(40)
    <2> QED BY <2>3 DEF t
  <1>13. AsI16(snr10) = snr10
    BY <1>1, HalfIs, FitsI16, SMTT(40)
  <1> QED BY ONLY <1>1, <1>2, <1>3, <1>5, <1>9, <1>10, <1>11, <1>12, <1>13, ZenonT(60)
         DEF addr, n, rssi, snr10, m, whole

-----------------------------------------------------------------------------
(* The parts of a part of a text stand where they are. *)
LEMMA StandsSplit ==
  ASSUME NEW text \in Seq(Int), NEW p \in Nat, NEW s \in Seq(Int), NEW m \in 0 .. Len(s),
         Stands(text, p, s)
  PROVE  /\ Stands(text, p, SubSeq(s, 1, m))
         /\ Stands(text, p + m, SubSeq(s, m + 1, Len(s)))
  <1> DEFINE h == SubSeq(s, 1, m)
             t == SubSeq(s, m + 1, Len(s))
  <1>1. /\ Len(h) = m /\ \A i \in 1 .. m : h[i] = s[i]
        /\ Len(t) = Len(s) - m /\ \A i \in 1 .. (Len(s) - m) : t[i] = s[m + i]
    <2>1. Len(h) = m /\ Len(t) = Len(s) - m
      BY SplitAt
    <2>2. \A i \in 1 .. m : h[i] = s[i]
      BY SplitAt
    <2>3. \A i \in 1 .. (Len(s) - m) : t[i] = s[m + i]
      BY SplitAt
    <2> QED BY <2>1, <2>2, <2>3, Zenon
  <1>2. \A i \in 1 .. Len(s) : p + i <= Len(text) /\ text[p + i] = s[i]
    BY DEF Stands
  <1> HIDE DEF h, t
  <1>3. ASSUME NEW i \in 1 .. Len(h) PROVE p + i <= Len(text) /\ text[p + i] = h[i]
    <2>1. i \in 1 .. Len(s) /\ h[i] = s[i]
      BY <1>1
    <2>2. p + i <= Len(text) /\ text[p + i] = s[i]
      BY <1>2, <2>1
    <2> QED BY ONLY <2>1, <2>2
  <1>4. ASSUME NEW i \in 1 .. Len(t)
        PROVE  (p + m) + i <= Len(text) /\ text[(p + m) + i] = t[i]
    <2>1. m + i \in 1 .. Len(s) /\ p + (m + i) = (p + m) + i /\ t[i] = s[m + i]
      BY <1>1
    <2>2. p + (m + i) <= Len(text) /\ text[p + (m + i)] = s[m + i]
      BY <1>2, <2>1
    <2> QED BY ONLY <2>1, <2>2
  <1>5. Stands(text, p, h) /\ Stands(text, p + m, t)
    BY <1>3, <1>4 DEF Stands
  <1> QED BY <1>5 DEF h, t

(* The first comma of a text and what is before it. *)
LEMMA FirstComma ==
  ASSUME NEW data \in Seq(Char), NEW c, c = FirstIn(data, Comma, 1, Len(data))
  PROVE  \/ c = 0 /\ \A i \in 1 .. Len(data) : data[i] # Comma
         \/ /\ c \in 1 .. Len(data) /\ data[c] = Comma
            /\ \A i \in 1 .. (c - 1) : data[i] # Comma
  <1> DEFINE n == Len(data)
  <1>1. n \in Nat /\ 1 \in Nat \ {0} /\ \A i \in 1 .. n : CharAt(data, i) = data[i]
    BY DEF CharAt
  <1>2. \/ c = 0 /\ \A i \in 1 .. n : CharAt(data, i) # Comma
        \/ /\ c \in 1 .. n /\ CharAt(data, c) = Comma
           /\ \A i \in 1 .. (c - 1) : CharAt(data, i) # Comma
    BY <1>1, FirstInFound
  <1> HIDE DEF n
  <1>3. CASE c = 0
    <2>1. \A i \in 1 .. n : CharAt(data, i) # Comma
      BY <1>1, <1>2, <1>3
    <2> QED BY <1>1, <1>3, <2>1 DEF n
  <1>4. CASE c # 0
    <2>1. /\ c \in 1 .. n /\ CharAt(data, c) = Comma
          /\ \A i \in 1 .. (c - 1) : CharAt(data, i) # Comma
      BY <1>2, <1>4
    <2>2. \A i \in 1 .. (c - 1) : i \in 1 .. n
      BY <1>1, <2>1
    <2> QED BY <1>1, <2>1, <2>2 DEF n
  <1> QED BY <1>3, <1>4

(* A report whose data has no comma, and one whose data ends in a number   *)
(* behind its first comma.                                                 *)
LEMMA ReportReads ==
  ASSUME NEW r \in Reports
  PROVE  LET got == RcvFields(ReportText(r))
             comma == FirstIn(r.data, Comma, 1, Len(r.data))
             tail == SubSeq(r.data, comma + 1, Len(r.data))
         IN  IF comma = 0 THEN got = [ok |-> TRUE, rssi |-> r.rssi, snr10 |-> r.snr10]
             ELSE (Len(tail) \in 1 .. 6 /\ \A i \in 1 .. Len(tail) : IsDigit(tail[i]))
                    => got = [ok |-> TRUE, rssi |-> AsI16(Number(tail)),
                              snr10 |-> 10 * r.rssi]
  <1> DEFINE text == ReportText(r)
             data == r.data
             rssi == r.rssi
             snr10 == r.snr10
             m == Magnitude(rssi)
             whole == Magnitude(snr10) \div 10
             tenth == Magnitude(snr10) % 10
             A == DecimalDigits[r.addr]
             L == DecimalDigits[Len(data)]
             X == SignText(rssi)
             R == DecimalDigits[m]
             Y == SignText(snr10)
             S == DecimalDigits[whole]
             E == IF snr10 % 10 = 0 THEN <<>> ELSE <<Dot, tenth>>
             comma == FirstIn(data, Comma, 1, Len(data))
             tail == SubSeq(data, comma + 1, Len(data))
  <1>1. /\ r.addr \in Nat /\ Len(A) \in 1 .. 8
        /\ data \in Seq(Char) /\ Len(data) \in 0 .. 100 /\ Len(L) \in 1 .. 3
        /\ rssi \in Int /\ m \in Nat /\ Len(R) \in 1 .. 3
        /\ AsI16(rssi) = rssi /\ AsI16(10 * rssi) = 10 * rssi
        /\ snr10 \in Int /\ whole \in Nat /\ Len(S) \in 1 .. 4 /\ AsI16(snr10) = snr10
    BY ONLY r \in Reports, ReportNumbers, ZenonT(60)
  <1>2. /\ A \in Seq(0 .. 9) /\ L \in Seq(0 .. 9)
        /\ R \in Seq(0 .. 9) /\ Number(R) = m
        /\ S \in Seq(0 .. 9) /\ Number(S) = whole
    <2>1. Len(data) \in Nat
      BY <1>1
    <2>2. A \in Seq(0 .. 9)
      BY ONLY <1>1, DecimalShows, ZenonT(60)
    <2>3. L \in Seq(0 .. 9)
      BY ONLY <2>1, DecimalShows, ZenonT(60)
    <2>4. R \in Seq(0 .. 9) /\ Number(R) = m
      BY ONLY <1>1, DecimalShows, ZenonT(60)
    <2>5. S \in Seq(0 .. 9) /\ Number(S) = whole
      BY ONLY <1>1, DecimalShows, ZenonT(60)
    <2> QED BY ONLY <2>2, <2>3, <2>4, <2>5
  <1>3. tenth \in 0 .. 9 /\ Snr10(snr10 < 0, whole, tenth) = snr10
        /\ (snr10 % 10 = 0 => tenth = 0)
    <2>1. snr10 \in Int
      BY <1>1, Zenon
    <2> QED BY ONLY <2>1, Snr10Parts, Zenon
  <1>4. text = A \o <<Comma>> \o L \o <<Comma>> \o data \o <<Comma>>
                  \o X \o R \o <<Comma>> \o Y \o S \o E
    BY DEF ReportText
  <1>5. Signed(rssi < 0, m) = rssi /\ Snr10(rssi < 0, m, 0) = 10 * rssi
    <2>1. Signed(rssi < 0, m) = rssi
      BY <1>1, SignedBack
    <2>2. Snr10(rssi < 0, m, 0) = 10 * rssi
      <3>1. rssi \in Int /\ m \in Nat
        BY ONLY <1>1
      <3>2. (rssi < 0 => rssi = 0 - m) /\ (rssi >= 0 => rssi = m)
        BY ONLY <3>1, MagnitudeIs, Zenon
      <3> HIDE DEF rssi, m
      <3> QED BY ONLY <3>1, <3>2 DEF Snr10, Signed
    <2> QED BY <2>1, <2>2
  <1> HIDE DEF text, data, rssi, snr10, m, whole, tenth, A, L, R, S
  <1>6. X \in Seq(Int) /\ Y \in Seq(Int) /\ E \in Seq(Int)
    BY <1>3 DEF SignText, Minus, Dot
  <1>7. /\ A \in Seq(Int) /\ L \in Seq(Int) /\ R \in Seq(Int) /\ S \in Seq(Int)
        /\ data \in Seq(Int)
    <2>1. Char \subseteq Int /\ 0 .. 9 \subseteq Int
      BY DEF Char
    <2> QED BY <1>1, <1>2, <2>1, SeqMono
  <1> HIDE DEF X, Y, E
  <1>8. PICK addrEnd \in Nat, lenEnd \in Nat, dataEnd \in Nat, rssiEnd \in Nat,
             point \in Nat :
           /\ text \in Seq(Int)
           /\ addrEnd = Len(A) + 1 /\ lenEnd = addrEnd + Len(L) + 1
           /\ dataEnd = lenEnd + Len(data) + 1
           /\ rssiEnd = dataEnd + Len(X) + Len(R) + 1
           /\ point = rssiEnd + Len(Y) + Len(S) + 1
           /\ Len(text) = point - 1 + Len(E)
           /\ Stands(text, 0, A) /\ CharAt(text, addrEnd) = Comma
           /\ Stands(text, addrEnd, L) /\ CharAt(text, lenEnd) = Comma
           /\ Stands(text, lenEnd, data) /\ CharAt(text, dataEnd) = Comma
           /\ Stands(text, dataEnd, X) /\ Stands(text, dataEnd + Len(X), R)
           /\ CharAt(text, rssiEnd) = Comma
           /\ Stands(text, rssiEnd, Y) /\ Stands(text, rssiEnd + Len(Y), S)
           /\ Stands(text, point - 1, E)
    <2>1. LaidOut(text, A, L, data, X, R, Y, S, E)
      BY ONLY <1>4, <1>6, <1>7, ReportLayout
    <2> QED BY ONLY <2>1, Zenon DEF LaidOut
  <1>9. /\ Len(A) \in Nat /\ Len(L) \in Nat /\ Len(R) \in Nat /\ Len(S) \in Nat
        /\ Len(X) \in Nat /\ Len(Y) \in Nat /\ Len(E) \in Nat /\ Len(data) \in Nat
    BY <1>6, <1>7
  <1>91. /\ addrEnd \in Nat /\ lenEnd \in Nat /\ dataEnd \in Nat
         /\ rssiEnd \in Nat /\ point \in Nat
         /\ addrEnd = Len(A) + 1 /\ lenEnd = addrEnd + Len(L) + 1
         /\ dataEnd = lenEnd + Len(data) + 1
         /\ rssiEnd = dataEnd + Len(X) + Len(R) + 1
         /\ point = rssiEnd + Len(Y) + Len(S) + 1
         /\ Len(text) = point - 1 + Len(E)
    BY <1>8, Zenon
  <1>92. /\ text \in Seq(Int)
         /\ Stands(text, 0, A) /\ CharAt(text, addrEnd) = Comma
         /\ Stands(text, addrEnd, L) /\ CharAt(text, lenEnd) = Comma
         /\ Stands(text, lenEnd, data) /\ CharAt(text, dataEnd) = Comma
         /\ Stands(text, dataEnd, X) /\ Stands(text, dataEnd + Len(X), R)
         /\ CharAt(text, rssiEnd) = Comma
         /\ Stands(text, rssiEnd, Y) /\ Stands(text, rssiEnd + Len(Y), S)
         /\ Stands(text, point - 1, E)
    BY <1>8, Zenon
  <1>93. /\ Len(A) <= 8 /\ Len(L) <= 4 /\ Len(data) <= 100
         /\ Len(R) \in 1 .. 6 /\ Len(R) <= 4 /\ Len(S) \in 1 .. 4
    <2>1. /\ Len(A) \in 1 .. 8 /\ Len(L) \in 1 .. 3 /\ Len(data) \in 0 .. 100
          /\ Len(R) \in 1 .. 3 /\ Len(S) \in 1 .. 4
      BY <1>1, Zenon
    <2>2. /\ \A x \in 1 .. 8 : x <= 8
          /\ \A x \in 1 .. 3 : x <= 4 /\ x \in 1 .. 6
          /\ \A x \in 0 .. 100 : x <= 100
      BY ONLY SMT
    <2> QED BY ONLY <2>1, <2>2, Zenon
  <1>10. FieldEnd(text, 1, 8) = addrEnd
    <2>1. \A i \in 1 .. Len(A) : A[i] # Comma
      BY <1>2, NoComma, Zenon
    <2>2. 0 + Len(A) + 1 = addrEnd /\ 0 + 1 = 1 /\ 0 \in Nat /\ 8 \in Nat
      BY ONLY <1>9, <1>91
    <2>3. CharAt(text, 0 + Len(A) + 1) = Comma /\ Len(A) <= 8
      BY <1>92, <1>93, <2>2, Zenon
    <2>4. A \in Seq(Int) /\ text \in Seq(Int) /\ Stands(text, 0, A)
      BY <1>7, <1>92, Zenon
    <2>5. FieldEnd(text, 0 + 1, 8) = 0 + Len(A) + 1
      BY ONLY <2>1, <2>2, <2>3, <2>4, FieldEnds
    <2> QED BY ONLY <2>2, <2>5
  <1>11. FieldEnd(text, addrEnd + 1, 4) = lenEnd
    <2>1. \A i \in 1 .. Len(L) : L[i] # Comma
      BY <1>2, NoComma, Zenon
    <2>2. addrEnd + Len(L) + 1 = lenEnd /\ addrEnd \in Nat /\ 4 \in Nat
      BY ONLY <1>9, <1>91
    <2>3. CharAt(text, addrEnd + Len(L) + 1) = Comma /\ Len(L) <= 4
      BY <1>92, <1>93, <2>2, Zenon
    <2>4. L \in Seq(Int) /\ text \in Seq(Int) /\ Stands(text, addrEnd, L)
      BY <1>7, <1>92, Zenon
    <2>5. FieldEnd(text, addrEnd + 1, 4) = addrEnd + Len(L) + 1
      BY ONLY <2>1, <2>2, <2>3, <2>4, FieldEnds
    <2> QED BY ONLY <2>2, <2>5
  <1>12. /\ ~ IsDigit(CharAt(text, point))
         /\ (IF CharAt(text, point) = Dot /\ IsDigit(CharAt(text, point + 1))
             THEN text[point + 1] ELSE 0) = tenth
    <2>1. CASE snr10 % 10 = 0
      <3>1. E = <<>> /\ tenth = 0
        BY <1>3, <2>1 DEF E
      <3>2. ~ (point <= Len(text))
        BY <1>8, <3>1
      <3>3. CharAt(text, point) = Nul
        BY <3>2 DEF CharAt
      <3>4. ~ IsDigit(Nul) /\ Nul # Dot
        BY DEF IsDigit, Nul, Dot
      <3> QED BY <3>1, <3>3, <3>4, Zenon
    <2>2. CASE snr10 % 10 # 0
      <3>1. E = <<Dot, tenth>>
        BY <2>2 DEF E
      <3>2. Len(E) = 2 /\ E[1] = Dot /\ E[2] = tenth /\ 1 \in 1 .. Len(E) /\ 2 \in 1 .. Len(E)
        BY <3>1
      <3>3. /\ (point - 1) + 1 <= Len(text) /\ text[(point - 1) + 1] = E[1]
            /\ (point - 1) + 2 <= Len(text) /\ text[(point - 1) + 2] = E[2]
        BY <1>8, <3>2 DEF Stands
      <3>4. (point - 1) + 1 = point /\ (point - 1) + 2 = point + 1
        BY <1>8
      <3>5. CharAt(text, point) = Dot /\ CharAt(text, point + 1) = tenth
            /\ text[point + 1] = tenth
        BY ONLY <3>2, <3>3, <3>4 DEF CharAt
      <3>6. ~ IsDigit(Dot) /\ IsDigit(tenth)
        BY <1>3 DEF IsDigit, Dot
      <3> QED BY <3>5, <3>6, Zenon
    <2> QED BY <2>1, <2>2
  <1>13. \/ comma = 0 /\ \A i \in 1 .. Len(data) : data[i] # Comma
         \/ /\ comma \in 1 .. Len(data) /\ data[comma] = Comma
            /\ \A i \in 1 .. (comma - 1) : data[i] # Comma
    BY <1>1, FirstComma
  <1> HIDE DEF comma
  <1>14. CASE comma = 0
    <2>1. \A i \in 1 .. Len(data) : data[i] # Comma
      BY <1>9, <1>13, <1>14
    <2>2. lenEnd + Len(data) + 1 = dataEnd /\ lenEnd \in Nat /\ 100 \in Nat
      BY ONLY <1>9, <1>91
    <2>3. FieldEnd(text, lenEnd + 1, 100) = dataEnd
      <3>1. CharAt(text, lenEnd + Len(data) + 1) = Comma /\ Len(data) <= 100
        BY <1>92, <1>93, <2>2, Zenon
      <3>2. data \in Seq(Int) /\ text \in Seq(Int) /\ Stands(text, lenEnd, data)
        BY <1>7, <1>92, Zenon
      <3>3. FieldEnd(text, lenEnd + 1, 100) = lenEnd + Len(data) + 1
        BY ONLY <2>1, <2>2, <3>1, <3>2, FieldEnds
      <3> QED BY ONLY <2>2, <3>3
    <2> DEFINE at == dataEnd + Len(X) + 1
               then == rssiEnd + Len(Y) + 1
    <2>4. /\ at \in Nat /\ then \in Nat /\ rssiEnd = at + Len(R) /\ point = then + Len(S)
          /\ addrEnd \in Nat \ {0} /\ lenEnd \in Nat \ {0} /\ dataEnd \in Nat \ {0}
      <3>1. /\ Len(A) \in Nat /\ Len(L) \in Nat /\ Len(R) \in Nat /\ Len(S) \in Nat
            /\ Len(X) \in Nat /\ Len(Y) \in Nat /\ Len(data) \in Nat
        BY ONLY <1>9, Zenon
      <3>2. addrEnd = Len(A) + 1 /\ lenEnd = addrEnd + Len(L) + 1
            /\ dataEnd = lenEnd + Len(data) + 1
        BY ONLY <1>91, Zenon
      <3>3. addrEnd \in Nat \ {0} /\ lenEnd \in Nat \ {0} /\ dataEnd \in Nat \ {0}
        BY ONLY <3>1, <3>2
      <3>4. rssiEnd = dataEnd + Len(X) + Len(R) + 1 /\ rssiEnd \in Nat
            /\ point = rssiEnd + Len(Y) + Len(S) + 1
        BY ONLY <1>91, Zenon
      <3>5. at \in Nat /\ rssiEnd = at + Len(R)
        BY ONLY <3>1, <3>3, <3>4 DEF at
      <3>6. then \in Nat /\ point = then + Len(S)
        BY ONLY <3>1, <3>3, <3>4 DEF then
      <3> QED BY ONLY <3>3, <3>5, <3>6, Zenon
    <2> HIDE DEF at, then
    <2>5. /\ Stands(text, dataEnd, X) /\ Stands(text, dataEnd + Len(X), R)
          /\ Stands(text, rssiEnd, Y) /\ Stands(text, rssiEnd + Len(Y), S)
          /\ CharAt(text, rssiEnd) = Comma /\ ~ IsDigit(CharAt(text, point))
      BY <1>12, <1>92, Zenon
    <2>6. /\ at = dataEnd + Len(SignText(rssi)) + 1
          /\ then = rssiEnd + Len(SignText(snr10)) + 1
          /\ Stands(text, dataEnd, SignText(rssi)) /\ Stands(text, dataEnd + Len(SignText(rssi)), R)
          /\ Stands(text, rssiEnd, SignText(snr10))
          /\ Stands(text, rssiEnd + Len(SignText(snr10)), S)
      BY <2>5 DEF X, Y, at, then
    <2>7. RcvFields(text) =
            [ok |-> TRUE, rssi |-> AsI16(Signed(rssi < 0, Number(R))),
             snr10 |-> AsI16(Snr10(snr10 < 0, Number(S),
                         IF CharAt(text, point) = Dot /\ IsDigit(CharAt(text, point + 1))
                         THEN text[point + 1] ELSE 0))]
      <3>1. /\ text \in Seq(Int) /\ rssi \in Int /\ snr10 \in Int
            /\ R \in Seq(0 .. 9) /\ S \in Seq(0 .. 9) /\ rssiEnd \in Nat /\ point \in Nat
            /\ Len(R) \in 1 .. 6 /\ Len(S) \in 1 .. 4
        BY <1>1, <1>2, <1>91, <1>92, <1>93, Zenon
      <3>2. RcvParts(text, addrEnd, lenEnd, dataEnd, rssi, R, at, rssiEnd, snr10, S,
                     then, point)
        BY ONLY <1>10, <1>11, <2>3, <2>4, <2>5, <2>6, <3>1, Zenon DEF RcvParts
      <3>3. RcvFields(text) = RcvReading(text, rssi, R, snr10, S, point)
        BY ONLY <3>2, RcvReads
      <3> QED BY ONLY <3>3, Zenon DEF RcvReading
    <2>8. RcvFields(text) =
            [ok |-> TRUE, rssi |-> AsI16(Signed(rssi < 0, m)),
             snr10 |-> AsI16(Snr10(snr10 < 0, whole, tenth))]
      BY ONLY <1>2, <1>12, <2>7, Zenon
    <2>9. RcvFields(text) = [ok |-> TRUE, rssi |-> rssi, snr10 |-> snr10]
      BY ONLY <1>1, <1>3, <1>5, <2>8, Zenon
    <2> QED BY <1>14, <2>9 DEF text, rssi, snr10, data, comma
  <1>15. CASE comma # 0
    <2>0. SUFFICES ASSUME Len(tail) \in 1 .. 6, \A i \in 1 .. Len(tail) : IsDigit(tail[i])
                   PROVE  RcvFields(text) = [ok |-> TRUE, rssi |-> AsI16(Number(tail)),
                                             snr10 |-> 10 * rssi]
      BY <1>15 DEF text, rssi, data, comma, tail
    <2>1. /\ comma \in 1 .. Len(data) /\ data[comma] = Comma
          /\ \A i \in 1 .. (comma - 1) : data[i] # Comma
      BY <1>13, <1>15, Zenon
    <2> DEFINE before == comma - 1
               cut == lenEnd + comma
    <2>2. /\ comma \in 0 .. Len(data) /\ before \in 0 .. Len(data) /\ before + 1 = comma
          /\ comma \in Nat /\ before <= 100 /\ before \in Nat /\ cut \in Nat \ {0}
          /\ cut = lenEnd + before + 1 /\ Len(data) - comma \in Nat
          /\ addrEnd \in Nat \ {0} /\ lenEnd \in Nat \ {0} /\ 100 \in Nat
      <3>1. comma \in Int /\ 1 <= comma /\ comma <= Len(data)
        BY ONLY <2>1
      <3>2. Len(data) \in Nat /\ Len(data) <= 100 /\ Len(A) \in Nat /\ Len(L) \in Nat
        BY ONLY <1>9, <1>93, Zenon
      <3>3. addrEnd = Len(A) + 1 /\ lenEnd = addrEnd + Len(L) + 1
        BY ONLY <1>91, Zenon
      <3>4. addrEnd \in Nat \ {0} /\ lenEnd \in Nat \ {0}
        BY ONLY <3>2, <3>3
      <3> QED BY ONLY <3>1, <3>2, <3>4
    <2>3. \A i \in 1 .. before : data[i] # Comma
      BY ONLY <2>1
    <2>4. cut <= Len(text) /\ CharAt(text, cut) = Comma
      <3>1. lenEnd + comma <= Len(text) /\ text[lenEnd + comma] = data[comma]
        BY ONLY <1>92, <2>1 DEF Stands
      <3> QED BY ONLY <2>1, <3>1 DEF CharAt
    <2> HIDE DEF before
    <2> DEFINE head == SubSeq(data, 1, before)
    <2>5. /\ head \in Seq(Int) /\ Len(head) = before /\ Stands(text, lenEnd, head)
          /\ \A i \in 1 .. Len(head) : head[i] # Comma
      <3>1. /\ head \in Seq(Int) /\ Len(head) = before
            /\ \A i \in 1 .. before : head[i] = data[i]
        BY ONLY <1>7, <2>2, SplitAt, SMTT(40)
      <3>2. Stands(text, lenEnd, head)
        BY ONLY <1>7, <1>91, <1>92, <2>2, StandsSplit
      <3> HIDE DEF head
      <3> QED BY ONLY <2>3, <3>1, <3>2
    <2>6. /\ tail \in Seq(Int) /\ Len(tail) = Len(data) - comma /\ Stands(text, cut, tail)
      <3>1. SubSeq(data, comma + 1, Len(data)) \in Seq(Int)
            /\ Len(SubSeq(data, comma + 1, Len(data))) = Len(data) - comma
        BY ONLY <1>7, <2>2, SplitAt, SMTT(40)
      <3>2. Stands(text, lenEnd + comma, SubSeq(data, comma + 1, Len(data)))
        BY ONLY <1>7, <1>91, <1>92, <2>2, StandsSplit
      <3> QED BY ONLY <3>1, <3>2 DEF tail, cut
    <2> HIDE DEF head, cut, tail
    <2>7. tail \in Seq(0 .. 9)
      BY <2>0, <2>6, DigitsAre
    <2>8. FieldEnd(text, lenEnd + 1, 100) = cut
      <3>1. CharAt(text, lenEnd + Len(head) + 1) = Comma /\ Len(head) <= 100
        BY ONLY <2>2, <2>4, <2>5
      <3>2. FieldEnd(text, lenEnd + 1, 100) = lenEnd + Len(head) + 1
        <4>1. /\ text \in Seq(Int) /\ lenEnd \in Nat /\ head \in Seq(Int) /\ 100 \in Nat
              /\ Len(head) <= 100 /\ \A i \in 1 .. Len(head) : head[i] # Comma
              /\ Stands(text, lenEnd, head) /\ CharAt(text, lenEnd + Len(head) + 1) = Comma
          BY ONLY <1>91, <1>92, <2>2, <2>5, <3>1, Zenon
        <4> QED BY ONLY <4>1, FieldEnds
      <3> QED BY ONLY <2>2, <2>5, <3>2
    <2>9. /\ SignText(0) = <<>> /\ Len(<<>>) = 0 /\ Stands(text, cut, SignText(0))
          /\ ~ (0 < 0)
      BY DEF SignText, Stands
    <2> DEFINE at == cut + Len(SignText(0)) + 1
               then == dataEnd + Len(X) + 1
    <2>10. /\ at \in Nat /\ then \in Nat /\ dataEnd = at + Len(tail)
           /\ rssiEnd = then + Len(R) /\ cut + Len(SignText(0)) = cut
      <3>1. at = cut + 1 /\ cut + Len(SignText(0)) = cut
        BY <2>2, <2>9
      <3>2. cut = lenEnd + comma
        BY DEF cut
      <3> HIDE DEF at
      <3>3. /\ Len(X) \in Nat /\ Len(R) \in Nat /\ Len(data) - comma \in Nat
            /\ cut \in Nat /\ Len(tail) = Len(data) - comma /\ lenEnd \in Nat
            /\ Len(data) \in Nat /\ comma \in Nat
        BY ONLY <1>9, <1>91, <2>2, <2>6, Zenon
      <3>4. dataEnd = lenEnd + Len(data) + 1 /\ rssiEnd = dataEnd + Len(X) + Len(R) + 1
        BY ONLY <1>91, Zenon
      <3>5. dataEnd = at + Len(tail) /\ at \in Nat
        BY ONLY <3>1, <3>2, <3>3, <3>4
      <3>6. then \in Nat /\ rssiEnd = then + Len(R)
        BY ONLY <3>3, <3>4 DEF then
      <3> QED BY ONLY <3>1, <3>5, <3>6
    <2>11. Stands(text, cut + Len(SignText(0)), tail)
      BY <2>6, <2>10, Zenon
    <2>12. CharAt(text, rssiEnd) = Comma /\ ~ IsDigit(Comma) /\ Comma # Dot
      BY <1>92 DEF IsDigit, Comma, Dot
    <2>13. /\ then = dataEnd + Len(SignText(rssi)) + 1
           /\ Stands(text, dataEnd, SignText(rssi))
           /\ Stands(text, dataEnd + Len(SignText(rssi)), R)
           /\ CharAt(text, dataEnd) = Comma /\ ~ IsDigit(CharAt(text, rssiEnd))
      BY <1>92, <2>12, Zenon DEF X, then
    <2>14. at = cut + Len(SignText(0)) + 1
      OBVIOUS
    <2> HIDE DEF at, then
    <2>15. RcvFields(text) =
             [ok |-> TRUE, rssi |-> AsI16(Signed(0 < 0, Number(tail))),
              snr10 |-> AsI16(Snr10(rssi < 0, Number(R),
                          IF CharAt(text, rssiEnd) = Dot /\ IsDigit(CharAt(text, rssiEnd + 1))
                          THEN text[rssiEnd + 1] ELSE 0))]
      <3>1. /\ text \in Seq(Int) /\ rssi \in Int /\ 0 \in Int
            /\ R \in Seq(0 .. 9) /\ rssiEnd \in Nat /\ dataEnd \in Nat
            /\ Len(R) \in 1 .. 4 /\ Len(tail) \in 1 .. 6
        <4>1. Len(R) \in 1 .. 3
          BY <1>1, Zenon
        <4>2. Len(R) \in 1 .. 4
          BY ONLY <4>1
        <4>3. text \in Seq(Int) /\ rssi \in Int /\ R \in Seq(0 .. 9) /\ Len(tail) \in 1 .. 6
              /\ rssiEnd \in Nat /\ dataEnd \in Nat
          BY <1>1, <1>2, <1>91, <1>92, <2>0, Zenon
        <4> QED BY ONLY <4>2, <4>3
      <3>2. RcvParts(text, addrEnd, lenEnd, cut, 0, tail, at, dataEnd, rssi, R,
                     then, rssiEnd)
        BY ONLY <1>10, <1>11, <2>2, <2>7, <2>8, <2>9, <2>10, <2>11, <2>13, <2>14, <3>1,
                Zenon DEF RcvParts
      <3>3. RcvFields(text) = RcvReading(text, 0, tail, rssi, R, rssiEnd)
        BY ONLY <3>2, RcvReads
      <3> QED BY ONLY <3>3, Zenon DEF RcvReading
    <2>16. RcvFields(text) =
             [ok |-> TRUE, rssi |-> AsI16(Signed(0 < 0, Number(tail))),
              snr10 |-> AsI16(Snr10(rssi < 0, m, 0))]
      BY ONLY <1>2, <2>12, <2>15, Zenon
    <2>17. Signed(0 < 0, Number(tail)) = Number(tail)
      BY <2>9, Zenon DEF Signed
    <2> QED BY ONLY <1>1, <1>5, <2>16, <2>17, Zenon
  <1> QED BY <1>14, <1>15

(* Behind "+RCV=", a report is read as the module wrote it if its data has *)
(* no comma; if its data ends in a number behind its first comma, that     *)
(* number passes for the RSSI and the RSSI for the SNR.                    *)
THEOREM ReportsReadBack == DatumSpec => []ReportReadBack
  <1>1. ReportReadBack
    BY ReportReads DEF ReportReadBack
  <1> QED BY <1>1, PTL
=============================================================================
