--------------------------- MODULE NaturalLemmas ---------------------------
(***************************************************************************)
(* Induction and recursion on the natural numbers, from the library's      *)
(* theorem that they are well-founded, and the quotient of a sum.  The     *)
(* proofs about recursive functions rest on them.                          *)
(***************************************************************************)
EXTENDS Integers, WellFoundedInduction, TLAPS

(* Every set of numbers that is not empty has a least one. *)
LEMMA LeastNumber ==
  ASSUME NEW T \in SUBSET Nat, T # {}
  PROVE  \E x \in T : \A y \in T : x <= y
  <1>1. IsWellFoundedOn(OpToRel(<, Nat), Nat)
    BY NatLessThanWellFounded
  <1>2. PICK x \in T : \A y \in T : ~ (<<y, x>> \in OpToRel(<, Nat))
    BY <1>1, WFMin, Zenon
  <1>3. \A y \in T : ~ (y < x)
    BY <1>2 DEF OpToRel
  <1> QED BY <1>3

(* A set with 0 in it and with every number's successor holds them all.    *)
LEMMA SetInduction ==
  ASSUME NEW T, 0 \in T, \A n \in Nat : n \in T => n + 1 \in T
  PROVE  \A n \in Nat : n \in T
  <1> SUFFICES ASSUME Nat \ T # {} PROVE FALSE
    OBVIOUS
  <1>1. PICK x \in Nat \ T : \A y \in Nat \ T : x <= y
    BY LeastNumber
  <1>2. x # 0 /\ x - 1 \in Nat /\ (x - 1) + 1 = x
    BY <1>1
  <1>3. x - 1 \in T
    BY <1>1, <1>2
  <1> QED BY <1>1, <1>2, <1>3

(* The same up to a number. *)
LEMMA InductionTo ==
  ASSUME NEW m \in Nat, NEW T, 0 \in T, \A n \in Nat : n < m /\ n \in T => n + 1 \in T
  PROVE  \A n \in 0 .. m : n \in T
  <1> DEFINE U == {n \in Nat : n <= m => n \in T}
  <1>1. 0 \in U
    OBVIOUS
  <1>2. \A n \in Nat : n \in U => n + 1 \in U
    OBVIOUS
  <1>3. \A n \in Nat : n \in U
    BY <1>1, <1>2, SetInduction
  <1> QED BY <1>3

-----------------------------------------------------------------------------
(* Recursion on the numbers.  A function is given at its base points, and  *)
(* everywhere else by a step from its value at a smaller point.            *)
Solves(f, E, B, base, prev, step) ==
    \A n \in E : f[n] = IF n \in B THEN base[n] ELSE step[n][f[prev[n]]]

LEMMA Recursion ==
  ASSUME NEW D \in SUBSET Nat, NEW B \in SUBSET D, NEW S,
         NEW base \in [B -> S], NEW prev \in [D \ B -> D], NEW step \in [D \ B -> [S -> S]],
         \A n \in D \ B : prev[n] < n
  PROVE  \E f \in [D -> S] : Solves(f, D, B, base, prev, step)
  <1> DEFINE Below(m) == {n \in D : n < m}
             Solutions(m) == {f \in [Below(m) -> S] : Solves(f, Below(m), B, base, prev, step)}
  <1>0. \A n \in D : n \in Nat
    OBVIOUS
  <1>1. ASSUME NEW l \in Nat, NEW m \in Nat, NEW g \in Solutions(l), NEW h \in Solutions(m),
               NEW n \in Below(l) \cap Below(m)
        PROVE  g[n] = h[n]
    <2> DEFINE T == {k \in Below(l) \cap Below(m) : g[k] # h[k]}
    <2> SUFFICES ASSUME T # {} PROVE FALSE
      BY <1>1
    <2>1. PICK x \in T : \A y \in T : x <= y
      BY LeastNumber
    <2>2. /\ g[x] = IF x \in B THEN base[x] ELSE step[x][g[prev[x]]]
          /\ h[x] = IF x \in B THEN base[x] ELSE step[x][h[prev[x]]]
      BY <2>1, <1>1 DEF Solves
    <2>3. x \notin B
      BY <2>1, <2>2
    <2>4. prev[x] \in D /\ prev[x] < x /\ x \in D /\ x < l /\ x < m
      BY <2>1, <2>3
    <2>5. prev[x] \in Below(l) \cap Below(m) /\ prev[x] \notin T
      <3>1. prev[x] \in Nat /\ x \in Nat
        BY <1>0, <2>4
      <3>2. prev[x] < l /\ prev[x] < m /\ ~ (x <= prev[x])
        BY <2>4, <3>1
      <3>3. prev[x] \notin T
        BY <2>1, <3>2
      <3> QED BY <2>4, <3>2, <3>3
    <2>6. g[prev[x]] = h[prev[x]]
      BY <2>5
    <2> QED BY <2>1, <2>2, <2>3, <2>6
  <1>2. ASSUME NEW m \in Nat PROVE Solutions(m) # {}
    <2> DEFINE T == {k \in Nat : Solutions(k) # {}}
    <2>1. 0 \in T
      <3>1. Below(0) = {}
        <4>1. \A n \in D : ~ (n < 0)
          BY <1>0
        <4> QED BY <4>1
      <3>2. [n \in {} |-> 0] \in [Below(0) -> S]
        BY <3>1
      <3>3. [n \in {} |-> 0] \in Solutions(0)
        BY <3>1, <3>2 DEF Solves
      <3> QED BY <3>3
    <2>2. ASSUME NEW k \in Nat, k \in T PROVE k + 1 \in T
      <3>1. PICK g \in [Below(k) -> S] : Solves(g, Below(k), B, base, prev, step)
        BY <2>2
      <3> DEFINE h == [n \in Below(k + 1) |->
                         IF n \in B THEN base[n] ELSE step[n][g[prev[n]]]]
      <3>2. ASSUME NEW n \in Below(k + 1), n \notin B
            PROVE  prev[n] \in Below(k) /\ prev[n] < n
        <4>1. n \in Nat /\ n < k + 1 /\ prev[n] \in D /\ prev[n] \in Nat /\ prev[n] < n
          BY <1>0, <3>2
        <4>2. prev[n] < k
          BY <4>1
        <4> QED BY <4>1, <4>2
      <3>3. h \in [Below(k + 1) -> S]
        <4> SUFFICES ASSUME NEW n \in Below(k + 1)
                     PROVE  (IF n \in B THEN base[n] ELSE step[n][g[prev[n]]]) \in S
          OBVIOUS
        <4>1. CASE n \in B
          BY <4>1
        <4>2. CASE n \notin B
          <5>1. g[prev[n]] \in S
            BY <3>1, <3>2, <4>2
          <5>2. step[n] \in [S -> S]
            BY <4>2
          <5> QED BY <4>2, <5>1, <5>2
        <4> QED BY <4>1, <4>2
      <3>4. \A n \in Below(k) : h[n] = g[n]
        BY <3>1 DEF Solves
      <3>5. \A n \in Below(k + 1) :
               h[n] = IF n \in B THEN base[n] ELSE step[n][h[prev[n]]]
        BY <3>2, <3>4
      <3>6. h \in Solutions(k + 1)
        BY <3>3, <3>5 DEF Solves
      <3> HIDE DEF Solutions
      <3> QED BY <3>6
    <2>3. m \in T
      BY <2>1, <2>2, SetInduction
    <2> QED BY <2>3
  <1> DEFINE sol(n) == CHOOSE g \in Solutions(n + 1) : TRUE
             f == [n \in D |-> sol(n)[n]]
  <1>3. ASSUME NEW n \in D
        PROVE  sol(n) \in Solutions(n + 1) /\ n \in Below(n + 1) /\ f[n] = sol(n)[n]
    BY <1>2
  <1> HIDE DEF sol
  <1>4. f \in [D -> S]
    BY <1>3
  <1>5. ASSUME NEW n \in D
        PROVE  f[n] = IF n \in B THEN base[n] ELSE step[n][f[prev[n]]]
    <2>1. sol(n)[n] = IF n \in B THEN base[n] ELSE step[n][sol(n)[prev[n]]]
      BY <1>3 DEF Solves
    <2>2. CASE n \in B
      BY <1>3, <2>1, <2>2
    <2>3. CASE n \notin B
      <3>1. prev[n] \in D /\ prev[n] < n
        BY <2>3
      <3>2. prev[n] \in Below(n + 1) \cap Below(prev[n] + 1) /\ prev[n] \in Nat
        <4>1. n \in Nat /\ prev[n] \in Nat
          BY <1>0, <3>1
        <4>2. prev[n] < n + 1 /\ prev[n] < prev[n] + 1
          BY <3>1, <4>1
        <4> QED BY <3>1, <4>1, <4>2
      <3>3. sol(n)[prev[n]] = sol(prev[n])[prev[n]]
        <4>0. n \in Nat /\ prev[n] \in Nat
          BY <1>0, <3>1
        <4>1. n + 1 \in Nat /\ prev[n] + 1 \in Nat
          BY ONLY <4>0
        <4>2. sol(n) \in Solutions(n + 1) /\ sol(prev[n]) \in Solutions(prev[n] + 1)
          BY <1>3, <3>1
        <4> HIDE DEF Solutions, Below
        <4> QED BY <1>1, <3>2, <4>1, <4>2
      <3> QED BY <1>3, <2>1, <2>3, <3>1, <3>3
    <2> QED BY <2>2, <2>3
  <1> HIDE DEF f
  <1> QED BY <1>4, <1>5 DEF Solves

(* What a number with a known quotient and remainder is divided into. *)
LEMMA QuotientIs ==
  ASSUME NEW b \in Nat \ {0}, NEW q \in Nat, NEW r \in 0 .. (b - 1)
  PROVE  (q * b + r) \div b = q /\ (q * b + r) % b = r
  <1> DEFINE x == q * b + r
             k == x \div b
             s == x % b
  <1>1. x \in Nat
    OBVIOUS
  <1>2. k \in Nat /\ s \in 0 .. (b - 1) /\ x = b * k + s
    BY <1>1, SMT
  <1> HIDE DEF k, s
  <1>3. CASE k < q
    <2>1. q - k >= 1 /\ q - k \in Nat
      BY <1>2, <1>3
    <2>2. b * (q - k) >= b
      BY <2>1
    <2>3. b * (q - k) = q * b - b * k
      BY <1>2
    <2> QED BY <1>2, <2>2, <2>3
  <1>4. CASE k > q
    <2>1. k - q >= 1 /\ k - q \in Nat
      BY <1>2, <1>4
    <2>2. b * (k - q) >= b
      BY <2>1
    <2>3. b * (k - q) = b * k - q * b
      BY <1>2
    <2> QED BY <1>2, <2>2, <2>3
  <1>5. k = q
    BY <1>2, <1>3, <1>4
  <1>6. s = r
    BY <1>2, <1>5
  <1> QED BY <1>5, <1>6 DEF k, s
=============================================================================
