-------------------------- MODULE SequentialProofs --------------------------
(***************************************************************************)
(* Proofs about the parts that run on their own: the two backoff           *)
(* computations (OutboxBackoff, RetryBackoff), the paging of a replay      *)
(* (Replay), and the explanation of an event (Explanation).                *)
(***************************************************************************)
EXTENDS Replay, OutboxBackoff, RetryBackoff, Explanation,
        FiniteSetTheorems, WellFoundedInduction, TLAPS

-----------------------------------------------------------------------------
(* Induction over the natural numbers is done by looking at the least      *)
(* counterexample.                                                         *)

LEMMA NotGreater == \A n, m \in Nat : n <= m <=> ~(n > m)
  OBVIOUS

LEMMA LeastNat ==
    ASSUME NEW S \in SUBSET Nat, S # {}
    PROVE  \E m \in S : \A k \in S : ~(k < m)
<1> DEFINE R == OpToRel(<, Nat)
<1>1. IsWellFoundedOn(R, Nat)
  BY NatLessThanWellFounded, Zenon
<1>2. \A m, k \in Nat : k < m => <<k, m>> \in R
  BY Zenon DEF OpToRel
<1>3. \E m \in S : \A k \in S : ~(<<k, m>> \in R)
  <2> HIDE DEF R
  <2> QED
    BY <1>1, WFMin, Zenon
<1> QED
  BY <1>2, <1>3, Zenon

-----------------------------------------------------------------------------
(* Powers of two.                                                          *)

\* f doubles from 1 on, as far as k.
Doubles(f, k) == \A n \in 0..k : f[n] = IF n = 0 THEN 1 ELSE 2 * f[n - 1]

LEMMA DoublesExist ==
    ASSUME NEW k \in Nat
    PROVE  \E f \in [Nat -> Nat] : Doubles(f, k)
<1> DEFINE S == { j \in Nat : ~ \E f \in [Nat -> Nat] : Doubles(f, j) }
<1> SUFFICES ASSUME S # {} PROVE FALSE
  BY Zenon
<1>1. PICK m \in S : \A j \in S : ~(j < m)
  <2>1. S \in SUBSET Nat
    BY Zenon
  <2> HIDE DEF S
  <2> QED
    BY <2>1, LeastNat, Zenon
<1>2. CASE m = 0
  <2> DEFINE f == [n \in Nat |-> 1]
  <2>1. f \in [Nat -> Nat] /\ Doubles(f, 0)
    BY DEF Doubles
  <2> QED
    BY <1>2, <2>1, Zenon
<1>3. CASE m # 0
  <2>1. m - 1 \in Nat /\ m - 1 < m
    BY <1>3
  <2>2. PICK f \in [Nat -> Nat] : Doubles(f, m - 1)
    BY <1>1, <2>1, Zenon
  <2> DEFINE g == [f EXCEPT ![m] = 2 * f[m - 1]]
  <2>3. g \in [Nat -> Nat] /\ g[m] = 2 * f[m - 1] /\ \A n \in Nat \ {m} : g[n] = f[n]
    BY <2>1
  <2> HIDE DEF g
  <2>4. Doubles(g, m)
    <3>1. SUFFICES ASSUME NEW n \in 0..m PROVE g[n] = IF n = 0 THEN 1 ELSE 2 * g[n - 1]
      BY DEF Doubles
    <3>2. CASE n = m
      <4>1. m - 1 \in Nat \ {m}
        BY <2>1
      <4> QED
        BY <1>3, <2>3, <3>2, <4>1
    <3>3. CASE n # m
      <4>1. n \in 0..m - 1 /\ n \in Nat \ {m} /\ (n # 0 => n - 1 \in Nat \ {m})
        BY <3>3
      <4> QED
        BY <2>2, <2>3, <4>1 DEF Doubles
    <3> QED
      BY <3>2, <3>3
  <2> QED
    BY <2>3, <2>4, Zenon
<1> QED
  BY <1>2, <1>3

LEMMA DoublesUnique ==
    ASSUME NEW f \in [Nat -> Nat], NEW g \in [Nat -> Nat], NEW k \in Nat,
           Doubles(f, k), Doubles(g, k)
    PROVE  f[k] = g[k]
<1> DEFINE S == { n \in 0..k : f[n] # g[n] }
<1> SUFFICES ASSUME S # {} PROVE FALSE
  OBVIOUS
<1>1. PICK m \in S : \A j \in S : ~(j < m)
  <2>1. S \in SUBSET Nat
    OBVIOUS
  <2> HIDE DEF S
  <2> QED
    BY <2>1, LeastNat, Zenon
<1>2. CASE m = 0
  BY <1>2 DEF Doubles
<1>3. CASE m # 0
  <2>1. m - 1 \in 0..k /\ m - 1 < m
    BY <1>3
  <2>2. f[m - 1] = g[m - 1]
    BY <1>1, <2>1
  <2> QED
    BY <1>3, <2>2 DEF Doubles
<1> QED
  BY <1>2, <1>3

\* The recursive definition has a solution, and Power2 is one.
LEMMA Power2Is ==
    \A n \in Nat : Power2[n] = IF n = 0 THEN 1 ELSE 2 * Power2[n - 1]
<1> DEFINE G(n) == CHOOSE f \in [Nat -> Nat] : Doubles(f, n)
           F == [n \in Nat |-> G(n)[n]]
<1>1. ASSUME NEW n \in Nat PROVE G(n) \in [Nat -> Nat] /\ Doubles(G(n), n)
  BY DoublesExist, Zenon
<1> HIDE DEF G
<1>2. ASSUME NEW n \in Nat PROVE F[n] = IF n = 0 THEN 1 ELSE 2 * F[n - 1]
  <2>1. G(n)[n] = IF n = 0 THEN 1 ELSE 2 * G(n)[n - 1]
    BY <1>1 DEF Doubles
  <2>2. CASE n = 0
    BY <2>1, <2>2
  <2>3. CASE n # 0
    <3>1. n - 1 \in Nat
      BY <2>3
    <3>2. Doubles(G(n), n - 1)
      BY <1>1, <3>1 DEF Doubles
    <3>3. G(n)[n - 1] = G(n - 1)[n - 1]
      BY <1>1, <3>1, <3>2, DoublesUnique, Zenon
    <3>4. F[n - 1] = G(n - 1)[n - 1] /\ F[n] = G(n)[n]
      BY <3>1
    <3> QED
      BY <2>1, <2>3, <3>3, <3>4, Zenon
  <2> QED
    BY <2>2, <2>3
<1>3. F = [n \in Nat |-> IF n = 0 THEN 1 ELSE 2 * F[n - 1]]
  <2>1. F = [n \in Nat |-> F[n]]
    BY Zenon
  <2> HIDE DEF F
  <2> QED
    BY <1>2, <2>1, Zenon
<1> HIDE DEF F
<1>4. \E f : f = [n \in Nat |-> IF n = 0 THEN 1 ELSE 2 * f[n - 1]]
  BY <1>3, Zenon
<1>5. Power2 = [n \in Nat |-> IF n = 0 THEN 1 ELSE 2 * Power2[n - 1]]
  BY <1>4, Zenon DEF Power2
<1> QED
  BY <1>5, Zenon

LEMMA Power2Positive == \A n \in Nat : Power2[n] \in Nat /\ Power2[n] >= 1
<1> DEFINE S == { n \in Nat : ~(Power2[n] \in Nat /\ Power2[n] >= 1) }
<1> SUFFICES ASSUME S # {} PROVE FALSE
  BY Zenon
<1>1. PICK m \in S : \A j \in S : ~(j < m)
  <2>1. S \in SUBSET Nat
    BY Zenon
  <2> HIDE DEF S
  <2> QED
    BY <2>1, LeastNat, Zenon
<1>2. CASE m = 0
  <2>1. Power2[m] = 1
    BY <1>2, Power2Is, Zenon
  <2> QED
    BY <2>1
<1>3. CASE m # 0
  <2>1. m - 1 \in Nat /\ m - 1 < m
    BY <1>3
  <2>2. Power2[m - 1] \in Nat /\ Power2[m - 1] >= 1
    BY <1>1, <2>1, Zenon
  <2>3. Power2[m] = 2 * Power2[m - 1]
    BY <1>3, Power2Is, Zenon
  <2> QED
    BY <2>2, <2>3
<1> QED
  BY <1>2, <1>3

-----------------------------------------------------------------------------
(* What outboxBackoff returns.                                             *)

AtMost(v, max) == IF v > max THEN max ELSE v

\* One round takes the exact power, cut off at max, to the next one.
LEMMA RoundIs ==
    ASSUME NEW base \in 1..MaxInt, NEW max \in 1..MaxInt, NEW v \in Nat, v >= base
    PROVE  OneRound(AtMost(v, max), max) = AtMost(2 * v, max)
<1>1. max \in Nat /\ max >= 1 /\ max <= MaxInt /\ v >= 1 /\ MaxInt \in Nat
  BY BackoffAssumption
<1>2. CASE v > max
  BY <1>1, <1>2 DEF OneRound, AtMost
<1>3. CASE ~(v > max) /\ (v >= max \/ v > max \div 2)
  BY <1>1, <1>3 DEF OneRound, AtMost
<1>4. CASE ~(v > max) /\ ~(v >= max \/ v > max \div 2)
  <2>1. 2 * v <= max /\ v * 2 = 2 * v /\ ~(2 * v > MaxInt)
    BY <1>1, <1>4
  <2>2. Wrap(v * 2) = 2 * v
    BY <2>1 DEF Wrap
  <2> QED
    BY <1>1, <1>4, <2>1, <2>2 DEF OneRound, AtMost
<1> QED
  BY Zenon, <1>2, <1>3, <1>4

\* The exact delay after k doublings.
LEMMA ExactIs ==
    ASSUME NEW base \in Nat \ {0}, NEW k \in Nat
    PROVE  /\ base * Power2[k] \in Nat /\ base * Power2[k] >= base
           /\ k = 0 => base * Power2[k] = base
           /\ k # 0 => k - 1 \in Nat /\ base * Power2[k] = 2 * (base * Power2[k - 1])
<1>1. Power2[k] \in Nat /\ Power2[k] >= 1
  BY Zenon, Power2Positive
<1>2. base * Power2[k] \in Nat /\ base * Power2[k] >= base
  BY <1>1
<1>3. ASSUME k = 0 PROVE base * Power2[k] = base
  <2>1. Power2[k] = 1
    BY Zenon, <1>3, Power2Is
  <2> QED
    BY <2>1
<1>4. ASSUME k # 0 PROVE k - 1 \in Nat /\ base * Power2[k] = 2 * (base * Power2[k - 1])
  <2>1. k - 1 \in Nat
    BY <1>4
  <2>2. Power2[k] = 2 * Power2[k - 1] /\ Power2[k - 1] \in Nat
    BY Zenon, <1>4, <2>1, Power2Is, Power2Positive
  <2> QED
    BY <2>1, <2>2
<1> QED
  BY Zenon, <1>2, <1>3, <1>4

\* The recursion of the loop has one solution, the capped powers.
LEMMA LoopIs ==
    ASSUME NEW base \in 1..MaxInt, NEW max \in 1..MaxInt, base <= max, NEW n \in Nat
    PROVE  Looped(base, max, n) = AtMost(base * Power2[n], max)
<1>0. base \in Nat \ {0} /\ AtMost(base, max) = base
  BY BackoffAssumption DEF AtMost
<1> DEFINE F == [k \in Nat |-> AtMost(base * Power2[k], max)]
<1>1. ASSUME NEW k \in Nat
      PROVE  F[k] = IF k = 0 THEN base ELSE OneRound(F[k - 1], max)
  <2>1. CASE k = 0
    BY Zenon, <1>0, <2>1, ExactIs
  <2>2. CASE k # 0
    <3>1. k - 1 \in Nat /\ base * Power2[k] = 2 * (base * Power2[k - 1])
      BY Zenon, <1>0, <2>2, ExactIs
    <3>2. base * Power2[k - 1] \in Nat /\ base * Power2[k - 1] >= base
      BY Zenon, <1>0, <3>1, ExactIs
    <3> QED
      BY Zenon, <2>2, <3>1, <3>2, RoundIs
  <2> QED
    BY Zenon, <2>1, <2>2
<1>2. F = [k \in Nat |-> IF k = 0 THEN base ELSE OneRound(F[k - 1], max)]
  <2>1. F = [k \in Nat |-> F[k]]
    BY Zenon
  <2> HIDE DEF F
  <2> QED
    BY Zenon, <1>1, <2>1
<1> HIDE DEF F
<1> DEFINE P(f) == f = [k \in Nat |-> IF k = 0 THEN base ELSE OneRound(f[k - 1], max)]
           G == CHOOSE f : P(f)
<1>3. P(F)
  BY Zenon, <1>2
<1>4. P(G)
  <2> HIDE DEF P
  <2> QED
    BY Zenon, <1>3
<1>5. Looped(base, max, n) = G[n]
  BY Zenon DEF Looped
<1> HIDE DEF G
<1>6. \A k \in Nat : G[k] = IF k = 0 THEN base ELSE OneRound(G[k - 1], max)
  BY Zenon, <1>4
<1>7. \A k \in Nat : G[k] = F[k]
  <2> DEFINE S == { k \in Nat : G[k] # F[k] }
  <2> SUFFICES ASSUME S # {} PROVE FALSE
    BY Zenon
  <2>1. PICK m \in S : \A j \in S : ~(j < m)
    <3>1. S \in SUBSET Nat
      BY Zenon
    <3> HIDE DEF S
    <3> QED
      BY Zenon, <3>1, LeastNat
  <2>2. m \in Nat /\ G[m] # F[m]
    BY Zenon
  <2>3. m # 0
    BY Zenon, <2>2, <1>1, <1>6
  <2>4. m - 1 \in Nat /\ m - 1 < m
    BY <2>2, <2>3
  <2>5. G[m - 1] = F[m - 1]
    BY Zenon, <2>1, <2>4
  <2> QED
    BY Zenon, <2>2, <2>3, <2>5, <1>1, <1>6
<1> QED
  BY Zenon, <1>5, <1>7 DEF F

\* outboxBackoff returns base * 2^(attempt - 1), cut off at max, for every
\* width of the machine word, every setting and every number of attempts: the
\* test against max/2 keeps the doubling from overflowing, and leaving the loop
\* there loses nothing, since the power can only grow.
THEOREM BackoffIsExact == DelaysAreCapped
<1> SUFFICES ASSUME NEW base \in 1..MaxInt, NEW max \in 1..MaxInt,
                    NEW attempt \in 0..MaxAttempt, base <= max
             PROVE  LET exact == IF attempt <= 1 THEN base ELSE base * Power2[attempt - 1]
                    IN  outboxBackoff(base, max, attempt) = IF exact > max THEN max ELSE exact
  BY Zenon DEF DelaysAreCapped
<1>1. CASE attempt <= 1
  BY <1>1 DEF outboxBackoff
<1>2. CASE ~(attempt <= 1)
  <2>1. attempt - 1 \in Nat
    BY <1>2
  <2>2. PICK v : v = base * Power2[attempt - 1]
    BY Zenon
  <2>3. Looped(base, max, attempt - 1) = AtMost(v, max)
    BY Zenon, <2>1, <2>2, LoopIs
  <2>4. ~(AtMost(v, max) > max)
    <3>1. max \in Nat /\ ~(max > max)
      BY BackoffAssumption
    <3> QED
      BY Zenon, <3>1 DEF AtMost
  <2>5. outboxBackoff(base, max, attempt) = AtMost(v, max)
    BY Zenon, <1>2, <2>3, <2>4 DEF outboxBackoff
  <2> QED
    BY Zenon, <1>2, <2>2, <2>5 DEF AtMost
<1> QED
  BY Zenon, <1>1, <1>2

-----------------------------------------------------------------------------
(* backoffDelay on 64-bit words: the limbs are those of the exact product. *)

LEMMA LimbShift ==
    ASSUME NEW v \in Nat, NEW c \in 0..1
    PROVE  /\ v \div Limb \in Nat /\ Carry(v % Limb) \in 0..1
           /\ (2 * v + c) \div Limb = 2 * (v \div Limb) + Carry(v % Limb)
           /\ (2 * v + c) % Limb = (2 * (v % Limb) + c) % Limb
  BY DEF Limb, Carry

LEMMA LimbOrder ==
    ASSUME NEW u \in Nat, NEW v \in Nat
    PROVE  /\ u \div Limb \in Nat /\ v \div Limb \in Nat
           /\ u > v <=> \/ u \div Limb > v \div Limb
                        \/ u \div Limb = v \div Limb /\ u % Limb > v % Limb
           /\ u = v <=> u \div Limb = v \div Limb /\ u % Limb = v % Limb
  BY DEF Limb

WordOf(v) == <<v % Limb, (v \div Limb) % Limb, ((v \div Limb) \div Limb) % Limb,
             (((v \div Limb) \div Limb) \div Limb) % Limb>>

LEMMA WordShift ==
    ASSUME NEW v \in Nat
    PROVE  WordOf(2 * v) = Shift(WordOf(v))
<1>1. PICK a : a = v \div Limb
  BY Zenon
<1>2. PICK b : b = a \div Limb
  BY Zenon
<1>3. a \in Nat /\ b \in Nat /\ b \div Limb \in Nat
  BY <1>1, <1>2, LimbShift
<1>4. /\ (2 * v) \div Limb = 2 * a + Carry(v % Limb)
      /\ (2 * v) % Limb = (2 * (v % Limb)) % Limb
      /\ Carry(v % Limb) \in 0..1
  BY <1>1, LimbShift DEF Limb, Carry
<1>5. PICK c \in 0..1 : c = Carry(v % Limb)
  BY Zenon, <1>4
<1>6. /\ (2 * a + c) \div Limb = 2 * b + Carry(a % Limb)
      /\ (2 * a + c) % Limb = (2 * (a % Limb) + c) % Limb
      /\ Carry(a % Limb) \in 0..1
  BY Zenon, <1>2, <1>3, LimbShift
<1>7. PICK d \in 0..1 : d = Carry(a % Limb)
  BY Zenon, <1>6
<1>8. /\ (2 * b + d) \div Limb = 2 * (b \div Limb) + Carry(b % Limb)
      /\ (2 * b + d) % Limb = (2 * (b % Limb) + d) % Limb
      /\ Carry(b % Limb) \in 0..1
  BY Zenon, <1>3, LimbShift
<1>9. PICK e \in 0..1 : e = Carry(b % Limb)
  BY Zenon, <1>8
<1>10. (2 * (b \div Limb) + e) % Limb = (2 * ((b \div Limb) % Limb) + e) % Limb
  BY Zenon, <1>3, LimbShift
<1>11. WordOf(v) = <<v % Limb, a % Limb, b % Limb, (b \div Limb) % Limb>>
  BY Zenon, <1>1, <1>2 DEF WordOf
<1>12. WordOf(2 * v) = <<(2 * (v % Limb)) % Limb, (2 * (a % Limb) + c) % Limb,
                       (2 * (b % Limb) + d) % Limb, (2 * ((b \div Limb) % Limb) + e) % Limb>>
  BY Zenon, <1>4, <1>5, <1>6, <1>7, <1>8, <1>9, <1>10 DEF WordOf
<1>13. PICK x : x = WordOf(v)
  BY Zenon
<1>14. x[1] = v % Limb /\ x[2] = a % Limb /\ x[3] = b % Limb /\ x[4] = (b \div Limb) % Limb
  BY <1>11, <1>13
<1>15. Shift(x) = <<(2 * (v % Limb)) % Limb, (2 * (a % Limb) + c) % Limb,
                    (2 * (b % Limb) + d) % Limb, (2 * ((b \div Limb) % Limb) + e) % Limb>>
  BY Zenon, <1>5, <1>7, <1>9, <1>14 DEF Shift
<1> QED
  BY Zenon, <1>12, <1>13, <1>15

\* Words below 2^63 are ordered like the numbers they stand for.
Small(v) == v \in Nat /\ ((v \div Limb) \div Limb) \div Limb < Limb \div 2

LEMMA WordOrder ==
    ASSUME NEW u, NEW v, Small(u), Small(v)
    PROVE  Greater(WordOf(u), WordOf(v)) <=> u > v
<1>0. u \in Nat /\ v \in Nat
  BY Zenon DEF Small
<1>1. PICK a : a = u \div Limb
  BY Zenon
<1>2. PICK b : b = a \div Limb
  BY Zenon
<1>3. PICK c : c = b \div Limb
  BY Zenon
<1>4. PICK p : p = v \div Limb
  BY Zenon
<1>5. PICK q : q = p \div Limb
  BY Zenon
<1>6. PICK s : s = q \div Limb
  BY Zenon
<1>7. a \in Nat /\ b \in Nat /\ c \in Nat /\ p \in Nat /\ q \in Nat /\ s \in Nat
  BY Zenon, <1>0, <1>1, <1>2, <1>3, <1>4, <1>5, <1>6, LimbOrder
<1>8. c < Limb \div 2 /\ s < Limb \div 2
  BY Zenon, <1>1, <1>2, <1>3, <1>4, <1>5, <1>6 DEF Small
<1>9. c % Limb = c /\ s % Limb = s /\ ~(c >= Limb \div 2)
  BY <1>7, <1>8 DEF Limb
<1>10. PICK x : x = WordOf(u)
  BY Zenon
<1>11. PICK y : y = WordOf(v)
  BY Zenon
<1>12. x = <<u % Limb, a % Limb, b % Limb, c>> /\ y = <<v % Limb, p % Limb, q % Limb, s>>
  BY ZenonT(60), <1>1, <1>2, <1>3, <1>4, <1>5, <1>6, <1>9, <1>10, <1>11 DEF WordOf
<1>13. /\ x[1] = u % Limb /\ x[2] = a % Limb /\ x[3] = b % Limb /\ x[4] = c
       /\ y[1] = v % Limb /\ y[2] = p % Limb /\ y[3] = q % Limb /\ y[4] = s
  BY <1>12
<1>14. Greater(x, y) <=> \/ x[4] > y[4]
                         \/ x[4] = y[4] /\ x[3] > y[3]
                         \/ x[4] = y[4] /\ x[3] = y[3] /\ x[2] > y[2]
                         \/ x[4] = y[4] /\ x[3] = y[3] /\ x[2] = y[2] /\ x[1] > y[1]
  <2>1. ~Negative(x)
    BY Zenon, <1>9, <1>13 DEF Negative
  <2>2. /\ 1..4 = {1, 2, 3, 4} /\ 1 + 1..4 = {2, 3, 4} /\ 2 + 1..4 = {3, 4}
        /\ 3 + 1..4 = {4} /\ 4 + 1..4 = {}
    OBVIOUS
  <2> QED
    BY ZenonT(60), <2>1, <2>2 DEF Greater
<1>15. /\ u > v <=> a > p \/ (a = p /\ u % Limb > v % Limb)
       /\ a > p <=> b > q \/ (b = q /\ a % Limb > p % Limb)
       /\ b > q <=> c > s \/ (c = s /\ b % Limb > q % Limb)
       /\ a = p <=> b = q /\ a % Limb = p % Limb
       /\ b = q <=> c = s /\ b % Limb = q % Limb
  <2>1. u > v <=> a > p \/ (a = p /\ u % Limb > v % Limb)
    BY Zenon, <1>0, <1>1, <1>4, LimbOrder
  <2>2. /\ a > p <=> b > q \/ (b = q /\ a % Limb > p % Limb)
        /\ a = p <=> b = q /\ a % Limb = p % Limb
    BY Zenon, <1>7, <1>2, <1>5, LimbOrder
  <2>3. /\ b > q <=> c > s \/ (c = s /\ b % Limb > q % Limb)
        /\ b = q <=> c = s /\ b % Limb = q % Limb
    BY Zenon, <1>7, <1>3, <1>6, LimbOrder
  <2> QED
    BY Zenon, <2>1, <2>2, <2>3
<1> QED
  BY Zenon, <1>10, <1>11, <1>13, <1>14, <1>15

Cap == 10000000000

LEMMA WordOfTenSeconds ==
    TenSeconds = WordOf(Cap) /\ Small(Cap) /\ Zero = WordOf(0) /\ Small(0)
<1>1. /\ Cap \in Nat /\ 0 \in Nat
      /\ Cap % Limb = 58368 /\ (Cap \div Limb) % Limb = 21515
      /\ ((Cap \div Limb) \div Limb) % Limb = 2
      /\ (((Cap \div Limb) \div Limb) \div Limb) % Limb = 0
      /\ ((Cap \div Limb) \div Limb) \div Limb < Limb \div 2
      /\ ((0 \div Limb) \div Limb) \div Limb < Limb \div 2
  BY SMT DEF Limb, Cap
<1>2. 0 % Limb = 0 /\ 0 \div Limb = 0
  BY SMT DEF Limb
<1> QED
  BY <1>1, <1>2, SMT DEF WordOf, TenSeconds, Small, Zero

\* The number a word stands for when it is not negative.
ValueOf(x) == x[1] + Limb * (x[2] + Limb * (x[3] + Limb * x[4]))

LEMMA LimbSplit ==
    ASSUME NEW r \in Nat, NEW q \in Nat, r < Limb
    PROVE  /\ r + Limb * q \in Nat
           /\ (r + Limb * q) % Limb = r /\ (r + Limb * q) \div Limb = q
  BY SMT DEF Limb

LEMMA WordIs ==
    ASSUME NEW x \in Word
    PROVE  /\ ValueOf(x) \in Nat /\ WordOf(ValueOf(x)) = x
           /\ ~Negative(x) => Small(ValueOf(x))
<1>1. /\ x[1] \in Nat /\ x[1] < Limb /\ x[2] \in Nat /\ x[2] < Limb
      /\ x[3] \in Nat /\ x[3] < Limb /\ x[4] \in Nat /\ x[4] < Limb
      /\ x = <<x[1], x[2], x[3], x[4]>>
  <2>1. 1 \in 1..4 /\ 2 \in 1..4 /\ 3 \in 1..4 /\ 4 \in 1..4
    OBVIOUS
  <2>2. Limb \in Nat
    BY SMT DEF Limb
  <2>3. \A t \in 0..Limb - 1 : t \in Nat /\ t < Limb
    BY SMT, <2>2
  <2>4. x = <<x[1], x[2], x[3], x[4]>>
    BY SMT DEF Word
  <2> QED
    BY Zenon, <2>1, <2>3, <2>4 DEF Word
<1>2. PICK c : c = x[3] + Limb * x[4]
  BY Zenon
<1>3. c \in Nat /\ c % Limb = x[3] /\ c \div Limb = x[4]
  BY Zenon, <1>1, <1>2, LimbSplit
<1>4. PICK d : d = x[2] + Limb * c
  BY Zenon
<1>5. d \in Nat /\ d % Limb = x[2] /\ d \div Limb = c
  BY Zenon, <1>1, <1>3, <1>4, LimbSplit
<1>6. PICK v : v = x[1] + Limb * d
  BY Zenon
<1>7. v \in Nat /\ v % Limb = x[1] /\ v \div Limb = d
  BY Zenon, <1>1, <1>5, <1>6, LimbSplit
<1>8. ValueOf(x) = v
  BY Zenon, <1>2, <1>4, <1>6 DEF ValueOf
<1>9. x[4] % Limb = x[4] /\ (~(x[4] >= Limb \div 2) => x[4] < Limb \div 2)
  BY SMT, <1>1 DEF Limb
<1>10. WordOf(v) = x
  BY ZenonT(60), <1>1, <1>3, <1>5, <1>7, <1>9 DEF WordOf
<1>11. ~Negative(x) => Small(v)
  BY Zenon, <1>3, <1>5, <1>7, <1>9 DEF Small, Negative
<1> QED
  BY Zenon, <1>7, <1>8, <1>10, <1>11

\* The recursion of Product has one solution, the words of the exact product.
LEMMA ProductIs ==
    ASSUME NEW b \in Word, NEW n \in Nat \ {0}
    PROVE  Product(b, n) = WordOf(ValueOf(b) * Power2[n - 1])
<1>0. PICK v \in Nat : v = ValueOf(b)
  BY Zenon, WordIs
<1>1. b = WordOf(v)
  BY Zenon, <1>0, WordIs
<1> DEFINE F == [k \in Nat |-> WordOf(v * Power2[k])]
<1>2. ASSUME NEW k \in Nat
      PROVE  F[k] = IF k = 0 THEN WordOf(v) ELSE Shift(F[k - 1])
  <2>1. CASE k = 0
    <3>1. v * Power2[k] = v
      <4>1. Power2[k] = 1
        BY Zenon, <2>1, Power2Is
      <4> QED
        BY <4>1
    <3> QED
      BY Zenon, <2>1, <3>1
  <2>2. CASE k # 0
    <3>1. k - 1 \in Nat
      BY <2>2
    <3>2. Power2[k] = 2 * Power2[k - 1] /\ Power2[k - 1] \in Nat
      BY Zenon, <2>2, <3>1, Power2Is, Power2Positive
    <3>3. PICK w \in Nat : w = v * Power2[k - 1]
      BY <3>2
    <3>4. v * Power2[k] = 2 * w
      BY <3>2, <3>3
    <3>5. F[k] = WordOf(2 * w) /\ F[k - 1] = WordOf(w)
      BY Zenon, <3>1, <3>3, <3>4
    <3> QED
      BY Zenon, <2>2, <3>5, WordShift
  <2> QED
    BY Zenon, <2>1, <2>2
<1>3. F = [k \in Nat |-> IF k = 0 THEN WordOf(v) ELSE Shift(F[k - 1])]
  <2>1. F = [k \in Nat |-> F[k]]
    BY Zenon
  <2> HIDE DEF F
  <2> QED
    BY Zenon, <1>2, <2>1
<1> HIDE DEF F
<1> DEFINE P(f) == f = [k \in Nat |-> IF k = 0 THEN b ELSE Shift(f[k - 1])]
           G == CHOOSE f : P(f)
<1>4. P(F)
  BY Zenon, <1>1, <1>3
<1>5. P(G)
  <2> HIDE DEF P
  <2> QED
    BY Zenon, <1>4
<1>6. Product(b, n) = G[n - 1]
  BY Zenon DEF Product
<1> HIDE DEF G
<1>7. \A k \in Nat : G[k] = IF k = 0 THEN WordOf(v) ELSE Shift(G[k - 1])
  BY Zenon, <1>1, <1>5
<1>8. \A k \in Nat : G[k] = F[k]
  <2> DEFINE S == { k \in Nat : G[k] # F[k] }
  <2> SUFFICES ASSUME S # {} PROVE FALSE
    BY Zenon
  <2>1. PICK m \in S : \A j \in S : ~(j < m)
    <3>1. S \in SUBSET Nat
      BY Zenon
    <3> HIDE DEF S
    <3> QED
      BY Zenon, <3>1, LeastNat
  <2>2. m \in Nat /\ G[m] # F[m]
    BY Zenon
  <2>3. m # 0
    BY Zenon, <2>2, <1>2, <1>7
  <2>4. m - 1 \in Nat /\ m - 1 < m
    BY <2>2, <2>3
  <2>5. G[m - 1] = F[m - 1]
    BY Zenon, <2>1, <2>4
  <2> QED
    BY Zenon, <2>2, <2>3, <2>5, <1>2, <1>7
<1>9. n - 1 \in Nat
  OBVIOUS
<1> QED
  BY Zenon, <1>0, <1>6, <1>8, <1>9 DEF F

\* A product below 2^62 can be doubled.
LEMMA DoubleSmall ==
    ASSUME NEW v, Small(v), WordOf(v)[4] < Limb \div 4
    PROVE  Small(2 * v)
<1>1. v \in Nat
  BY Zenon DEF Small
<1>2. PICK c \in 0..1 : c = Carry(v % Limb)
  <2>1. 0 \in 0..1
    OBVIOUS
  <2> QED
    BY Zenon, <1>1, <2>1, LimbShift
<1>3. PICK a : a = v \div Limb
  BY Zenon
<1>4. a \in Nat /\ 2 * v \in Nat /\ (2 * v) \div Limb = 2 * a + c
  <2>1. 2 * v = 2 * v + 0 /\ 0 \in 0..1 /\ 2 * v \in Nat
    BY <1>1
  <2> QED
    BY ZenonT(60), <1>1, <1>2, <1>3, <2>1, LimbShift
<1>5. PICK d \in 0..1 : d = Carry(a % Limb)
  BY Zenon, <1>2, <1>4, LimbShift
<1>6. PICK b : b = a \div Limb
  BY Zenon
<1>7. b \in Nat /\ (2 * a + c) \div Limb = 2 * b + d
  BY Zenon, <1>2, <1>4, <1>5, <1>6, LimbShift
<1>8. PICK e \in 0..1 : e = Carry(b % Limb)
  BY Zenon, <1>5, <1>7, LimbShift
<1>9. PICK t : t = b \div Limb
  BY Zenon
<1>10. t \in Nat /\ (2 * b + d) \div Limb = 2 * t + e
  BY Zenon, <1>5, <1>7, <1>8, <1>9, LimbShift
<1>11. t < Limb \div 2 /\ t % Limb < Limb \div 4
  <2>1. t < Limb \div 2
    BY Zenon, <1>3, <1>6, <1>9 DEF Small
  <2>2. WordOf(v)[4] = t % Limb
    BY <1>3, <1>6, <1>9 DEF WordOf
  <2> QED
    BY Zenon, <2>1, <2>2
<1>12. 2 * t + e < Limb \div 2
  BY SMT, <1>8, <1>10, <1>11 DEF Limb
<1> QED
  BY Zenon, <1>4, <1>7, <1>10, <1>12 DEF Small

\* While no doubling leaves the word, the product is the exact one.
LEMMA ProductSmall ==
    ASSUME NEW b \in Word, NEW n \in Nat \ {0}, Fits(b, n)
    PROVE  /\ ValueOf(b) \in Nat \ {0}
           /\ \A k \in 0..n - 1 : Small(ValueOf(b) * Power2[k])
<1>1. PICK v : v = ValueOf(b)
  BY Zenon
<1>2. v \in Nat /\ b = WordOf(v) /\ Small(v)
  BY Zenon, <1>1, WordIs DEF Fits, Greater
<1>3. v > 0
  BY Zenon, <1>2, WordOrder, WordOfTenSeconds DEF Fits
<1>4. v \in Nat \ {0}
  BY <1>2, <1>3
<1> DEFINE S == { k \in 0..n - 1 : ~Small(v * Power2[k]) }
<1>5. S = {}
  <2> SUFFICES ASSUME S # {} PROVE FALSE
    BY Zenon
  <2>1. PICK m \in S : \A j \in S : ~(j < m)
    <3>1. S \in SUBSET Nat
      OBVIOUS
    <3> HIDE DEF S
    <3> QED
      BY Zenon, <3>1, LeastNat
  <2>2. m \in 0..n - 1 /\ m \in Nat /\ ~Small(v * Power2[m])
    OBVIOUS
  <2>3. m # 0
    BY Zenon, <1>2, <1>4, <2>2, ExactIs
  <2>4. m - 1 \in Nat /\ v * Power2[m] = 2 * (v * Power2[m - 1])
    BY Zenon, <1>4, <2>2, <2>3, ExactIs
  <2>5. m - 1 \in 0..n - 1 /\ m - 1 < m /\ m \in 1..n - 1 /\ m \in Nat \ {0}
    BY <2>2, <2>3
  <2>6. Small(v * Power2[m - 1])
    BY Zenon, <2>1, <2>5
  <2>7. Product(b, m) = WordOf(v * Power2[m - 1])
    BY Zenon, <1>1, <2>5, ProductIs
  <2>8. WordOf(v * Power2[m - 1])[4] < Limb \div 4
    BY Zenon, <2>5, <2>7 DEF Fits
  <2> QED
    BY Zenon, <2>2, <2>4, <2>6, <2>8, DoubleSmall
<1> QED
  BY Zenon, <1>1, <1>4, <1>5

AtMostCap(v) == IF v > Cap THEN Cap ELSE v

LEMMA DelayIs ==
    ASSUME NEW b \in Word, NEW n \in Nat \ {0}, NEW v, v = ValueOf(b) * Power2[n - 1], Small(v)
    PROVE  Small(AtMostCap(v)) /\ backoffDelay(b, n) = WordOf(AtMostCap(v))
<1>1. Product(b, n) = WordOf(v)
  BY Zenon, ProductIs
<1>2. Greater(WordOf(v), TenSeconds) <=> v > Cap
  BY Zenon, WordOrder, WordOfTenSeconds
<1>3. backoffDelay(b, n) = WordOf(AtMostCap(v))
  BY Zenon, <1>1, <1>2, WordOfTenSeconds DEF backoffDelay, AtMostCap
<1>4. Small(AtMostCap(v))
  BY Zenon, WordOfTenSeconds DEF AtMostCap
<1> QED
  BY Zenon, <1>3, <1>4

LEMMA CapGrows ==
    ASSUME NEW v \in Nat, v # 0
    PROVE  /\ AtMostCap(v) > 0 /\ ~(AtMostCap(v) > Cap)
           /\ \/ AtMostCap(v) = Cap /\ AtMostCap(2 * v) = Cap
              \/ AtMostCap(2 * v) > AtMostCap(v)
<1>1. PICK c \in Nat : c = Cap /\ c > 0
  BY SMT DEF Cap
<1> QED
  BY <1>1, SMT DEF AtMostCap

\* With every BASE_BACKOFF_MS, as the 64-bit duration it is turned into, and
\* every MAX_RETRIES, backoffDelay is at most ten seconds; and up to the first
\* retry whose exact product no longer fits into a time.Duration it is positive
\* and grows until it stays at ten seconds.
THEOREM RetryDelays == DelaysGrow
<1> SUFFICES ASSUME NEW b \in Bases, NEW n \in 1..RetryLimit
             PROVE  /\ ~Greater(backoffDelay(b, n), TenSeconds)
                    /\ Fits(b, n) =>
                        /\ Greater(backoffDelay(b, n), Zero)
                        /\ n > 1 =>
                             \/ /\ backoffDelay(b, n - 1) = TenSeconds
                                /\ backoffDelay(b, n) = TenSeconds
                             \/ Greater(backoffDelay(b, n), backoffDelay(b, n - 1))
  BY ZenonT(60) DEF DelaysGrow
<1>1. b \in Word
  BY Zenon, RetryBackoffAssumption
<1>2. n \in Nat \ {0} /\ n - 1 \in Nat /\ n - 1 \in 0..n - 1
  BY RetryBackoffAssumption
<1>3. ~Greater(backoffDelay(b, n), TenSeconds)
  <2>1. ~(Cap > Cap)
    BY SMT DEF Cap
  <2>2. ~Greater(TenSeconds, TenSeconds)
    BY Zenon, <2>1, WordOrder, WordOfTenSeconds
  <2> QED
    BY Zenon, <2>2 DEF backoffDelay
<1>4. ASSUME Fits(b, n) PROVE Greater(backoffDelay(b, n), Zero)
  <2>1. PICK v : v = ValueOf(b) * Power2[n - 1]
    BY Zenon
  <2>2. Small(v) /\ ValueOf(b) \in Nat \ {0}
    BY Zenon, <1>1, <1>2, <1>4, <2>1, ProductSmall
  <2>3. v \in Nat /\ v # 0
    <3>1. v \in Nat /\ v >= ValueOf(b)
      BY Zenon, <1>2, <2>1, <2>2, ExactIs
    <3> QED
      BY <2>2, <3>1
  <2>4. Small(AtMostCap(v)) /\ backoffDelay(b, n) = WordOf(AtMostCap(v))
    BY ZenonT(60), <1>1, <1>2, <2>1, <2>2, DelayIs
  <2>5. AtMostCap(v) > 0
    BY Zenon, <2>3, CapGrows
  <2> QED
    BY Zenon, <2>4, <2>5, WordOrder, WordOfTenSeconds
<1>5. ASSUME Fits(b, n), n > 1
      PROVE  \/ backoffDelay(b, n - 1) = TenSeconds /\ backoffDelay(b, n) = TenSeconds
             \/ Greater(backoffDelay(b, n), backoffDelay(b, n - 1))
  <2>1. /\ n - 1 \in Nat \ {0} /\ n - 1 # 0
        /\ (n - 1) - 1 \in Nat /\ (n - 1) - 1 \in 0..n - 1
    BY <1>2, <1>5
  <2>2. PICK w : w = ValueOf(b) * Power2[(n - 1) - 1]
    BY Zenon
  <2>3. ValueOf(b) \in Nat \ {0} /\ Small(w) /\ Small(ValueOf(b) * Power2[n - 1])
    BY Zenon, <1>1, <1>2, <1>5, <2>1, <2>2, ProductSmall
  <2>4. ValueOf(b) * Power2[n - 1] = 2 * w
    BY Zenon, <1>2, <2>1, <2>2, <2>3, ExactIs
  <2>5. w \in Nat /\ w # 0
    <3>1. w \in Nat /\ w >= ValueOf(b)
      BY Zenon, <2>1, <2>2, <2>3, ExactIs
    <3> QED
      BY <2>3, <3>1
  <2>6. /\ Small(AtMostCap(w)) /\ backoffDelay(b, n - 1) = WordOf(AtMostCap(w))
        /\ Small(AtMostCap(2 * w)) /\ backoffDelay(b, n) = WordOf(AtMostCap(2 * w))
    <3>1. Small(AtMostCap(w)) /\ backoffDelay(b, n - 1) = WordOf(AtMostCap(w))
      <4>1. PICK k \in Nat \ {0} : k = n - 1
        BY Zenon, <2>1
      <4>2. w = ValueOf(b) * Power2[k - 1]
        BY Zenon, <2>2, <4>1
      <4> QED
        BY ZenonT(60), <1>1, <2>3, <4>1, <4>2, DelayIs
    <3>2. Small(AtMostCap(2 * w)) /\ backoffDelay(b, n) = WordOf(AtMostCap(2 * w))
      BY ZenonT(60), <1>1, <1>2, <2>3, <2>4, DelayIs
    <3> QED
      BY Zenon, <3>1, <3>2
  <2>7. \/ AtMostCap(w) = Cap /\ AtMostCap(2 * w) = Cap
        \/ AtMostCap(2 * w) > AtMostCap(w)
    BY Zenon, <2>5, CapGrows
  <2> QED
    BY Zenon, <2>6, <2>7, WordOrder, WordOfTenSeconds
<1> QED
  BY Zenon, <1>3, <1>4, <1>5

-----------------------------------------------------------------------------
(* POST /replay, page by page.  Neither ReplayComplete nor                 *)
(* RepeatsNeedFailures is inductive: PagingInv says in between what the    *)
(* cursor, and the last row of an unfinished page, have left behind, and   *)
(* why a page that was cut off cannot run out of rows before its limit.    *)

USE ReplayAssumption

\* The page was cut off by its limit.
Cut == Cardinality(page) + published > limit

\* e comes after everything that the request will publish.
Beyond(e) == After(e, last) /\ (\A d \in page : Before(d, e)) /\ Cut

\* What the pages so far have left behind.
Behind ==
    /\ pc = "idle" => cursor = NoCursor
    /\ pc \in {"idle", "query"} => page = {} /\ published = 0 /\ last = NoCursor
    /\ \A e \in known \cap Selected : After(e, cursor) \/ sent[e] > 0
    /\ pc = "publish" =>
        \A e \in known \cap Selected : sent[e] > 0 \/ e \in page \/ Beyond(e)
    /\ pc = "done" => \A e \in known \cap Selected : sent[e] > 0

\* The rows of a page lie ahead.
Ahead ==
    /\ page \subseteq Selected
    /\ \A e \in page : After(e, cursor) /\ After(e, last)
    /\ published > 0 => \A e \in Events : After(e, last) => After(e, cursor)

SentOnlySelected == \A e \in Events : sent[e] > 0 => e \in stored \cap Selected

\* What lies ahead was sent by failed requests and repeated calls only.
Faults == failures + resends

Repeats ==
    /\ \A e \in Events : sent[e] <= 1 + Faults
    /\ pc # "done" =>
        \A e \in Events : After(e, cursor) /\ After(e, last) => sent[e] <= Faults

PagingInv == TypeOK /\ Behind /\ Ahead /\ SentOnlySelected /\ Repeats
-----------------------------------------------------------------------------
\* ORDER BY created_at, id is a strict total order of the events.
LEMMA Order ==
    /\ \A d, e, g \in Events : Before(d, e) /\ Before(e, g) => Before(d, g)
    /\ \A e \in Events : ~ Before(e, e)
    /\ \A d, e \in Events : d = e \/ Before(d, e) \/ Before(e, d)
  BY DEF Before

\* The condition of the query agrees with its order: the rows after the cursor
\* of an event are those that it sorts before, and no cursor excludes nothing.
LEMMA CursorOrder ==
    /\ \A d, e \in Events : After(e, CursorOf(d)) <=> Before(d, e)
    /\ \A e \in Events : After(e, NoCursor)
    /\ \A e \in Events, c \in Cursors : After(e, c) \in BOOLEAN
    /\ \A d, e \in Events, c \in Cursors : After(d, c) /\ Before(d, e) => After(e, c)
<1>1. \A e \in Events : e \in Nat /\ CreatedAt[e] \in Nat
  BY Zenon
<1>2. \A c \in Cursors : c.at \in Int /\ c.id \in Int
  BY DEF Cursors
<1> QED
  BY <1>1, <1>2 DEF After, Before, CursorOf, NoCursor

LEMMA CursorType == NoCursor \in Cursors /\ \A e \in Events : CursorOf(e) \in Cursors
  BY Zenon DEF NoCursor, CursorOf, Cursors

\* The rows of a query come before the eligible rows that its limit cuts off,
\* and when there is one of these the page is full.
LEMMA RowsCut ==
    ASSUME stored \subseteq Events, NEW c \in Cursors, NEW n \in Nat,
           NEW e \in Eligible(c), e \notin Rows(c, n)
    PROVE  /\ \A d \in Rows(c, n) : Before(d, e)
           /\ Cardinality(Rows(c, n)) > n
<1> DEFINE E == Eligible(c)
           P(x) == { d \in E : Before(d, x) }
           T == { Cardinality(P(x)) : x \in E \ Rows(c, n) }
<1>1. E \subseteq Events /\ IsFiniteSet(E) /\ Rows(c, n) \subseteq E
  BY Zenon, FS_Subset DEF Eligible, Rows
<1>2. ASSUME NEW x \in E
      PROVE  IsFiniteSet(P(x)) /\ Cardinality(P(x)) \in Nat
  BY Zenon, <1>1, FS_Subset, FS_CardinalityType
<1>3. ASSUME NEW x \in E
      PROVE  x \in Rows(c, n) <=> ~(Cardinality(P(x)) > n)
  <2>1. x \in Rows(c, n) <=> Cardinality(P(x)) <= n
    BY ZenonT(60) DEF Rows
  <2> QED
    BY Zenon, <2>1, <1>2, NotGreater
<1>4. ASSUME NEW x \in E, NEW y \in P(x)
      PROVE  Cardinality(P(y)) < Cardinality(P(x))
  <2>1. P(y) \subseteq P(x) /\ P(y) # P(x) /\ y \in E
    BY Zenon, <1>1, Order
  <2>2. /\ IsFiniteSet(P(x)) /\ Cardinality(P(x)) \in Nat
        /\ IsFiniteSet(P(y)) /\ Cardinality(P(y)) \in Nat
    BY Zenon, <1>2, <2>1
  <2> HIDE DEF P, E
  <2>3. Cardinality(P(y)) <= Cardinality(P(x)) /\ Cardinality(P(y)) # Cardinality(P(x))
    BY Zenon, <2>1, <2>2, FS_Subset
  <2> QED
    BY <2>2, <2>3
<1>5. T \subseteq Nat /\ T # {}
  <2> HIDE DEF P, E
  <2> QED
    BY Zenon, <1>2 DEF E
<1>8. PICK m \in T : \A y \in T : ~(y < m)
  <2> HIDE DEF T
  <2> QED
    BY Zenon, <1>5, LeastNat
<1>9. PICK g \in E \ Rows(c, n) : m = Cardinality(P(g))
  BY Zenon
<1>10. P(g) \subseteq Rows(c, n)
  <2>1. SUFFICES ASSUME NEW y \in P(g), y \notin Rows(c, n) PROVE FALSE
    BY Zenon
  <2>2. y \in E /\ Cardinality(P(y)) \in T
    <3>1. y \in E
      BY Zenon
    <3> HIDE DEF P, E
    <3> QED
      BY Zenon, <2>1, <3>1
  <2>3. Cardinality(P(y)) < m
    BY Zenon, <1>4, <1>9
  <2> QED
    BY Zenon, <1>8, <2>2, <2>3
<1>11. Cardinality(Rows(c, n)) > n
  <2>1. IsFiniteSet(Rows(c, n)) /\ Cardinality(Rows(c, n)) \in Nat
    BY Zenon, <1>1, FS_Subset, FS_CardinalityType
  <2>2. Cardinality(P(g)) <= Cardinality(Rows(c, n))
    BY Zenon, <1>10, <2>1, FS_Subset
  <2>3. Cardinality(P(g)) > n
    BY Zenon, <1>3
  <2> HIDE DEF P
  <2> QED
    BY SMTT(30), <1>2, <2>1, <2>2, <2>3
<1>12. ASSUME NEW d \in Rows(c, n) PROVE Before(d, e)
  <2>1. SUFFICES ASSUME Before(e, d) PROVE FALSE
    BY Zenon, <1>1, Order
  <2>2. Cardinality(P(e)) < Cardinality(P(d))
    BY Zenon, <1>1, <1>4, <2>1
  <2>3. Cardinality(P(e)) > n /\ ~(Cardinality(P(d)) > n)
    BY Zenon, <1>1, <1>3
  <2> HIDE DEF P
  <2> QED
    BY <1>1, <1>2, <2>2, <2>3
<1> QED
  BY Zenon, <1>11, <1>12

-----------------------------------------------------------------------------
LEMMA PagingInit == Init => PagingInv
<1> SUFFICES ASSUME Init PROVE PagingInv
  BY Zenon
<1>1. TypeOK
  BY CursorType DEF Init, TypeOK
<1>2. Behind
  BY Zenon DEF Init, Behind
<1>3. Ahead /\ SentOnlySelected /\ Repeats
  BY DEF Init, Ahead, SentOnlySelected, Repeats, Faults
<1> QED
  BY Zenon, <1>1, <1>2, <1>3 DEF PagingInv

LEMMA CommitStep ==
    ASSUME PagingInv, NEW e \in Events, Commit(e)
    PROVE  PagingInv'
<1> USE DEF PagingInv, Commit
<1>1. TypeOK'
  BY Zenon DEF TypeOK
<1>2. Behind'
  BY Zenon DEF Behind, Beyond, Cut, After, Before, Selected, InRange
<1>3. Ahead' /\ SentOnlySelected' /\ Repeats'
  BY Zenon DEF Ahead, SentOnlySelected, Repeats, Faults, After, Selected, InRange
<1> QED
  BY Zenon, <1>1, <1>2, <1>3

\* With no cursor there is nothing behind.
LEMMA StartStep ==
    ASSUME PagingInv, Start
    PROVE  PagingInv'
<1> USE DEF PagingInv, Start
<1>1. TypeOK'
  BY Zenon DEF TypeOK
<1>2. Behind'
  BY Zenon, CursorOrder DEF Behind, TypeOK, Selected
<1>3. Ahead' /\ SentOnlySelected' /\ Repeats'
  BY Zenon DEF Ahead, SentOnlySelected, Repeats, Faults
<1> QED
  BY Zenon, <1>1, <1>2, <1>3

LEMMA QueryStep ==
    ASSUME PagingInv, Query
    PROVE  PagingInv'
<1> USE DEF PagingInv
<1>1. PICK n \in Limits : /\ limit' = EffectiveLimit(n)
                          /\ page' = Rows(cursor, EffectiveLimit(n))
  BY Zenon DEF Query
<1>2. /\ published' = 0 /\ last' = NoCursor
      /\ pc = "query" /\ pc' = "publish"
      /\ UNCHANGED <<stored, known, cursor, sent, failures, resends>>
  BY Zenon DEF Query
<1>3. limit' \in Nat \ {0}
  BY <1>1 DEF EffectiveLimit
<1>4. /\ page' \subseteq stored \cap Selected
      /\ \A e \in page' : After(e, cursor)
  BY Zenon, <1>1 DEF Rows, Eligible
<1>5. stored \subseteq Events /\ known \subseteq stored /\ cursor \in Cursors
  BY Zenon DEF TypeOK
<1>6. TypeOK'
  BY <1>2, <1>3, <1>4, CursorType DEF TypeOK
<1>7. ASSUME NEW e \in known \cap Selected
      PROVE  sent[e] > 0 \/ e \in page' \/ Beyond(e)'
  <2>1. SUFFICES ASSUME After(e, cursor), e \notin page' PROVE Beyond(e)'
    BY Zenon DEF Behind
  <2>2. e \in Eligible(cursor)
    BY Zenon, <1>5, <2>1 DEF Eligible
  <2>3. (\A d \in page' : Before(d, e)) /\ Cardinality(page') > limit'
    BY Zenon, <1>1, <1>3, <1>5, <2>1, <2>2, RowsCut
  <2>4. IsFiniteSet(page') /\ Cardinality(page') \in Nat
    BY Zenon, <1>4, <1>5, FS_Subset, FS_CardinalityType
  <2>5. Cut'
    BY <1>2, <1>3, <2>3, <2>4 DEF Cut
  <2>6. After(e, last)'
    BY Zenon, <1>2, <1>5, CursorOrder DEF After
  <2> QED
    BY Zenon, <2>3, <2>5, <2>6 DEF Beyond, Before
<1>8. Behind'
  BY ZenonT(60), <1>2, <1>7 DEF Behind, After, Selected, InRange
<1>9. Ahead'
  BY <1>2, <1>4, <1>5, CursorOrder DEF Ahead, After, Selected, InRange
<1>10. SentOnlySelected' /\ Repeats'
  BY Zenon, <1>2 DEF SentOnlySelected, Repeats, Faults, Behind, After, Selected, InRange
<1> QED
  BY Zenon, <1>6, <1>8, <1>9, <1>10

\* The row that is published leaves the page; the rows it was read before stay
\* ahead of its cursor.
LEMMA ReturnsStep ==
    ASSUME PagingInv, NEW e \in Events, Publish(e), UNCHANGED resends
    PROVE  PagingInv'
<1> USE DEF PagingInv
<1>1. /\ pc = "publish" /\ e \in page /\ published < limit
      /\ \A d \in page \ {e} : Before(e, d)
      /\ sent' = [sent EXCEPT ![e] = @ + 1]
      /\ published' = published + 1
      /\ last' = CursorOf(e)
      /\ page' = page \ {e}
      /\ UNCHANGED <<stored, known, pc, cursor, limit, failures>>
  <2>1. resends' # resends + 1
    BY DEF TypeOK
  <2> QED
    BY Zenon, <2>1 DEF Publish, IsNext
<1>2. /\ stored \subseteq Events /\ known \subseteq stored /\ page \subseteq stored
      /\ cursor \in Cursors /\ last \in Cursors
      /\ sent \in [Events -> Nat] /\ Faults \in Nat
      /\ limit \in Nat /\ published \in Nat
  BY DEF TypeOK, Faults
<1>3. e \in Selected /\ After(e, cursor) /\ After(e, last)
  BY Zenon, <1>1 DEF Ahead
<1>4. TypeOK'
  BY <1>1, CursorType DEF TypeOK
<1>5. \A d \in Events : sent'[d] = IF d = e THEN sent[d] + 1 ELSE sent[d]
  BY Zenon, <1>1, <1>2
<1>6. Cut => Cut'
  <2>1. IsFiniteSet(page) /\ Cardinality(page) \in Nat
    BY Zenon, <1>2, FS_Subset, FS_CardinalityType
  <2>2. Cardinality(page') = Cardinality(page) - 1
    BY Zenon, <1>1, <2>1, FS_RemoveElement
  <2> QED
    BY <1>1, <1>2, <2>1, <2>2 DEF Cut
<1>7. ASSUME NEW d \in known \cap Selected
      PROVE  sent'[d] > 0 \/ d \in page' \/ Beyond(d)'
  <2>1. d \in Events
    BY Zenon, <1>2
  <2>2. CASE sent[d] > 0 \/ d = e
    BY SMTT(30), <1>2, <1>5, <2>1, <2>2
  <2>3. CASE d \in page
    BY Zenon, <1>1, <2>2, <2>3
  <2>4. CASE Beyond(d)
    <3>1. Before(e, d) /\ (\A g \in page' : Before(g, d)) /\ Cut'
      BY Zenon, <1>1, <1>6, <2>4 DEF Beyond
    <3>2. After(d, last)'
      BY ZenonT(60), <1>1, <2>1, <3>1, CursorOrder DEF After
    <3> QED
      BY Zenon, <3>1, <3>2 DEF Beyond, Before
  <2> QED
    BY Zenon, <1>1, <2>2, <2>3, <2>4 DEF Behind
<1>8. Behind'
  <2>1. \A d \in known \cap Selected : After(d, cursor) \/ sent'[d] > 0
    BY <1>2, <1>5 DEF Behind
  <2> QED
    BY ZenonT(60), <1>1, <1>7, <2>1 DEF Behind, After, Selected, InRange
<1>9. /\ \A d \in page' : After(d, CursorOf(e))
      /\ \A d \in Events : After(d, CursorOf(e)) => After(d, cursor) /\ After(d, last)
  BY Zenon, <1>1, <1>2, <1>3, CursorOrder
<1>10. Ahead'
  BY Zenon, <1>1, <1>2, <1>9 DEF Ahead, After, Selected, InRange
<1>11. SentOnlySelected'
  BY Zenon, <1>1, <1>2, <1>3, <1>5 DEF SentOnlySelected, Selected, InRange
<1>12. Repeats'
  <2>0. Faults' = Faults
    BY Zenon, <1>1 DEF Faults
  <2>1. sent[e] <= Faults
    BY Zenon, <1>1, <1>3 DEF Repeats
  <2>2. \A d \in Events : sent'[d] <= 1 + Faults
    BY <1>2, <1>5, <2>1 DEF Repeats
  <2>3. ASSUME NEW d \in Events, After(d, CursorOf(e)) PROVE sent'[d] <= Faults
    <3>1. d # e
      BY Zenon, <2>3, CursorOrder, Order
    <3> QED
      BY Zenon, <1>1, <1>5, <1>9, <2>3, <3>1 DEF Repeats
  <2> QED
    BY Zenon, <1>1, <2>0, <2>2, <2>3 DEF Repeats, After
<1> QED
  BY Zenon, <1>4, <1>8, <1>10, <1>11, <1>12

\* The Redis client sends the XADD of a row again; the row lies ahead.
LEMMA ResendStep ==
    ASSUME PagingInv, NEW e \in Events, Publish(e), ~UNCHANGED resends
    PROVE  PagingInv'
<1> USE DEF PagingInv
<1>1. /\ e \in page /\ pc = "publish" /\ resends < MaxResends /\ resends' = resends + 1
      /\ sent' = [sent EXCEPT ![e] = @ + 1]
      /\ UNCHANGED <<stored, known, pc, cursor, limit, page, published, last, failures>>
  BY Zenon DEF Publish, IsNext
<1>2. /\ page \subseteq Events /\ sent \in [Events -> Nat] /\ page \subseteq stored
      /\ Faults \in Nat /\ Faults' = Faults + 1
      /\ known \subseteq Events
  BY <1>1 DEF TypeOK, Faults
<1>3. TypeOK'
  BY <1>1 DEF TypeOK
<1>4. \A d \in Events : /\ sent'[d] = IF d = e THEN sent[d] + 1 ELSE sent[d]
                        /\ sent[d] \in Nat
  BY Zenon, <1>1, <1>2
<1>5. \A d \in Events : sent[d] > 0 => sent'[d] > 0
  BY <1>4
<1>6. Behind'
  BY ZenonT(60), <1>1, <1>2, <1>5 DEF Behind, Beyond, Cut, After, Before, Selected, InRange
<1>7. Ahead'
  BY Zenon, <1>1 DEF Ahead, After, Selected, InRange
<1>8. SentOnlySelected'
  BY Zenon, <1>1, <1>2, <1>4 DEF SentOnlySelected, Ahead, Selected, InRange
<1>9. Repeats'
  <2>1. \A d \in Events : sent[d] <= 1 + Faults => sent'[d] <= 1 + Faults' \/ d = e
    BY <1>2, <1>4
  <2>2. \A d \in Events : sent[d] <= Faults => sent'[d] <= Faults' /\ sent'[d] <= 1 + Faults'
    BY <1>2, <1>4
  <2>3. sent[e] <= Faults
    BY Zenon, <1>1 DEF Ahead, Repeats
  <2> QED
    BY ZenonT(60), <1>1, <2>1, <2>2, <2>3 DEF Repeats, After
<1> QED
  BY Zenon, <1>3, <1>6, <1>7, <1>8, <1>9

\* What a request leaves behind when it ends with a cursor for the next one.
LEMMA AnsweredStep ==
    ASSUME PagingInv, NEW c \in Cursors, Answered("query", c), pc \in {"query", "publish"},
           sent' \in [Events -> Nat], failures' \in 0..MaxFailures,
           \A e \in Events : sent'[e] >= sent[e],
           \A e \in known \cap Selected : After(e, c) \/ sent[e] > 0,
           SentOnlySelected', \A e \in Events : sent'[e] <= 1 + Faults',
           \A e \in Events : After(e, c) => sent'[e] <= Faults'
    PROVE  PagingInv'
<1> USE DEF PagingInv
<1>1. /\ pc' = "query" /\ cursor' = c
      /\ limit' = 1 /\ page' = {} /\ published' = 0 /\ last' = NoCursor
      /\ UNCHANGED <<stored, known, resends>>
  BY Zenon DEF Answered
<1>2. TypeOK'
  BY SMTT(30), <1>1, CursorType DEF TypeOK
<1>3. \A e \in known \cap Selected : After(e, c) \/ sent'[e] > 0
  BY DEF TypeOK
<1>4. Behind'
  BY ZenonT(60), <1>1, <1>3 DEF Behind, After, Selected, InRange
<1>5. Ahead' /\ Repeats'
  BY <1>1 DEF Ahead, Repeats, After
<1> QED
  BY Zenon, <1>2, <1>4, <1>5

\* The rows that the limit cut off come after the last row.
LEMMA AnswerMoreStep ==
    ASSUME PagingInv, AnswerMore
    PROVE  PagingInv'
<1> USE DEF PagingInv
<1>1. /\ pc = "publish" /\ published >= limit
      /\ Answered("query", last) /\ UNCHANGED <<sent, failures, resends>> /\ UNCHANGED stored
  BY Zenon DEF AnswerMore, Answered
<1>2. published > 0 /\ last \in Cursors
  BY <1>1 DEF TypeOK
<1>3. ASSUME NEW e \in known \cap Selected, ~ After(e, last) PROVE sent[e] > 0
  BY Zenon, <1>1, <1>3 DEF Behind, Ahead, Beyond
<1>4. ASSUME NEW e \in Events, After(e, last) PROVE sent'[e] <= Faults'
  BY Zenon, <1>1, <1>2, <1>4 DEF Ahead, Repeats, Faults
<1>5. SentOnlySelected' /\ \A e \in Events : sent'[e] <= 1 + Faults'
  BY Zenon, <1>1 DEF SentOnlySelected, Repeats, Faults, Selected, InRange
<1>6. sent' \in [Events -> Nat] /\ failures' \in 0..MaxFailures
  BY Zenon, <1>1 DEF TypeOK
<1>7. \A e \in Events : sent'[e] >= sent[e]
  BY <1>1 DEF TypeOK
<1> QED
  BY Zenon, <1>1, <1>2, <1>3, <1>4, <1>5, <1>6, <1>7, AnsweredStep

\* A page without further rows was not cut off: nothing is left out.
LEMMA AnswerLastStep ==
    ASSUME PagingInv, AnswerLast
    PROVE  PagingInv'
<1> USE DEF PagingInv
<1>1. /\ pc = "publish" /\ page = {}
      /\ pc' = "done" /\ cursor' = NoCursor
      /\ limit' = 1 /\ page' = {} /\ published' = 0 /\ last' = NoCursor
      /\ UNCHANGED <<stored, known, sent, failures, resends>>
  BY Zenon DEF AnswerLast, Answered
<1>2. ~ Cut
  BY <1>1, FS_EmptySet DEF Cut, TypeOK
<1>3. \A e \in known \cap Selected : sent[e] > 0
  BY Zenon, <1>1, <1>2 DEF Behind, Beyond
<1>4. TypeOK'
  BY <1>1, CursorType DEF TypeOK
<1>5. Behind'
  BY Zenon, <1>1, <1>3 DEF Behind, Selected, InRange
<1>6. Ahead' /\ SentOnlySelected' /\ Repeats'
  BY Zenon, <1>1 DEF Ahead, SentOnlySelected, Repeats, Faults, Selected, InRange
<1> QED
  BY Zenon, <1>4, <1>5, <1>6

\* A failed request is repeated from its cursor.  The one entry that its last
\* XADD may have added is that of a row which lies ahead.
LEMMA FailsStep ==
    ASSUME PagingInv, RequestFails
    PROVE  PagingInv'
<1> USE DEF PagingInv
<1>1. /\ pc \in {"query", "publish"} /\ failures < MaxFailures
      /\ failures' = failures + 1 /\ Answered("query", cursor)
      /\ UNCHANGED <<stored, resends>>
  BY Zenon DEF RequestFails, Answered
<1>2. /\ cursor \in Cursors /\ sent \in [Events -> Nat]
      /\ Faults \in Nat /\ Faults' = Faults + 1
      /\ page \subseteq Events /\ page \subseteq stored
  BY <1>1 DEF TypeOK, Faults
<1>3. failures' \in 0..MaxFailures
  BY <1>1 DEF TypeOK
<1>4. \A e \in known \cap Selected : After(e, cursor) \/ sent[e] > 0
  BY Zenon DEF Behind
<1>5. /\ sent' \in [Events -> Nat]
      /\ \A e \in Events : sent'[e] >= sent[e] /\ sent'[e] <= Faults'
      /\ \A e \in Events : sent'[e] > 0 => e \in stored \cap Selected
  <2>1. CASE UNCHANGED sent
    BY SMTT(30), <1>1, <1>2, <2>1 DEF Repeats, SentOnlySelected
  <2>2. ASSUME NEW e \in page, sent' = [sent EXCEPT ![e] = @ + 1]
        PROVE  <1>5!:
    <3>1. sent[e] <= Faults /\ e \in stored \cap Selected
      BY Zenon, <1>1, <1>2 DEF Ahead, Repeats
    <3> QED
      BY <1>1, <1>2, <2>2, <3>1 DEF Repeats, SentOnlySelected
  <2> QED
    BY Zenon, <2>1, <2>2 DEF RequestFails
<1>6. SentOnlySelected'
  BY ZenonT(60), <1>1, <1>5 DEF SentOnlySelected, Selected, InRange
<1>7. \A e \in Events : sent'[e] <= 1 + Faults'
  BY <1>1, <1>2, <1>5
<1> QED
  BY ZenonT(60), <1>1, <1>2, <1>3, <1>4, <1>5, <1>6, <1>7, AnsweredStep

LEMMA PagingStep == PagingInv /\ [Next]_vars => PagingInv'
<1> SUFFICES ASSUME PagingInv, [Next]_vars PROVE PagingInv'
  BY Zenon
<1>1. CASE \E e \in Events : Commit(e)
  BY Zenon, <1>1, CommitStep
<1>2. CASE Start
  BY Zenon, <1>2, StartStep
<1>3. CASE Query
  BY ZenonT(60), <1>3, QueryStep
<1>4. CASE \E e \in Events : Publish(e)
  BY ZenonT(60), <1>4, ReturnsStep, ResendStep
<1>5. CASE AnswerMore
  BY Zenon, <1>5, AnswerMoreStep
<1>6. CASE AnswerLast
  BY Zenon, <1>6, AnswerLastStep
<1>7. CASE RequestFails
  BY Zenon, <1>7, FailsStep
<1>8. CASE UNCHANGED vars
  BY Zenon, <1>8 DEF vars, PagingInv, TypeOK, Behind, Beyond, Cut, Ahead, SentOnlySelected, Repeats,
              Faults, After, Before, Selected, InRange
<1> QED
  BY ZenonT(60), <1>1, <1>2, <1>3, <1>4, <1>5, <1>6, <1>7, <1>8 DEF Next, Page

LEMMA PagingAlways == Spec => []PagingInv
  BY PagingInit, PagingStep, PTL DEF Spec

-----------------------------------------------------------------------------
\* When the client of POST /replay has seen the last page, every event of its
\* range that was stored when it began has been published, for any events,
\* equal created_at times, limits, late commits and failed requests; and
\* nothing outside of the request ever is.
THEOREM ReplayPublishesAll == Spec => []ReplayComplete
<1>1. PagingInv => ReplayComplete
  BY Zenon DEF PagingInv, Behind, SentOnlySelected, ReplayComplete
<1> QED
  BY <1>1, PagingAlways, PTL

\* No event is published more often than once, and once for each failed request
\* and for each XADD that the Redis client had to repeat: next_cursor never goes
\* back over a page that was answered.
THEOREM RepeatsAreFailures == Spec => []RepeatsNeedFailures
<1>1. ASSUME TypeOK PROVE 1 + Faults = 1 + failures + resends
  BY <1>1 DEF TypeOK, Faults
<1>2. PagingInv => RepeatsNeedFailures
  BY Zenon, <1>1 DEF PagingInv, Repeats, RepeatsNeedFailures
<1> QED
  BY <1>2, PagingAlways, PTL

-----------------------------------------------------------------------------
(* The explanation of an event.                                           *)

HIDE ReplayAssumption

\* The two ways to a recovery status agree on every valid snapshot.
LEMMA StatusesAgree == \A s \in Snapshots : DeterministicStatus(s) = RecoveryStatus(s)
<1> SUFFICES ASSUME NEW s \in Snapshots PROVE DeterministicStatus(s) = RecoveryStatus(s)
  BY Zenon
<1>1. /\ s.delivered \in BOOLEAN /\ s.dlq \in BOOLEAN /\ s.redrives \in 0..1 /\ s.retries \in 0..1
      /\ s.redrives > 0 => s.dlq
  BY DEF Snapshots
<1> QED
  BY <1>1 DEF DeterministicStatus, RecoveryStatus

\* A draft that validate_explanation may be given.
Drafted ==
    /\ draft.citations \subseteq Chunks /\ draft.evidence \in Nat
    /\ draft.status = RecoveryStatus(snapshot)

\* What a request has made so far.
Asked ==
    /\ up \in BOOLEAN /\ snapshot \in Snapshots /\ retrieved \subseteq Chunks
    /\ provider \in {"deterministic", "openai", "ollama"}

Clocked ==
    /\ time \in CallTimes(provider)
    /\ stage \in {"send", "generate"} => time = 0

Staged ==
    /\ stage \in {"send", "generate", "validate", "fallback", "return", "error", "done"}
    /\ answer \in {0, 200, 502, 503}
    /\ stage # "done" => answer = 0

Made ==
    /\ draft = NoDraft \/ Drafted
    /\ stage = "validate" => Drafted
    /\ (stage = "return" \/ answer = 200) => Drafted /\ Valid(draft)

ExplainInv == Asked /\ Clocked /\ Staged /\ Made

LEMMA EvidenceIsNat == \A s \in Snapshots : BuildEvidence(s) \in Nat
<1> SUFFICES ASSUME NEW s \in Snapshots PROVE BuildEvidence(s) \in Nat
  BY Zenon
<1>1. s.attempts \in Attempts /\ s.retries \in 0..1
  BY Zenon DEF Snapshots
<1>2. s.attempts \in Nat /\ s.retries \in Nat
  <2>1. 0..20 \subseteq Nat /\ 0..1 \subseteq Nat
    OBVIOUS
  <2> QED
    BY Zenon, <1>1, <2>1, ExplanationAssumption
<1> QED
  BY <1>2 DEF BuildEvidence, MaxEvidence

LEMMA DraftIs ==
    ASSUME NEW mode, NEW by, NEW cites \in SUBSET Chunks, NEW text, snapshot \in Snapshots,
           draft' = Draft(mode, by, cites, text, RecoveryStatus(snapshot)), snapshot' = snapshot
    PROVE  Drafted' /\ draft'.citations = cites /\ draft'.text = text
  BY Zenon, EvidenceIsNat DEF Draft, Drafted, RecoveryStatus

LEMMA Timeouts ==
    /\ DOMAIN ProviderTimeout = {"deterministic", "openai", "ollama"}
    /\ \A p \in DOMAIN ProviderTimeout : /\ 0 \in CallTimes(p)
                                         /\ \A d \in CallTimes(p) : 0 + d \in CallTimes(p)
<1>1. /\ DOMAIN ProviderTimeout = {"deterministic", "openai", "ollama"}
      /\ \A p \in DOMAIN ProviderTimeout : ProviderTimeout[p] \in Nat
  BY ExplanationAssumption DEF ProviderTimeout
<1>2. ASSUME NEW n \in Nat PROVE Waits * n \in Nat /\ \A d \in 0..Waits * n : 0 + d \in 0..Waits * n
  BY ExplanationAssumption
<1>3. ASSUME NEW n \in Nat PROVE 0 \in 0..Waits * n
  BY <1>2
<1> QED
  BY Zenon, <1>1, <1>2, <1>3 DEF CallTimes

LEMMA ExplainInitInv == ExplainInit => ExplainInv
<1> SUFFICES ASSUME ExplainInit PROVE ExplainInv
  BY Zenon
<1>1. Asked /\ Staged /\ Made
  BY Timeouts DEF ExplainInit, Asked, Staged, Made
<1>2. Clocked
  BY Timeouts DEF ExplainInit, Clocked
<1> QED
  BY Zenon, <1>1, <1>2 DEF ExplainInv

\* The draft of the deterministic provider cites a chunk that was retrieved.
LEMMA DeterministicDraft ==
    ASSUME ExplainInv, snapshot' = snapshot, retrieved' = retrieved, NEW chunk \in retrieved,
           NEW mode, NEW by,
           \/ draft' = Draft(mode, by, {chunk}, "safe", DeterministicStatus(snapshot))
           \/ draft' = Draft(mode, by, {chunk}, "safe", RecoveryStatus(snapshot))
    PROVE  Drafted' /\ Valid(draft)'
<1>1. snapshot \in Snapshots /\ {chunk} \in SUBSET Chunks /\ {chunk} \subseteq retrieved
  BY Zenon DEF ExplainInv, Asked
<1>2. draft' = Draft(mode, by, {chunk}, "safe", RecoveryStatus(snapshot))
  BY Zenon, <1>1, StatusesAgree
<1>3. Drafted' /\ draft'.citations = {chunk} /\ draft'.text = "safe"
  BY Zenon, <1>1, <1>2, DraftIs
<1> QED
  BY Zenon, <1>1, <1>3 DEF Valid

LEMMA GenerateStep ==
    ASSUME ExplainInv, Generate
    PROVE  ExplainInv'
<1>1. /\ stage = "generate" /\ time = 0 /\ answer = 0 /\ snapshot \in Snapshots
      /\ UNCHANGED <<provider, up, snapshot, retrieved, answer>>
      /\ stage' \in {"validate", "fallback"}
  BY ZenonT(60) DEF Generate, ExplainInv, Clocked, Staged, Asked
<1>2. Drafted'
  <2>1. CASE provider = "deterministic"
    <3>1. PICK chunk \in retrieved : draft' = Draft("deterministic_runbook", "deterministic",
                                                    {chunk}, "safe", DeterministicStatus(snapshot))
      BY Zenon, <2>1 DEF Generate
    <3> QED
      BY Zenon, <1>1, <3>1, DeterministicDraft
  <2>2. CASE provider # "deterministic"
    <3>1. PICK cites \in SUBSET Chunks, text \in {"safe", "forbidden"} :
              draft' = Draft("llm_grounded", provider, cites, text, RecoveryStatus(snapshot))
      BY Zenon, <2>2 DEF Generate
    <3> QED
      BY Zenon, <1>1, <3>1, DraftIs
  <2> QED
    BY Zenon, <2>1, <2>2
<1>3. time' \in CallTimes(provider)
  <2>1. provider \in DOMAIN ProviderTimeout
    BY Zenon, Timeouts DEF ExplainInv, Asked
  <2>2. time' = time \/ \E d \in CallTimes(provider) : time' = time + d
    BY Zenon DEF Generate
  <2> QED
    BY Zenon, <1>1, <2>1, <2>2, Timeouts
<1>4. Asked' /\ Staged'
  BY <1>1 DEF ExplainInv, Asked, Staged
<1>5. Clocked'
  BY Zenon, <1>1, <1>3 DEF Clocked
<1>6. Made'
  BY SMTT(30), <1>1, <1>2 DEF Made
<1> QED
  BY Zenon, <1>4, <1>5, <1>6 DEF ExplainInv

LEMMA RaisesStep ==
    ASSUME ExplainInv, GenerateRaises
    PROVE  ExplainInv'
<1>1. /\ stage = "generate" /\ stage' = "fallback" /\ time = 0 /\ answer = 0
      /\ \E d \in CallTimes(provider) : time' = time + d
      /\ UNCHANGED <<provider, up, snapshot, retrieved, draft, answer>>
  BY ZenonT(60) DEF GenerateRaises, ExplainInv, Clocked, Staged
<1>2. provider \in DOMAIN ProviderTimeout
  BY Zenon, Timeouts DEF ExplainInv, Asked
<1>3. time' \in CallTimes(provider)
  BY Zenon, <1>1, <1>2, Timeouts
<1>4. Asked' /\ Staged'
  BY ZenonT(60), <1>1 DEF ExplainInv, Asked, Staged
<1>5. Clocked'
  BY Zenon, <1>1, <1>3 DEF Clocked
<1>6. Made'
  BY <1>1 DEF ExplainInv, Made, Drafted
<1> QED
  BY Zenon, <1>4, <1>5, <1>6 DEF ExplainInv

LEMMA FallbackStep ==
    ASSUME ExplainInv, Fallback
    PROVE  ExplainInv'
<1>1. /\ stage = "fallback" /\ answer = 0 /\ stage' \in {"return", "error"}
      /\ UNCHANGED <<provider, up, snapshot, retrieved, time, answer>>
  BY ZenonT(60) DEF Fallback, ExplainInv, Staged
<1>2. PICK chunk \in retrieved :
        draft' = IF provider = "deterministic"
                 THEN Draft("deterministic_runbook", "deterministic", {chunk}, "safe",
                            RecoveryStatus(snapshot))
                 ELSE Draft("deterministic_fallback", "deterministic", {chunk}, "safe",
                            DeterministicStatus(snapshot))
  BY Zenon DEF Fallback
<1>3. Drafted' /\ Valid(draft)'
  BY Zenon, <1>1, <1>2, DeterministicDraft
<1>4. Asked' /\ Staged' /\ Clocked'
  BY <1>1 DEF ExplainInv, Asked, Staged, Clocked
<1>5. Made'
  BY Zenon, <1>1, <1>3 DEF Made
<1> QED
  BY Zenon, <1>4, <1>5 DEF ExplainInv

\* The steps that leave the draft alone.
LEMMA PassOnStep ==
    ASSUME ExplainInv, UNCHANGED <<provider, up, snapshot, retrieved, time, draft>>, Staged',
           stage \in {"send", "generate"} \/ stage' \notin {"send", "generate"},
           stage' = "validate" => stage = "validate",
           (stage' = "return" \/ answer' = 200) => Valid(draft) /\ Drafted
    PROVE  ExplainInv'
<1>1. Asked' /\ Clocked'
  BY Zenon DEF ExplainInv, Asked, Clocked
<1>2. (Drafted => Drafted') /\ (Valid(draft) => Valid(draft)')
  BY Zenon DEF Drafted, Valid
<1>3. Made'
  BY ZenonT(60), <1>2 DEF ExplainInv, Made
<1> QED
  BY Zenon, <1>1, <1>3 DEF ExplainInv

LEMMA ExplainStep == ExplainInv /\ [ExplainNext]_explainVars => ExplainInv'
<1> SUFFICES ASSUME ExplainInv, [ExplainNext]_explainVars PROVE ExplainInv'
  BY Zenon
<1>1. CASE Retrieve
  <2>1. retrieved' \subseteq Chunks /\ stage = "send" /\ stage' = "generate" /\ answer = 0
        /\ UNCHANGED <<provider, up, snapshot, time, draft, answer>>
    BY ZenonT(60), <1>1 DEF Retrieve, ExplainInv, Staged
  <2>2. Asked' /\ Staged' /\ Clocked'
    BY ZenonT(60), <2>1 DEF ExplainInv, Asked, Staged, Clocked
  <2>3. Made'
    BY SMTT(30), <2>1 DEF ExplainInv, Made, Drafted
  <2> QED
    BY Zenon, <2>2, <2>3 DEF ExplainInv
<1>2. CASE Validate
  <2>1. stage = "validate" /\ stage' \in {"return", "fallback"} /\ (stage' = "return" => Valid(draft))
        /\ UNCHANGED <<provider, up, snapshot, retrieved, time, draft, answer>> /\ answer = 0
    BY ZenonT(60), <1>2 DEF Validate, ExplainInv, Staged
  <2>2. Staged' /\ Drafted
    BY ZenonT(60), <2>1 DEF ExplainInv, Staged, Made
  <2> QED
    BY <2>1, <2>2, PassOnStep
<1>3. CASE Receive \/ NoExplanation \/ Unreachable
  <2>1. stage' = "done" /\ UNCHANGED <<provider, up, snapshot, retrieved, time, draft>>
    BY ZenonT(60), <1>3 DEF Receive, NoExplanation, Unreachable, Answer
  <2>2. answer' \in {200, 502, 503} /\ (answer' = 200 => stage = "return")
    <3>1. Receive => stage = "return" /\ answer' \in {200, 502}
      BY ZenonT(60) DEF Receive, Answer
    <3>2. NoExplanation \/ Unreachable => answer' = 503
      BY Zenon DEF NoExplanation, Unreachable, Answer
    <3>3. 503 # 200
      OBVIOUS
    <3> QED
      BY <1>3, <3>1, <3>2, <3>3
  <2>3. Staged' /\ (answer' = 200 => Valid(draft) /\ Drafted)
    BY <2>1, <2>2 DEF ExplainInv, Staged, Made
  <2> QED
    BY Zenon, <2>1, <2>3, PassOnStep
<1>4. CASE UNCHANGED explainVars
  <2>1. UNCHANGED <<provider, up, snapshot, retrieved, time, draft, stage, answer>>
    BY Zenon, <1>4 DEF explainVars
  <2>2. Staged' /\ ((stage = "return" \/ answer = 200) => Valid(draft) /\ Drafted)
    BY <2>1 DEF ExplainInv, Staged, Made
  <2> QED
    BY Zenon, <2>1, <2>2, PassOnStep
<1> QED
  BY ZenonT(60), <1>1, <1>2, <1>3, <1>4, GenerateStep, RaisesStep, FallbackStep DEF ExplainNext

LEMMA ExplainAlways == ExplainSpec => []ExplainInv
  BY ExplainInitInv, ExplainStep, PTL DEF ExplainSpec

\* Whatever the timeouts, the runbooks, the snapshot and the provider's answer
\* (explain, validate_explanation, _fallback), an explanation that reaches the
\* operator cites only chunks that were retrieved and says nothing forbidden.
THEOREM AnswersAreGrounded == ExplainSpec => []AnswerIsGrounded
<1>1. ExplainInv => AnswerIsGrounded
  BY ZenonT(60) DEF ExplainInv, Asked, Clocked, Staged, Made, AnswerIsGrounded, ExplainTypeOK, Drafted, Valid
<1> QED
  BY <1>1, ExplainAlways, PTL

\* The recovery status of an explanation is the one its snapshot implies
\* (recovery_status_for_request), whichever provider made it: the texts of
\* DeterministicExplanationProvider never say anything else.
THEOREM StatusesAreFacts == ExplainSpec => []StatusIndependentOfProvider
<1>1. ExplainInv => StatusIndependentOfProvider
  BY Zenon DEF ExplainInv, Made, StatusIndependentOfProvider, Drafted
<1> QED
  BY <1>1, ExplainAlways, PTL
=============================================================================
