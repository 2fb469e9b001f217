----------------------------- MODULE AluProofs ------------------------------
(***************************************************************************)
(* What the adder of Alu computes, at every width: a value, which is a set *)
(* of bit positions, and its number determine each other, and the sums of  *)
(* numbers are those of arithmetic modulo a power of two.                  *)
(***************************************************************************)
EXTENDS Alu, FiniteSetTheorems, WellFoundedInduction, TLAPS

-----------------------------------------------------------------------------
(* Numbers.                                                                *)

\* A set of naturals has a least member; what holds of 0 and is handed on
\* holds of all.
LEMMA LeastMember ==
  ASSUME NEW S \in SUBSET Nat, S # {}
  PROVE  Min(S) \in S /\ \A i \in S : Min(S) <= i
<1>. DEFINE Below == OpToRel(<, Nat)
<1>1. PICK x \in S : \A y \in S : <<y, x>> \notin Below
  <2>. HIDE DEF Below
  <2>1. IsWellFoundedOn(Below, Nat)
    BY NatLessThanWellFounded DEF Below
  <2>. QED
    BY <2>1, WFMin
<1>2. \A y \in S : ~(y < x)
  BY <1>1 DEF OpToRel
<1>3. \A y \in S : x <= y
  BY <1>2
<1>. QED
  BY <1>3 DEF Min

LEMMA HandedOn ==
  ASSUME NEW S, 0 \in S, \A n \in Nat : n \in S => n + 1 \in S
  PROVE  Nat \subseteq S
<1>. DEFINE Bad == Nat \ S
<1>1. SUFFICES ASSUME Bad # {} PROVE FALSE
  OBVIOUS
<1>2. PICK n \in Bad : \A i \in Bad : n <= i
  <2>1. Bad \in SUBSET Nat
    OBVIOUS
  <2>. HIDE DEF Bad
  <2>. QED
    BY <1>1, <2>1, LeastMember
<1>3. n - 1 \in Nat /\ n - 1 \notin Bad /\ n - 1 + 1 = n
  BY <1>2
<1>. QED
  BY <1>2, <1>3

LEMMA LowSize == ASSUME NEW n \in Nat PROVE IsFiniteSet(Low(n)) /\ Cardinality(Low(n)) = n
BY FS_Interval DEF Low

\* A power of two is the number of subsets, and one more position doubles
\* them.
LEMMA DisjointUnion ==
  ASSUME NEW A, NEW B, IsFiniteSet(A), IsFiniteSet(B), A \cap B = {}
  PROVE  Cardinality(A \cup B) = Cardinality(A) + Cardinality(B)
<1>1. Cardinality(A \cap B) = 0
  BY FS_EmptySet
<1>2. Cardinality(A) \in Nat /\ Cardinality(B) \in Nat
  BY FS_CardinalityType
<1>3. Cardinality(A \cup B) = Cardinality(A) + Cardinality(B) - Cardinality(A \cap B)
  BY FS_Union
<1>. QED
  BY <1>1, <1>2, <1>3

LEMMA SameSize ==
  ASSUME NEW A, NEW B, IsFiniteSet(A), NEW f \in [A -> B],
         \A b \in B : \E x \in A : f[x] = b, \A x, y \in A : f[x] = f[y] => x = y
  PROVE  IsFiniteSet(B) /\ Cardinality(B) = Cardinality(A)
<1>1. f \in Bijection(A, B)
  BY DEF Bijection, Injection, Surjection, IsInjective
<1>. QED
  BY <1>1, FS_Bijection DEF ExistsBijection

LEMMA PowerDoubles ==
  ASSUME NEW n \in Nat
  PROVE  2^n \in Nat /\ 2^n >= 1 /\ 2^(n + 1) = 2 * 2^n
<1>. DEFINE A == SUBSET Low(n)
            B == {x \cup {n} : x \in A}
            f == [x \in A |-> x \cup {n}]
<1>1. IsFiniteSet(A) /\ Cardinality(A) = 2^n /\ Cardinality(SUBSET Low(n + 1)) = 2^(n + 1)
  BY LowSize, FS_SUBSET
<1>2. Low(n + 1) = Low(n) \cup {n} /\ n \notin Low(n)
  BY DEF Low
<1>3. SUBSET Low(n + 1) = A \cup B /\ A \cap B = {}
  <2>1. ASSUME NEW x \in SUBSET Low(n + 1), x \notin A
        PROVE  x \in B
    <3>1. n \in x /\ x \ {n} \in A /\ x = (x \ {n}) \cup {n}
      BY <1>2, <2>1
    <3>. QED
      BY <3>1
  <2>. QED
    BY <1>2, <2>1
<1>4. f \in [A -> B] /\ \A b \in B : \E x \in A : f[x] = b
  OBVIOUS
<1>5. \A x, y \in A : f[x] = f[y] => x = y
  BY <1>2
<1>6. A # {}
  OBVIOUS
<1>. HIDE DEF A, B, f
<1>7. IsFiniteSet(B) /\ Cardinality(B) = Cardinality(A)
  BY <1>1, <1>4, <1>5, SameSize
<1>8. Cardinality(A) \in Nat /\ Cardinality(A) # 0
  BY <1>1, <1>6, FS_CardinalityType, FS_EmptySet
<1>9. Cardinality(A \cup B) = Cardinality(A) + Cardinality(B)
  BY <1>1, <1>3, <1>7, DisjointUnion
<1>10. 2^(n + 1) = Cardinality(A) + Cardinality(A) /\ 2^n = Cardinality(A)
  BY <1>1, <1>3, <1>7, <1>9
<1>. QED
  BY <1>8, <1>10

LEMMA PowerIsPositive == ASSUME NEW s \in 0 .. W PROVE s \in Nat /\ 2^s \in Nat \ {0}
<1>1. s \in Nat
  BY AluAssumption
<1>. QED
  BY <1>1, PowerDoubles

LEMMA PowerOfZero == 2^0 = 1
OBVIOUS

\* Division has one result.
LEMMA OneQuotient ==
  ASSUME NEW p \in Nat \ {0}, NEW q \in Int, NEW u \in Int, NEW r \in 0 .. p - 1, NEW t \in 0 .. p - 1,
         p * q + r = p * u + t
  PROVE  q = u /\ r = t
<1>1. p * (q - u) = t - r
  OBVIOUS
<1>2. CASE q - u >= 1
  <2>1. p * (q - u) >= p
    BY <1>2
  <2>. QED
    BY <1>1, <2>1
<1>3. CASE u - q >= 1
  <2>1. p * (q - u) <= -p
    BY <1>3
  <2>. QED
    BY <1>1, <2>1
<1>. QED
  BY <1>1, <1>2, <1>3

LEMMA Divided ==
  ASSUME NEW n \in Int, NEW p \in Nat \ {0}
  PROVE  n = p * (n \div p) + (n % p) /\ n % p \in 0 .. p - 1 /\ n \div p \in Int
OBVIOUS

LEMMA Division ==
  ASSUME NEW p \in Nat \ {0}, NEW n \in Int, NEW q \in Int, NEW r \in 0 .. p - 1, n = p * q + r
  PROVE  n \div p = q /\ n % p = r
<1>1. n = p * (n \div p) + (n % p) /\ n % p \in 0 .. p - 1 /\ n \div p \in Int
  BY Divided
<1>2. p * (n \div p) + (n % p) = p * q + r
  BY <1>1
<1>. HIDE <1>1
<1>. QED
  BY <1>1, <1>2, OneQuotient

\* What is left modulo p does not change by multiples of p.
LEMMA SameRemainder ==
  ASSUME NEW p \in Nat \ {0}, NEW n \in Int, NEW m \in Int, NEW q \in Int, n = m + p * q
  PROVE  n % p = m % p
<1>1. m = p * (m \div p) + (m % p) /\ m % p \in 0 .. p - 1 /\ m \div p \in Int
  BY Divided
<1>. DEFINE d == m \div p   r == m % p
<1>2. d \in Int /\ r \in 0 .. p - 1 /\ m = p * d + r
  BY <1>1
<1>. HIDE DEF d, r
<1>3. n = p * (d + q) + r /\ d + q \in Int
  BY <1>2
<1>4. n % p = r
  BY <1>2, <1>3, Division
<1>. QED
  BY <1>4 DEF r

LEMMA SmallRemainder ==
  ASSUME NEW p \in Nat \ {0}, NEW n \in 0 .. p - 1
  PROVE  n % p = n
<1>1. n = p * 0 + n
  OBVIOUS
<1>. QED
  BY <1>1, Division

\* One more bit of a number.
LEMMA NextBit ==
  ASSUME NEW p \in Nat \ {0}, NEW n \in Int
  PROVE  n % (2 * p) = (n % p) + p * ((n \div p) % 2)
<1>. DEFINE d == n \div p   r == n % p   e == d \div 2   b == d % 2
<1>1. d \in Int /\ r \in 0 .. p - 1 /\ n = p * d + r
  BY Divided
<1>. HIDE DEF d, r
<1>2. e \in Int /\ b \in 0 .. 1 /\ d = 2 * e + b
  BY <1>1, Divided
<1>. HIDE DEF e, b
<1>3. p * d = p * (2 * e) + p * b
  BY <1>1, <1>2
<1>4. p * (2 * e) = (2 * p) * e /\ (2 * p) * e \in Int
  BY <1>2
<1>5. p * b \in {0, p}
  BY <1>2
<1>6. p * b + r \in 0 .. 2 * p - 1 /\ 2 * p \in Nat \ {0}
  BY <1>1, <1>5
<1>7. n = (2 * p) * e + (p * b + r)
  <2>. DEFINE x == (2 * p) * e   y == p * b   z == p * d
  <2>1. x \in Int /\ y \in Int /\ z = x + y /\ n = z + r /\ r \in Int
    BY <1>1, <1>3, <1>4, <1>5
  <2>. HIDE DEF x, y, z
  <2>2. n = x + (y + r)
    BY <2>1
  <2>. QED
    BY <2>2 DEF x, y
<1>8. n % (2 * p) = p * b + r
  <2>. DEFINE x == 2 * p   y == p * b + r
  <2>1. x \in Nat \ {0} /\ y \in 0 .. x - 1 /\ n = x * e + y
    BY <1>6, <1>7
  <2>. HIDE DEF x, y
  <2>2. n % x = y
    BY <1>2, <2>1, Division
  <2>. QED
    BY <2>2 DEF x, y
<1>9. n % (2 * p) = r + p * b
  BY <1>1, <1>5, <1>8
<1>. QED
  BY <1>9 DEF d, r, b

-----------------------------------------------------------------------------
(* The number of a value.                                                  *)

\* t weighs the positions below n by their powers of two.
Weighs(t, n) ==
  /\ t \in [SUBSET Low(n) -> Nat] /\ t[{}] = 0
  /\ \A s \in SUBSET Low(n) : \A x \in s : t[s] = t[s \ {x}] + 2^x

LEMMA WeightsExist == ASSUME NEW n \in Nat PROVE \E t : Weighs(t, n)
<1>. DEFINE S == {m \in Nat : \E t : Weighs(t, m)}
<1>1. 0 \in S
  <2>1. Low(0) = {}
    BY DEF Low
  <2>2. Weighs([s \in SUBSET Low(0) |-> 0], 0)
    BY <2>1 DEF Weighs
  <2>. QED
    BY <2>2
<1>2. ASSUME NEW m \in Nat, m \in S PROVE m + 1 \in S
  <2>1. PICK t : Weighs(t, m)
    BY <1>2
  <2>. DEFINE T == Low(m + 1)
              p == 2^m
              v == [s \in SUBSET T |-> t[s \ {m}] + (IF m \in s THEN p ELSE 0)]
  <2>2. T = Low(m) \cup {m} /\ m \notin Low(m)
    BY DEF Low
  <2>3. \A s \in SUBSET T : s \ {m} \in SUBSET Low(m) /\ t[s \ {m}] \in Nat
    BY <2>1, <2>2 DEF Weighs
  <2>4. p \in Nat
    BY PowerDoubles
  <2>5. v \in [SUBSET T -> Nat]
    <3>. HIDE DEF T, p
    <3>. QED
      BY <2>3, <2>4
  <2>6. v[{}] = 0
    <3>1. {} \ {m} = {} /\ t[{}] = 0
      BY <2>1 DEF Weighs
    <3>. HIDE DEF T, p
    <3>. QED
      BY <3>1
  <2>7. ASSUME NEW s \in SUBSET T, NEW x \in s PROVE v[s] = v[s \ {x}] + 2^x
    <3>1. s \ {x} \in SUBSET T /\ x \in Nat
      BY DEF Low
    <3>2. 2^x \in Nat
      BY <3>1, PowerDoubles
    <3>3. /\ v[s] = t[s \ {m}] + (IF m \in s THEN p ELSE 0)
          /\ v[s \ {x}] = t[(s \ {x}) \ {m}] + (IF m \in s \ {x} THEN p ELSE 0)
      BY <3>1
    <3>4. CASE x = m
      <4>1. (s \ {x}) \ {m} = s \ {m} /\ m \in s /\ m \notin s \ {x}
        BY <3>4
      <4>2. v[s] = t[s \ {m}] + p /\ v[s \ {x}] = t[s \ {m}] + 0
        BY <3>3, <4>1
      <4>3. PICK c \in Nat : c = t[s \ {m}]
        BY <2>3
      <4>. HIDE DEF v, p
      <4>4. p = 2^x /\ v[s] = c + p /\ v[s \ {x}] = c
        BY <3>4, <4>2, <4>3 DEF p
      <4>. QED
        BY <4>4
    <3>5. CASE x # m
      <4>1. (s \ {x}) \ {m} = (s \ {m}) \ {x} /\ x \in s \ {m} /\ (m \in s <=> m \in s \ {x})
        BY <3>5
      <4>2. t[s \ {m}] = t[(s \ {m}) \ {x}] + 2^x
        BY <2>1, <2>3, <4>1 DEF Weighs
      <4>3. t[(s \ {x}) \ {m}] \in Nat /\ t[s \ {m}] \in Nat
        BY <2>3, <3>1
      <4>. HIDE DEF v, p
      <4>. QED
        BY SMTT(30), <2>4, <3>2, <3>3, <4>1, <4>2, <4>3
    <3>. QED
      BY <3>4, <3>5
  <2>8. Weighs(v, m + 1)
    BY <2>5, <2>6, <2>7 DEF Weighs
  <2>. HIDE DEF v
  <2>. QED
    BY <2>8
<1>. HIDE DEF S
<1>3. Nat \subseteq S
  BY <1>1, <1>2, HandedOn
<1>. QED
  BY <1>3 DEF S

LEMMA SumIsWeight ==
  ASSUME NEW n \in Nat, NEW S \in SUBSET Low(n), NEW t, Weighs(t, n)
  PROVE  MapThenSumSet(LAMBDA i : 2^i, S) = t[S]
<1>. DEFINE Body(u) == [s \in SUBSET S |-> IF s = {} THEN 0
                          ELSE 2^(CHOOSE x \in s : TRUE) + u[s \ {CHOOSE x \in s : TRUE}]]
            u == CHOOSE u : u = Body(u)
            r == [s \in SUBSET S |-> t[s]]
<1>1. MapThenSumSet(LAMBDA i : 2^i, S) = u[S]
  BY DEF MapThenSumSet, MapThenFoldSet
<1>2. ASSUME NEW s \in SUBSET S
      PROVE  /\ t[s] \in Nat /\ s \in SUBSET Low(n)
             /\ \A x \in s : t[s] = 2^x + t[s \ {x}] /\ s \ {x} \in SUBSET S
  <2>1. s \in SUBSET Low(n) /\ t[s] \in Nat
    BY DEF Weighs
  <2>2. ASSUME NEW x \in s PROVE t[s] = 2^x + t[s \ {x}] /\ s \ {x} \in SUBSET S
    <3>1. x \in Nat /\ s \ {x} \in SUBSET Low(n)
      BY <2>1 DEF Low
    <3>2. 2^x \in Nat /\ t[s \ {x}] \in Nat /\ t[s] = t[s \ {x}] + 2^x
      BY <2>1, <3>1, PowerDoubles DEF Weighs
    <3>. QED
      BY <3>2
  <2>. QED
    BY <2>1, <2>2
<1>3. r = Body(r)
  <2>1. r[{}] = 0
    BY DEF Weighs
  <2>2. ASSUME NEW s \in SUBSET S, s # {}, NEW x, x = CHOOSE y \in s : TRUE
        PROVE  r[s] = 2^x + r[s \ {x}]
    <3>1. x \in s
      BY <2>2
    <3>. QED
      BY <1>2, <3>1
  <2>3. \A s \in SUBSET S : r[s] = IF s = {} THEN 0
                            ELSE 2^(CHOOSE x \in s : TRUE) + r[s \ {CHOOSE x \in s : TRUE}]
    <3>. HIDE DEF r
    <3>. QED
      BY <2>1, <2>2
  <2>. QED
    BY <2>3
<1>4. u = Body(u)
  BY <1>3
<1>5. ASSUME NEW s \in SUBSET S
      PROVE  (s = {} /\ u[s] = 0) \/ \E x \in s : u[s] = 2^x + u[s \ {x}]
  BY <1>4
<1>. HIDE DEF u, r
<1>. DEFINE Bad == {k \in Nat : \E s \in SUBSET S : Cardinality(s) = k /\ u[s] # t[s]}
<1>6. IsFiniteSet(S) /\ \A s \in SUBSET S : IsFiniteSet(s) /\ Cardinality(s) \in Nat
  <2>1. IsFiniteSet(S)
    BY LowSize, FS_Subset
  <2>. QED
    BY <2>1, FS_Subset, FS_CardinalityType
<1>7. SUFFICES ASSUME u[S] # t[S] PROVE FALSE
  BY <1>1
<1>8. PICK k \in Bad : \A i \in Bad : k <= i
  <2>1. Bad \in SUBSET Nat /\ Cardinality(S) \in Bad
    BY <1>6, <1>7
  <2>. HIDE DEF Bad
  <2>. QED
    BY <2>1, LeastMember
<1>9. PICK s \in SUBSET S : Cardinality(s) = k /\ u[s] # t[s]
  BY <1>8
<1>10. PICK x \in s : u[s] = 2^x + u[s \ {x}]
  <2>1. t[{}] = 0
    BY DEF Weighs
  <2>. QED
    BY <1>5, <1>9, <2>1
<1>11. t[s] = 2^x + t[s \ {x}] /\ s \ {x} \in SUBSET S
  BY <1>2
<1>12. Cardinality(s \ {x}) = k - 1 /\ k - 1 \in Nat
  <2>1. IsFiniteSet(s \ {x}) /\ Cardinality(s \ {x}) = k - 1
    BY <1>6, <1>9, FS_RemoveElement
  <2>. QED
    BY <2>1, FS_CardinalityType
<1>13. k - 1 \notin Bad
  BY <1>8
<1>14. u[s \ {x}] = t[s \ {x}]
  BY <1>11, <1>12, <1>13
<1>. QED
  BY <1>9, <1>10, <1>11, <1>14

LEMMA NumberAdds ==
  /\ NatOf[{}] = 0
  /\ \A v \in SUBSET Low(W) :
       /\ NatOf[v] \in Nat
       /\ \A x \in v : NatOf[v] = NatOf[v \ {x}] + 2^x
<1>1. W \in Nat
  BY AluAssumption
<1>2. PICK t : Weighs(t, W)
  BY <1>1, WeightsExist
<1>3. ASSUME NEW v \in SUBSET Low(W) PROVE NatOf[v] = t[v]
  BY <1>1, <1>2, SumIsWeight DEF NatOf
<1>4. \A v \in SUBSET Low(W) : \A x \in v : v \ {x} \in SUBSET Low(W)
  OBVIOUS
<1>. QED
  BY <1>2, <1>3, <1>4 DEF Weighs

\* The bits below k of a value, and one bit more.
LEMMA NumberBelow ==
  ASSUME NEW v \in SUBSET Low(W), NEW k \in Nat
  PROVE  /\ NatOf[v \cap Low(0)] = 0
         /\ NatOf[v \cap Low(k + 1)] = NatOf[v \cap Low(k)] + (IF k \in v THEN 2^k ELSE 0)
<1>1. v \cap Low(0) = {} /\ NatOf[{}] = 0
  BY NumberAdds DEF Low
<1>2. CASE k \in v
  <2>1. /\ v \cap Low(k + 1) \in SUBSET Low(W) /\ k \in v \cap Low(k + 1)
        /\ (v \cap Low(k + 1)) \ {k} = v \cap Low(k)
    BY <1>2 DEF Low
  <2>. QED
    BY <1>1, <1>2, <2>1, NumberAdds
<1>3. CASE k \notin v
  <2>1. v \cap Low(k + 1) = v \cap Low(k)
    BY <1>3 DEF Low
  <2>2. NatOf[v \cap Low(k)] \in Nat
    BY NumberAdds
  <2>. QED
    BY <1>1, <1>3, <2>1, <2>2
<1>. QED
  BY <1>2, <1>3

LEMMA NumberFits ==
  ASSUME NEW s \in 0 .. W, NEW v \in SUBSET Low(s)
  PROVE  v \in SUBSET Low(W) /\ NatOf[v] \in 0 .. 2^s - 1
<1>1. W \in Nat /\ v \in SUBSET Low(W)
  BY AluAssumption DEF Low
<1>. DEFINE S == {k \in Nat : NatOf[v \cap Low(k)] \in 0 .. 2^k - 1}
<1>2. 0 \in S
  <2>1. NatOf[v \cap Low(0)] = 0
    BY <1>1, NumberBelow
  <2>2. 0 \in 0 .. 2^0 - 1
    OBVIOUS
  <2>. QED
    BY <2>1, <2>2
<1>3. ASSUME NEW k \in Nat, k \in S PROVE k + 1 \in S
  <2>. DEFINE p == 2^k   q == 2^(k + 1)   c == NatOf[v \cap Low(k)]   d == NatOf[v \cap Low(k + 1)]
  <2>1. p \in Nat /\ q = 2 * p /\ c \in 0 .. p - 1 /\ d = c + (IF k \in v THEN p ELSE 0)
    BY <1>1, <1>3, PowerDoubles, NumberBelow
  <2>. HIDE DEF p, q, c, d
  <2>2. d \in 0 .. q - 1
    BY <2>1
  <2>. QED
    BY <2>2 DEF d, q
<1>. HIDE DEF S
<1>4. s \in S
  BY <1>1, <1>2, <1>3, HandedOn
<1>5. v \cap Low(s) = v
  OBVIOUS
<1>. QED
  BY <1>1, <1>4, <1>5 DEF S

\* A value without what it shares with another.
LEMMA NumberOfBoth ==
  ASSUME NEW u \in SUBSET Low(W), NEW v \in SUBSET Low(W), u \cap v = {}
  PROVE  NatOf[u \cup v] = NatOf[u] + NatOf[v]
<1>1. W \in Nat
  BY AluAssumption
<1>. DEFINE N(x, k) == NatOf[x \cap Low(k)]
            S == {k \in Nat : N(u \cup v, k) = N(u, k) + N(v, k)}
<1>2. 0 \in S
  <2>1. \A x \in SUBSET Low(W) : N(x, 0) = 0
    BY NumberBelow
  <2>. QED
    BY <2>1
<1>3. ASSUME NEW k \in Nat, k \in S PROVE k + 1 \in S
  <2>. DEFINE p == 2^k
  <2>1. p \in Nat
    BY PowerDoubles
  <2>2. \A x \in SUBSET Low(W) : N(x, k) \in Nat /\ N(x, k + 1) = N(x, k) + (IF k \in x THEN p ELSE 0)
    <3>1. ASSUME NEW x \in SUBSET Low(W)
          PROVE  N(x, k) \in Nat /\ N(x, k + 1) = N(x, k) + (IF k \in x THEN p ELSE 0)
      <4>1. x \cap Low(k) \in SUBSET Low(W)
        OBVIOUS
      <4>2. N(x, k) \in Nat
        BY <4>1, NumberAdds
      <4>. QED
        BY <4>2, NumberBelow
    <3>. QED
      BY <3>1
  <2>3. N(u \cup v, k) = N(u, k) + N(v, k)
    BY <1>3
  <2>4. u \cup v \in SUBSET Low(W)
    OBVIOUS
  <2>. HIDE DEF N, p
  <2>5. N(u \cup v, k + 1) = N(u, k + 1) + N(v, k + 1)
    BY <2>1, <2>2, <2>3, <2>4
  <2>. QED
    BY <2>5
<1>. HIDE DEF S
<1>4. W \in S
  BY <1>1, <1>2, <1>3, HandedOn
<1>5. (u \cup v) \cap Low(W) = u \cup v /\ u \cap Low(W) = u /\ v \cap Low(W) = v
  OBVIOUS
<1>. QED
  BY <1>4, <1>5 DEF S

LEMMA NumberOfAll ==
  ASSUME NEW s \in 0 .. W
  PROVE  NatOf[Low(s)] = 2^s - 1
<1>1. W \in Nat
  BY AluAssumption
<1>. DEFINE S == {k \in Nat : k <= W => NatOf[Low(k)] = 2^k - 1}
<1>2. 0 \in S
  <2>1. Low(0) = {}
    BY DEF Low
  <2>2. NatOf[Low(0)] = 0
    BY <2>1, NumberAdds
  <2>3. 0 = 2^0 - 1
    OBVIOUS
  <2>. QED
    BY <2>2, <2>3
<1>3. ASSUME NEW k \in Nat, k \in S PROVE k + 1 \in S
  <2>1. SUFFICES ASSUME k + 1 <= W PROVE NatOf[Low(k + 1)] = 2^(k + 1) - 1
    OBVIOUS
  <2>2. /\ Low(k + 1) \in SUBSET Low(W) /\ k \in Low(k + 1) /\ Low(k + 1) \ {k} = Low(k)
    BY <1>1, <2>1 DEF Low
  <2>3. NatOf[Low(k + 1)] = NatOf[Low(k)] + 2^k
    BY <2>2, NumberAdds
  <2>4. NatOf[Low(k)] = 2^k - 1
    BY <1>1, <1>3, <2>1
  <2>5. 2^k \in Nat /\ 2^(k + 1) = 2 * 2^k
    BY PowerDoubles
  <2>. QED
    BY <2>3, <2>4, <2>5
<1>. HIDE DEF S
<1>4. s \in S
  BY <1>1, <1>2, <1>3, HandedOn
<1>. QED
  BY <1>4 DEF S

\* The complement's number.
LEMMA NumberOfComplement ==
  ASSUME NEW s \in 0 .. W, NEW v \in SUBSET Low(s)
  PROVE  NatOf[Low(s) \ v] = 2^s - 1 - NatOf[v]
<1>1. Low(s) \ v \in SUBSET Low(s)
  OBVIOUS
<1>2. /\ v \in SUBSET Low(W) /\ NatOf[v] \in Nat
      /\ Low(s) \ v \in SUBSET Low(W) /\ NatOf[Low(s) \ v] \in Nat
  BY <1>1, NumberFits
<1>3. (Low(s) \ v) \cup v = Low(s) /\ (Low(s) \ v) \cap v = {}
  OBVIOUS
<1>4. NatOf[Low(s)] = NatOf[Low(s) \ v] + NatOf[v]
  BY <1>2, <1>3, NumberOfBoth
<1>5. 2^s \in Nat /\ NatOf[Low(s)] = 2^s - 1
  BY NumberOfAll, PowerDoubles
<1>. QED
  BY <1>2, <1>4, <1>5

-----------------------------------------------------------------------------
(* A number's bits.                                                        *)

LEMMA NumberOfBits ==
  ASSUME NEW n \in Int, NEW s \in 0 .. W
  PROVE  Bits(n, s) \in SUBSET Low(s) /\ NatOf[Bits(n, s)] = n % 2^s
<1>1. W \in Nat /\ Bits(n, W) \in SUBSET Low(W)
  BY AluAssumption DEF Bits
<1>2. \A k \in 0 .. W : Bits(n, k) = Bits(n, W) \cap Low(k)
  BY <1>1 DEF Bits, Low
<1>. DEFINE S == {k \in Nat : k <= W => NatOf[Bits(n, W) \cap Low(k)] = n % 2^k}
<1>3. 0 \in S
  <2>1. n % 2^0 = 0
    BY PowerOfZero
  <2>. QED
    BY <1>1, <2>1, NumberBelow
<1>4. ASSUME NEW k \in Nat, k \in S PROVE k + 1 \in S
  <2>1. SUFFICES ASSUME k + 1 <= W PROVE NatOf[Bits(n, W) \cap Low(k + 1)] = n % 2^(k + 1)
    OBVIOUS
  <2>. DEFINE p == 2^k   b == (n \div p) % 2   c == NatOf[Bits(n, W) \cap Low(k)]
  <2>2. p \in Nat \ {0} /\ 2^(k + 1) = 2 * p
    BY PowerDoubles
  <2>3. n % 2^(k + 1) = (n % p) + p * b
    BY <2>2, NextBit
  <2>4. c = n % p
    BY <1>1, <1>4, <2>1
  <2>5. k \in Bits(n, W) <=> b = 1
    BY <1>1, <2>1 DEF Bits, Low
  <2>6. NatOf[Bits(n, W) \cap Low(k + 1)] = c + (IF k \in Bits(n, W) THEN p ELSE 0)
    BY <1>1, NumberBelow
  <2>7. b \in 0 .. 1 /\ n % p \in Int
    BY <2>2, Divided
  <2>. HIDE DEF p, b, c
  <2>8. p * b = IF b = 1 THEN p ELSE 0
    BY <2>2, <2>7
  <2>. QED
    BY <2>2, <2>3, <2>4, <2>5, <2>6, <2>7, <2>8
<1>. HIDE DEF S
<1>5. s \in S /\ s <= W
  BY <1>1, <1>3, <1>4, HandedOn
<1>. QED
  BY <1>2, <1>5 DEF S, Bits

\* Values of one number are one value.
LEMMA OneValue ==
  ASSUME NEW s \in 0 .. W, NEW u \in SUBSET Low(s), NEW v \in SUBSET Low(s), NatOf[u] = NatOf[v]
  PROVE  u = v
<1>1. W \in Nat /\ u \in SUBSET Low(W) /\ v \in SUBSET Low(W)
  BY AluAssumption, NumberFits
<1>. DEFINE S == {k \in Nat : k <= W /\ NatOf[u \cap Low(k)] = NatOf[v \cap Low(k)] => u \cap Low(k) = v \cap Low(k)}
<1>2. 0 \in S
  BY DEF Low
<1>3. ASSUME NEW k \in Nat, k \in S PROVE k + 1 \in S
  <2>1. SUFFICES ASSUME k + 1 <= W, NatOf[u \cap Low(k + 1)] = NatOf[v \cap Low(k + 1)]
                 PROVE  u \cap Low(k + 1) = v \cap Low(k + 1)
    OBVIOUS
  <2>. DEFINE p == 2^k   N(x) == NatOf[x \cap Low(k)]
  <2>2. p \in Nat \ {0} /\ k \in 0 .. W
    BY <1>1, <2>1, PowerDoubles
  <2>3. \A x \in SUBSET Low(W) :
          /\ NatOf[x \cap Low(k + 1)] = N(x) + (IF k \in x THEN p ELSE 0)
          /\ N(x) \in 0 .. p - 1
    BY <2>2, NumberBelow, NumberFits
  <2>. HIDE DEF p, N
  <2>4. /\ NatOf[u \cap Low(k + 1)] = N(u) + (IF k \in u THEN p ELSE 0) /\ N(u) \in 0 .. p - 1
        /\ NatOf[v \cap Low(k + 1)] = N(v) + (IF k \in v THEN p ELSE 0) /\ N(v) \in 0 .. p - 1
    BY <1>1, <2>3
  <2>5. (k \in u <=> k \in v) /\ N(u) = N(v)
    <3>. DEFINE a == N(u)   b == N(v)
    <3>1. a \in 0 .. p - 1 /\ b \in 0 .. p - 1
      BY <2>4
    <3>2. a + (IF k \in u THEN p ELSE 0) = b + (IF k \in v THEN p ELSE 0)
      BY <2>1, <2>4
    <3>. HIDE DEF a, b
    <3>3. CASE k \in u /\ k \in v
      BY <2>2, <3>1, <3>2, <3>3 DEF a, b
    <3>4. CASE k \notin u /\ k \notin v
      BY <2>2, <3>1, <3>2, <3>4 DEF a, b
    <3>5. CASE k \in u /\ k \notin v
      <4>1. a + p = b
        BY <3>1, <3>2, <3>5
      <4>. QED
        BY <2>2, <3>1, <4>1
    <3>6. CASE k \notin u /\ k \in v
      <4>1. a = b + p
        BY <3>1, <3>2, <3>6
      <4>. QED
        BY <2>2, <3>1, <4>1
    <3>. QED
      BY <3>3, <3>4, <3>5, <3>6
  <2>6. u \cap Low(k) = v \cap Low(k)
    BY <1>3, <2>2, <2>5 DEF N
  <2>7. Low(k + 1) = Low(k) \cup {k}
    BY DEF Low
  <2>. QED
    BY <2>5, <2>6, <2>7
<1>. HIDE DEF S
<1>4. W \in S
  BY <1>1, <1>2, <1>3, HandedOn
<1>5. u \cap Low(W) = u /\ v \cap Low(W) = v
  BY <1>1
<1>. QED
  BY <1>1, <1>4, <1>5 DEF S

LEMMA BitsOfNumber ==
  ASSUME NEW s \in 0 .. W, NEW v \in SUBSET Low(s)
  PROVE  Bits(NatOf[v], s) = v
<1>1. 2^s \in Nat \ {0}
  BY PowerIsPositive
<1>. DEFINE n == NatOf[v]   p == 2^s
<1>2. n \in 0 .. p - 1
  BY NumberFits
<1>3. n % p = n
  <2>. HIDE DEF n, p
  <2>. QED
    BY <1>1, <1>2, SmallRemainder DEF p
<1>4. n \in Int
  BY <1>1, <1>2
<1>. HIDE DEF n
<1>5. Bits(n, s) \in SUBSET Low(s) /\ NatOf[Bits(n, s)] = n
  BY <1>3, <1>4, NumberOfBits
<1>6. Bits(n, s) = v
  BY <1>5, OneValue DEF n
<1>. QED
  BY <1>6 DEF n

LEMMA SameBits ==
  ASSUME NEW s \in 0 .. W, NEW n \in Int, NEW m \in Int, n % 2^s = m % 2^s
  PROVE  Bits(n, s) = Bits(m, s)
BY NumberOfBits, OneValue

\* Numbers modulo the power of two of a width have the same bits.
Modulus(s) == 2^s

LEMMA BitsPast ==
  ASSUME NEW s \in 0 .. W, NEW n \in Int, NEW m \in Int, NEW q \in Int, n = m + Modulus(s) * q
  PROVE  Bits(n, s) = Bits(m, s)
<1>1. 2^s \in Nat \ {0}
  BY PowerIsPositive
<1>2. n % Modulus(s) = m % Modulus(s)
  <2>1. Modulus(s) \in Nat \ {0}
    BY <1>1 DEF Modulus
  <2>. QED
    BY <2>1, SameRemainder
<1>. QED
  BY <1>2, SameBits DEF Modulus

LEMMA BitsModulo ==
  ASSUME NEW s \in 0 .. W, NEW n \in Int
  PROVE  /\ Modulus(s) \in Nat \ {0}
         /\ Bits(n, s) \in SUBSET Low(s) /\ Bits(n, s) \in SUBSET Low(W)
         /\ NatOf[Bits(n, s)] = n % Modulus(s) /\ n % Modulus(s) \in Nat
<1>1. Modulus(s) \in Nat \ {0}
  BY PowerIsPositive DEF Modulus
<1>2. Bits(n, s) \in SUBSET Low(s) /\ NatOf[Bits(n, s)] = n % Modulus(s)
  BY NumberOfBits DEF Modulus
<1>3. Bits(n, s) \in SUBSET Low(W)
  BY <1>2, NumberFits
<1>4. n % Modulus(s) \in 0 .. Modulus(s) - 1
  <2>. DEFINE p == Modulus(s)
  <2>. HIDE DEF p
  <2>1. n % p \in 0 .. p - 1
    BY <1>1, Divided DEF p
  <2>. QED
    BY <2>1 DEF p
<1>5. n % Modulus(s) \in Nat
  BY <1>1, <1>4
<1>. QED
  BY <1>1, <1>2, <1>3, <1>5

\* A remainder in a sum or a difference may be the number itself.
LEMMA SumModulo ==
  ASSUME NEW s \in 0 .. W, NEW n \in Int, NEW m \in Int
  PROVE  Bits((n % Modulus(s)) + m, s) = Bits(n + m, s) /\ Bits(m - (n % Modulus(s)), s) = Bits(m - n, s)
<1>. DEFINE p == Modulus(s)   q == n \div p   r == n % p   x == p * q
<1>1. p \in Nat \ {0}
  BY BitsModulo
<1>2. n = x + r /\ r \in Int /\ q \in Int /\ x \in Int
  <2>. HIDE DEF p
  <2>. QED
    BY <1>1, Divided
<1>. DEFINE a == n + m   b == r + m   c == m - r   d == m - n
<1>3. a \in Int /\ b \in Int /\ c \in Int /\ d \in Int
  <2>. HIDE DEF r, x
  <2>. QED
    BY <1>2
<1>4. a = b + x /\ c = d + x
  <2>. HIDE DEF r, x
  <2>. QED
    BY <1>2
<1>5. x = Modulus(s) * q
  OBVIOUS
<1>. HIDE DEF p, q, r, x, a, b, c, d
<1>6. Bits(a, s) = Bits(b, s)
  BY <1>2, <1>3, <1>4, <1>5, BitsPast
<1>7. Bits(c, s) = Bits(d, s)
  BY <1>2, <1>3, <1>4, <1>5, BitsPast
<1>. QED
  BY <1>6, <1>7 DEF a, b, c, d, r, p

-----------------------------------------------------------------------------
(* The adder.                                                              *)

Added(a, b, s)      == AddWithCarry(a, b, FALSE, s).v
Subtracted(a, b, s) == AddWithCarry(a, Low(s) \ b, TRUE, s).v
NegationOf(b, s)       == Subtracted({}, b, s)

LEMMA Widths ==
  /\ H \in 0 .. W /\ W \in 0 .. W /\ H \in Nat \ {0} /\ W \in Nat \ {0}
  /\ \A w : Size(w) \in {H, W}
BY AluAssumption DEF Size

LEMMA SumOfValues ==
  ASSUME NEW s \in 0 .. W, NEW a \in SUBSET Low(W), NEW b \in SUBSET Low(W)
  PROVE  /\ NatOf[a] \in Nat /\ NatOf[b] \in Nat
         /\ Added(a, b, s) = Bits(NatOf[a] + NatOf[b], s)
         /\ Added(a, b, s) \in SUBSET Low(s) /\ Added(a, b, s) \in SUBSET Low(W)
         /\ NatOf[Added(a, b, s)] = (NatOf[a] + NatOf[b]) % Modulus(s)
<1>. DEFINE n == NatOf[a] + NatOf[b]
<1>1. NatOf[a] \in Nat /\ NatOf[b] \in Nat
  BY NumberAdds
<1>2. NatOf[a] + NatOf[b] + 0 = n
  BY <1>1
<1>3. Added(a, b, s) = Bits(n, s)
  BY <1>2 DEF Added, AddWithCarry, AddedUp, Flagged
<1>4. n \in Int
  BY <1>1
<1>. HIDE DEF n
<1>5. Bits(n, s) \in SUBSET Low(s) /\ Bits(n, s) \in SUBSET Low(W) /\ NatOf[Bits(n, s)] = n % Modulus(s)
  BY <1>4, BitsModulo
<1>. QED
  BY <1>1, <1>3, <1>5 DEF n

\* Operands commute, the flags included.
LEMMA AddCommutes ==
  ASSUME NEW s, NEW a \in SUBSET Low(W), NEW b \in SUBSET Low(W)
  PROVE  AddWithCarry(a, b, FALSE, s) = AddWithCarry(b, a, FALSE, s)
<1>. DEFINE n == NatOf[a] + NatOf[b] + 0
            m == NatOf[b] + NatOf[a] + 0
<1>1. n = m
  BY NumberAdds
<1>2. AddWithCarry(a, b, FALSE, s) = AddedUp(a, b, n, s) /\ AddWithCarry(b, a, FALSE, s) = AddedUp(b, a, m, s)
  BY DEF AddWithCarry
<1>. HIDE DEF n, m
<1>3. AddedUp(a, b, n, s) = AddedUp(b, a, n, s)
  <2>. DEFINE sum == Bits(n, s)
  <2>. HIDE DEF sum
  <2>1. Flagged(a, b, n, sum, s) = Flagged(b, a, n, sum, s)
    BY DEF Flagged
  <2>. QED
    BY <2>1 DEF AddedUp, sum
<1>. QED
  BY <1>1, <1>2, <1>3

LEMMA AddNothing ==
  ASSUME NEW s \in 0 .. W, NEW a \in SUBSET Low(s)
  PROVE  Added(a, {}, s) = a /\ Added({}, a, s) = a
<1>1. a \in SUBSET Low(W) /\ {} \in SUBSET Low(W) /\ NatOf[{}] = 0 /\ NatOf[a] \in Nat
  BY NumberFits, NumberAdds
<1>2. Added(a, {}, s) = Bits(NatOf[a] + NatOf[{}], s) /\ Added({}, a, s) = Bits(NatOf[{}] + NatOf[a], s)
  BY <1>1, SumOfValues
<1>3. NatOf[a] + NatOf[{}] = NatOf[a] /\ NatOf[{}] + NatOf[a] = NatOf[a]
  BY <1>1
<1>. QED
  BY <1>2, <1>3, BitsOfNumber

\* Bits apart are added by putting them together.
LEMMA AddApart ==
  ASSUME NEW s \in 0 .. W, NEW a \in SUBSET Low(s), NEW b \in SUBSET Low(s), a \cap b = {}
  PROVE  Added(a, b, s) = a \cup b
<1>1. a \in SUBSET Low(W) /\ b \in SUBSET Low(W) /\ a \cup b \in SUBSET Low(s)
  BY NumberFits
<1>2. NatOf[a \cup b] = NatOf[a] + NatOf[b]
  BY <1>1, NumberOfBoth
<1>3. Added(a, b, s) = Bits(NatOf[a] + NatOf[b], s)
  BY <1>1, SumOfValues
<1>. QED
  BY <1>1, <1>2, <1>3, BitsOfNumber

\* What is subtracted is the number short of the power of two.
LEMMA DifferenceOfValues ==
  ASSUME NEW s \in 0 .. W, NEW a \in SUBSET Low(W), NEW b \in SUBSET Low(s)
  PROVE  /\ NatOf[a] \in Nat /\ NatOf[b] \in Nat
         /\ Subtracted(a, b, s) = Bits(NatOf[a] - NatOf[b], s)
         /\ Subtracted(a, b, s) \in SUBSET Low(s) /\ Subtracted(a, b, s) \in SUBSET Low(W)
         /\ NatOf[Subtracted(a, b, s)] = (NatOf[a] - NatOf[b]) % Modulus(s)
<1>1. Low(s) \ b \in SUBSET Low(s) /\ b \in SUBSET Low(W)
  BY NumberFits
<1>2. Low(s) \ b \in SUBSET Low(W)
  BY <1>1, NumberFits
<1>. DEFINE n == NatOf[a]   m == NatOf[b]   c == NatOf[Low(s) \ b]   p == Modulus(s)
            i == n + c + 1  j == n - m
<1>3. n \in Nat /\ m \in Nat /\ c \in Nat
  BY <1>1, <1>2, NumberAdds
<1>4. Subtracted(a, b, s) = Bits(i, s)
  BY DEF Subtracted, AddWithCarry, AddedUp, Flagged
<1>5. c = p - 1 - m /\ p \in Nat \ {0}
  BY NumberOfComplement, PowerIsPositive DEF Modulus
<1>. HIDE DEF n, m, c, p
<1>6. i = j + p * 1 /\ i \in Int /\ j \in Int
  BY <1>3, <1>5
<1>. HIDE DEF i, j
<1>7. Bits(i, s) = Bits(j, s)
  BY <1>6, BitsPast DEF p
<1>8. Bits(j, s) \in SUBSET Low(s) /\ Bits(j, s) \in SUBSET Low(W) /\ NatOf[Bits(j, s)] = j % Modulus(s)
  BY <1>6, BitsModulo
<1>. QED
  BY <1>3, <1>4, <1>7, <1>8 DEF n, m, j

LEMMA SubtractNothing ==
  ASSUME NEW s \in 0 .. W, NEW a \in SUBSET Low(s)
  PROVE  Subtracted(a, {}, s) = a /\ Subtracted(a, a, s) = {}
<1>1. a \in SUBSET Low(W) /\ {} \in SUBSET Low(s) /\ NatOf[{}] = 0 /\ NatOf[a] \in Nat
  BY NumberFits, NumberAdds
<1>2. Subtracted(a, {}, s) = Bits(NatOf[a] - NatOf[{}], s) /\ Subtracted(a, a, s) = Bits(NatOf[a] - NatOf[a], s)
  BY <1>1, DifferenceOfValues
<1>3. NatOf[a] - NatOf[{}] = NatOf[a] /\ NatOf[a] - NatOf[a] = NatOf[{}]
  BY <1>1
<1>. QED
  BY <1>1, <1>2, <1>3, BitsOfNumber

\* A negated operand turns a sum into a difference and back.
LEMMA NegatedOperand ==
  ASSUME NEW s \in 0 .. W, NEW a \in SUBSET Low(W), NEW b \in SUBSET Low(s)
  PROVE  /\ NegationOf(b, s) \in SUBSET Low(s)
         /\ NegationOf(b, s) = MinusOf(b, s)
         /\ Added(a, NegationOf(b, s), s) = Subtracted(a, b, s)
         /\ Added(NegationOf(b, s), a, s) = Subtracted(a, b, s)
         /\ Subtracted(a, NegationOf(b, s), s) = Added(a, b, s)
<1>1. {} \in SUBSET Low(W) /\ b \in SUBSET Low(W) /\ NatOf[{}] = 0
  BY NumberFits, NumberAdds
<1>. DEFINE c == NegationOf(b, s)   n == NatOf[a]   m == NatOf[b]   i == 0 - m   r == i % Modulus(s)
<1>2. n \in Nat /\ m \in Nat /\ i \in Int
  BY <1>1, NumberAdds
<1>3. c = Bits(i, s) /\ c \in SUBSET Low(s) /\ c \in SUBSET Low(W) /\ NatOf[c] = r
  BY <1>1, DifferenceOfValues DEF NegationOf
<1>4. c = MinusOf(b, s)
  <2>. DEFINE p == Modulus(s)   j == p - m
  <2>1. p \in Nat \ {0}
    BY <1>2, BitsModulo
  <2>. HIDE DEF p, m
  <2>2. j = i + p * 1 /\ j \in Int
    BY <1>2, <2>1
  <2>. HIDE DEF i, j
  <2>3. Bits(j, s) = Bits(i, s)
    BY <1>2, <2>2, BitsPast DEF p
  <2>. QED
    BY <1>3, <2>3 DEF MinusOf, j, m, p, Modulus
<1>5. Subtracted(a, b, s) = Bits(n - m, s) /\ Added(a, b, s) = Bits(n + m, s)
  BY <1>1, DifferenceOfValues, SumOfValues
<1>6. Added(a, c, s) = Bits(n + r, s) /\ Added(c, a, s) = Bits(r + n, s) /\ Subtracted(a, c, s) = Bits(n - r, s)
  <2>. HIDE DEF c
  <2>. QED
    BY <1>3, DifferenceOfValues, SumOfValues
<1>7. Bits(r + n, s) = Bits(i + n, s) /\ Bits(n - r, s) = Bits(n - i, s)
  <2>1. n \in Int
    BY <1>2
  <2>. HIDE DEF n, i
  <2>2. Bits((i % Modulus(s)) + n, s) = Bits(i + n, s)
    BY <1>2, <2>1, SumModulo
  <2>3. Bits(n - (i % Modulus(s)), s) = Bits(n - i, s)
    BY <1>2, <2>1, SumModulo
  <2>. QED
    BY <2>2, <2>3
<1>8. r \in Int
  BY <1>2, BitsModulo
<1>. HIDE DEF c, n, m, r
<1>9. n + r = r + n /\ i + n = n - m /\ n - i = n + m
  BY <1>2, <1>8
<1>. HIDE DEF i
<1>. QED
  BY <1>3, <1>4, <1>5, <1>6, <1>7, <1>9 DEF c

\* Constants: 1, and what is added in two parts.
LEMMA BitsOfOne ==
  ASSUME NEW s \in {H, W}
  PROVE  Bits(1, s) = {0} /\ {0} \in SUBSET Low(s) /\ Bits(0, s) = {}
<1>1. s \in 0 .. W /\ s \in Nat \ {0}
  BY Widths
<1>2. {0} \in SUBSET Low(s) /\ {} \in SUBSET Low(s)
  BY <1>1 DEF Low
<1>3. {0} \in SUBSET Low(W)
  BY <1>1, <1>2, NumberFits
<1>4. NatOf[{0}] = NatOf[{0} \ {0}] + 2^0
  BY <1>3, NumberAdds
<1>5. {0} \ {0} = {} /\ NatOf[{}] = 0
  BY NumberAdds
<1>6. NatOf[{0}] = 1
  BY <1>4, <1>5
<1>. QED
  BY <1>1, <1>2, <1>5, <1>6, BitsOfNumber

LEMMA AddConstant ==
  ASSUME NEW s \in 0 .. W, NEW a \in SUBSET Low(W), NEW k \in Int
  PROVE  /\ NatOf[a] \in Nat /\ Added(a, Bits(k, s), s) = Bits(NatOf[a] + k, s)
         /\ Added(a, Bits(k, s), s) \in SUBSET Low(s) /\ Added(a, Bits(k, s), s) \in SUBSET Low(W)
<1>. DEFINE n == NatOf[a]   r == k % Modulus(s)   b == Bits(k, s)
<1>1. b \in SUBSET Low(W) /\ NatOf[b] = r /\ r \in Nat
  BY BitsModulo
<1>2. n \in Nat
  BY NumberAdds
<1>3. Bits(r + n, s) = Bits(k + n, s)
  BY <1>2, SumModulo
<1>. HIDE DEF n, r, b
<1>4. Added(a, b, s) = Bits(n + r, s) /\ Added(a, b, s) \in SUBSET Low(s) /\ Added(a, b, s) \in SUBSET Low(W)
  BY <1>1, SumOfValues DEF n
<1>5. n + r = r + n /\ k + n = n + k
  BY <1>1, <1>2
<1>. QED
  BY <1>2, <1>3, <1>4, <1>5 DEF n, b

LEMMA AddedTwice ==
  ASSUME NEW s \in 0 .. W, NEW a \in SUBSET Low(W), NEW k \in Int, NEW l \in Int
  PROVE  Added(Added(a, Bits(k, s), s), Bits(l, s), s) = Added(a, Bits(k + l, s), s)
<1>. DEFINE n == NatOf[a]   b == Added(a, Bits(k, s), s)   i == n + k
<1>1. n \in Nat /\ b = Bits(i, s) /\ b \in SUBSET Low(W)
  BY AddConstant
<1>2. i \in Int
  BY <1>1
<1>3. NatOf[b] = i % Modulus(s) /\ Added(b, Bits(l, s), s) = Bits(NatOf[b] + l, s)
  <2>. HIDE DEF b, i
  <2>. QED
    BY <1>1, <1>2, BitsModulo, AddConstant
<1>4. Bits((i % Modulus(s)) + l, s) = Bits(i + l, s)
  BY <1>2, SumModulo
<1>5. i + l = n + (k + l) /\ k + l \in Int
  BY <1>1
<1>6. Added(a, Bits(k + l, s), s) = Bits(n + (k + l), s)
  BY <1>5, AddConstant
<1>. QED
  BY <1>3, <1>4, <1>5, <1>6

\* Numbers cut to the low bits.
LEMMA BitsCut ==
  ASSUME NEW s \in 0 .. W, NEW wd \in 0 .. s, NEW n \in Int
  PROVE  wd \in 0 .. W /\ Bits(n, s) \cap Low(wd) = Bits(n, wd)
<1>1. wd \in 0 .. W /\ \A i : i \in Low(wd) => i \in Low(s)
  BY Widths DEF Low
<1>. QED
  BY <1>1 DEF Bits

LEMMA NumberCut ==
  ASSUME NEW wd \in 0 .. W, NEW u \in SUBSET Low(W)
  PROVE  NatOf[u] \in Nat /\ NatOf[u \cap Low(wd)] = NatOf[u] % Modulus(wd)
<1>1. W \in 0 .. W
  BY Widths
<1>2. NatOf[u] \in Nat
  BY NumberAdds
<1>3. u = Bits(NatOf[u], W)
  BY <1>1, BitsOfNumber
<1>4. u \cap Low(wd) = Bits(NatOf[u], wd)
  <2>. PICK n \in Nat : n = NatOf[u]
    BY <1>2
  <2>1. u = Bits(n, W)
    BY <1>3
  <2>2. Bits(n, W) \cap Low(wd) = Bits(n, wd)
    BY <1>1, BitsCut
  <2>. QED
    BY <2>1, <2>2
<1>5. NatOf[Bits(NatOf[u], wd)] = NatOf[u] % Modulus(wd)
  BY <1>2, BitsModulo
<1>. QED
  BY <1>2, <1>4, <1>5

LEMMA AddCut ==
  ASSUME NEW wd \in 0 .. W, NEW n \in Int, NEW m \in Int
  PROVE  Bits(m + (n % Modulus(wd)), wd) = Bits(m + n, wd) /\ Bits(m - (n % Modulus(wd)), wd) = Bits(m - n, wd)
<1>1. Bits((n % Modulus(wd)) + m, wd) = Bits(n + m, wd) /\ Bits(m - (n % Modulus(wd)), wd) = Bits(m - n, wd)
  BY SumModulo
<1>2. n % Modulus(wd) \in Int
  BY BitsModulo
<1>3. (n % Modulus(wd)) + m = m + (n % Modulus(wd)) /\ n + m = m + n
  BY <1>2
<1>. QED
  BY <1>1, <1>3

-----------------------------------------------------------------------------
(* Execution.                                                              *)

\* A word that computes commits its outcome, which is that of the adder or
\* of the data path.
LEMMA ComputeCommits ==
  ASSUME NEW m, NEW w, w.op \in ComputeOps
  PROVE  Exec(m, w) = Committed(m, w, Outcome(m, w, Size(w)))
<1>1. w.op \notin {"msr", "ptest", "nop", "str", "ldr"} \cup Conditionals \cup Terminal
  BY DEF ComputeOps, Conditionals, CompareBranches, CbOps, Terminal, ShiftOps, ExtractOps, PlaceOps, MoveOps,
         LogicOps, ImmLogicOps, ArithOps, ImmArithOps, ExtArithOps, SelectOps, MulOps, HighOps, TwoSourceOps,
         OneSourceOps, CarryOps, CondCmpOps, CondCmpImmOps
<1>. QED
  BY <1>1 DEF Exec, WriteBack, MemoryOps

PathOps ==
  {"extr", "mov"} \cup ShiftOps \cup ExtractOps \cup PlaceOps \cup MoveOps \cup LogicOps
  \cup ImmLogicOps \cup SelectOps \cup HighOps \cup TwoSourceOps \cup OneSourceOps

LEMMA OnDataPath ==
  ASSUME NEW m, NEW w, NEW s, w.op \in PathOps
  PROVE  /\ w.op \in ComputeOps
         /\ Outcome(m, w, s) = Plainly(DataOf(m, w, Reads(m, w, w.n), Reads(m, w, w.m), Reads(m, w, w.d), s), s)
<1>1. w.op # "fcmp" /\ w.op \notin CondCmpOps /\ w.op \notin AdderOps
  BY DEF PathOps, AdderOps, ShiftOps, ExtractOps, PlaceOps, MoveOps,
         LogicOps, ImmLogicOps, ArithOps, ImmArithOps, ExtArithOps, SelectOps, MulOps, HighOps, TwoSourceOps,
         OneSourceOps, CarryOps, CondCmpOps, CondCmpImmOps
<1>. QED
  BY <1>1 DEF Outcome, PathOps, ComputeOps

SumOps == {"adr"} \cup ArithOps \cup ImmArithOps \cup ExtArithOps \cup MulOps

LEMMA OnAdder ==
  ASSUME NEW m, NEW w, NEW s, w.op \in SumOps
  PROVE  w.op \in ComputeOps /\ Outcome(m, w, s) = Sum(m, w, s)
<1>1. w.op # "fcmp" /\ w.op \notin CondCmpOps /\ w.op \in AdderOps
  BY DEF SumOps, AdderOps, ArithOps, ImmArithOps, ExtArithOps, MulOps, CondCmpOps, CondCmpImmOps
<1>. QED
  BY <1>1 DEF Outcome, SumOps, ComputeOps

LEMMA DataOfShift ==
  ASSUME NEW m, NEW w, NEW a, NEW c, NEW old, NEW s, w.op \in ShiftOps
  PROVE  DataOf(m, w, a, c, old, s) = ShiftBy(w.op, a, w.k, s)
<1>1. w.op \notin MoveOps /\ w.op \notin LogicOps /\ w.op \notin SelectOps
  BY DEF ShiftOps, MoveOps, LogicOps, SelectOps
<1>2. w.op \in {"lsl", "lsr", "asr", "ror"}
  BY DEF ShiftOps
<1>. QED
  BY <1>1, <1>2 DEF DataOf

LEMMA DataOfLogic ==
  ASSUME NEW m, NEW w, NEW a, NEW c, NEW old, NEW s, w.op \in LogicOps
  PROVE  DataOf(m, w, a, c, old, s) = Logical(w, a, ShiftBy(w.sh, c, w.k, s), s)
<1>1. w.op \notin MoveOps /\ w.op \notin ShiftOps /\ w.op \notin SelectOps
  BY DEF ShiftOps, MoveOps, LogicOps, SelectOps
<1>2. w.op \in {"and", "bic", "orr", "orn", "eor", "eon", "ands", "bics"}
  BY DEF LogicOps
<1>. QED
  BY <1>1, <1>2 DEF DataOf

LEMMA DataOfSelect ==
  ASSUME NEW m, NEW w, NEW a, NEW c, NEW old, NEW s, w.op \in SelectOps
  PROVE  DataOf(m, w, a, c, old, s) = IF Holds(w.cond, m.flags) THEN a ELSE ElseValue(w.op, c, s)
<1>1. w.op \notin MoveOps /\ w.op \notin ShiftOps /\ w.op \notin LogicOps
  BY DEF ShiftOps, MoveOps, LogicOps, SelectOps
<1>2. w.op \in {"csel", "csinc", "csinv", "csneg"}
  BY DEF SelectOps
<1>. QED
  BY <1>1, <1>2 DEF DataOf

\* Neither a shift, a move, a logical operation nor a select.
FieldOps == {"ubfx", "sbfx", "ubfiz", "sbfiz", "bfi", "bfxil", "extr", "andi", "andsi", "eori", "mov"}

LEMMA DataOfField ==
  ASSUME NEW m, NEW w, NEW a, NEW c, NEW old, NEW s, w.op \in FieldOps
  PROVE  /\ w.op = "ubfx"  => DataOf(m, w, a, c, old, s) = Extract(a, w.k, w.wd)
         /\ w.op = "sbfx"  => DataOf(m, w, a, c, old, s) = Extend(Extract(a, w.k, w.wd), w.wd - 1, s)
         /\ w.op = "ubfiz" => DataOf(m, w, a, c, old, s) = Place(a, w.k, w.wd)
         /\ w.op = "sbfiz" => DataOf(m, w, a, c, old, s) = Extend(Place(a, w.k, w.wd), w.k + w.wd - 1, s)
         /\ w.op = "bfi"   => DataOf(m, w, a, c, old, s) = (old \ Place(Low(s), w.k, w.wd)) \cup Place(a, w.k, w.wd)
         /\ w.op = "bfxil" => DataOf(m, w, a, c, old, s) = (old \ Low(w.wd)) \cup Extract(a, w.k, w.wd)
         /\ w.op = "extr"  => DataOf(m, w, a, c, old, s) = Lsr(c, w.k) \cup Lsl(a, s - w.k, s)
         /\ w.op \in {"andi", "andsi"} => DataOf(m, w, a, c, old, s) = a \cap w.mask
         /\ w.op = "eori"  => DataOf(m, w, a, c, old, s) = SymDiff(a, w.mask)
         /\ w.op = "mov"   => DataOf(m, w, a, c, old, s) = w.mask
<1>1. w.op \notin MoveOps /\ w.op \notin ShiftOps /\ w.op \notin LogicOps /\ w.op \notin SelectOps
  BY DEF FieldOps, ShiftOps, MoveOps, LogicOps, SelectOps
<1>2. CASE w.op = "ubfx"
  BY <1>1, <1>2 DEF DataOf
<1>3. CASE w.op = "sbfx"
  BY <1>1, <1>3 DEF DataOf
<1>4. CASE w.op = "ubfiz"
  BY <1>1, <1>4 DEF DataOf
<1>5. CASE w.op = "sbfiz"
  BY <1>1, <1>5 DEF DataOf
<1>6. CASE w.op = "bfi"
  BY <1>1, <1>6 DEF DataOf
<1>7. CASE w.op = "bfxil"
  BY <1>1, <1>7 DEF DataOf
<1>8. CASE w.op = "extr"
  BY <1>1, <1>8 DEF DataOf
<1>9. CASE w.op \in {"andi", "andsi"}
  BY <1>1, <1>9 DEF DataOf
<1>10. CASE w.op = "eori"
  BY <1>1, <1>10 DEF DataOf
<1>11. CASE w.op = "mov"
  BY <1>1, <1>11 DEF DataOf
<1>. QED
  BY <1>2, <1>3, <1>4, <1>5, <1>6, <1>7, <1>8, <1>9, <1>10, <1>11 DEF FieldOps

\* What the adder gives: a sum, or a difference.
Summed(a, b, s)    == AddWithCarry(a, b, FALSE, s)
Lessened(a, b, s)  == AddWithCarry(a, Low(s) \ b, TRUE, s)
Totalled(op, a, b, s) == IF op \in SubOps THEN Lessened(a, b, s) ELSE Summed(a, b, s)

LEMMA SumCombines ==
  ASSUME NEW m, NEW w, NEW s, w.op \in SumOps
  PROVE  Sum(m, w, s) = Totalled(w.op, Augend(m, w), Addend(m, w, Reads(m, w, w.m), s), s)
<1>1. w.op \notin CarryOps
  BY DEF SumOps, ArithOps, ImmArithOps, ExtArithOps, MulOps, CarryOps
<1>2. CASE w.op \in SubOps
  BY <1>1, <1>2 DEF Sum, Totalled, Lessened, AddWithCarry
<1>3. CASE w.op \notin SubOps
  BY <1>1, <1>3 DEF Sum, Totalled, Summed, AddWithCarry
<1>. QED
  BY <1>2, <1>3

LEMMA AdderInputs ==
  ASSUME NEW m, NEW w, NEW c, NEW s
  PROVE  /\ w.op \in ArithOps => Augend(m, w) = Reads(m, w, w.n) /\ Addend(m, w, c, s) = ShiftBy(w.sh, c, w.k, s)
         /\ w.op \in ImmArithOps => Augend(m, w) = Reads(m, w, w.n) /\ Addend(m, w, c, s) = Bits(w.k, s)
         /\ w.op \in ExtArithOps =>
              /\ Augend(m, w) = Reads(m, w, w.n)
              /\ Addend(m, w, c, s) = Lsl(ExtendBy(w.sh, IF w.m = R31 THEN {} ELSE c, w.wd, s), w.k, s)
         /\ w.op \in MulOps =>
              /\ Augend(m, w) = Reads(m, w, w.a)
              /\ Addend(m, w, c, s) =
                   Bits(Multiplicand(w.op, Reads(m, w, w.n)) * Multiplicand(w.op, c), s)
<1>1. CASE w.op \in ArithOps
  <2>1. /\ w.op # "adr" /\ w.op \notin MulOps /\ w.op \notin ImmArithOps \cup CondCmpImmOps
        /\ w.op \notin ExtArithOps
    BY <1>1 DEF ArithOps, MulOps, ImmArithOps, CondCmpImmOps, ExtArithOps
  <2>. QED
    BY <1>1, <2>1 DEF Augend, Addend
<1>2. CASE w.op \in ImmArithOps
  <2>1. w.op # "adr" /\ w.op \notin MulOps /\ w.op \notin ExtArithOps /\ w.op \notin ArithOps
    BY <1>2 DEF ArithOps, MulOps, ImmArithOps, CondCmpImmOps, ExtArithOps
  <2>. QED
    BY <1>2, <2>1 DEF Augend, Addend
<1>3. CASE w.op \in ExtArithOps
  <2>1. /\ w.op # "adr" /\ w.op \notin MulOps /\ w.op \notin ImmArithOps \cup CondCmpImmOps
        /\ w.op \notin ArithOps
    BY <1>3 DEF ArithOps, MulOps, ImmArithOps, CondCmpImmOps, ExtArithOps
  <2>. QED
    BY <1>3, <2>1 DEF Augend, Addend
<1>4. CASE w.op \in MulOps
  <2>1. /\ w.op # "adr" /\ w.op \notin ArithOps /\ w.op \notin ImmArithOps \cup CondCmpImmOps
        /\ w.op \notin ExtArithOps
    BY <1>4 DEF ArithOps, MulOps, ImmArithOps, CondCmpImmOps, ExtArithOps
  <2>. QED
    BY <1>4, <2>1 DEF Augend, Addend
<1>. QED
  BY <1>1, <1>2, <1>3, <1>4

\* The outcomes of the words of each kind.
LEMMA OutcomeOfArith ==
  ASSUME NEW m, NEW w, NEW s, w.op \in ArithOps
  PROVE  /\ w.op \in ComputeOps
         /\ Outcome(m, w, s) = Totalled(w.op, Reads(m, w, w.n), ShiftBy(w.sh, Reads(m, w, w.m), w.k, s), s)
BY OnAdder, SumCombines, AdderInputs DEF SumOps

LEMMA OutcomeOfAdjust ==
  ASSUME NEW m, NEW w, NEW s, w.op = "addi"
  PROVE  w.op \in ComputeOps /\ Outcome(m, w, s) = Summed(Reads(m, w, w.n), Bits(w.k, s), s)
<1>1. w.op \in ImmArithOps /\ w.op \notin SubOps
  BY DEF ImmArithOps, SubOps
<1>. QED
  BY <1>1, OnAdder, SumCombines, AdderInputs DEF SumOps, Totalled

LEMMA OutcomeOfExtended ==
  ASSUME NEW m, NEW w, NEW s, w.op \in ExtArithOps
  PROVE  /\ w.op \in ComputeOps
         /\ Outcome(m, w, s) =
              Totalled(w.op, Reads(m, w, w.n),
                       Lsl(ExtendBy(w.sh, IF w.m = R31 THEN {} ELSE Reads(m, w, w.m), w.wd, s), w.k, s), s)
BY OnAdder, SumCombines, AdderInputs DEF SumOps

Product(m, w, s) ==
  Bits(Multiplicand(w.op, Reads(m, w, w.n)) * Multiplicand(w.op, Reads(m, w, w.m)), s)
LEMMA OutcomeOfMultiply ==
  ASSUME NEW m, NEW w, NEW s, w.op \in MulOps
  PROVE  /\ w.op \in ComputeOps
         /\ Outcome(m, w, s) = Totalled(w.op, Reads(m, w, w.a), Product(m, w, s), s)
BY OnAdder, SumCombines, AdderInputs DEF SumOps, Product

LEMMA OutcomeOfShift ==
  ASSUME NEW m, NEW w, NEW s, w.op \in ShiftOps
  PROVE  w.op \in ComputeOps /\ Outcome(m, w, s) = Plainly(ShiftBy(w.op, Reads(m, w, w.n), w.k, s), s)
BY OnDataPath, DataOfShift DEF PathOps

LEMMA OutcomeOfLogic ==
  ASSUME NEW m, NEW w, NEW s, w.op \in LogicOps
  PROVE  /\ w.op \in ComputeOps
         /\ Outcome(m, w, s) =
              Plainly(Logical(w, Reads(m, w, w.n), ShiftBy(w.sh, Reads(m, w, w.m), w.k, s), s), s)
BY OnDataPath, DataOfLogic DEF PathOps

LEMMA OutcomeOfSelect ==
  ASSUME NEW m, NEW w, NEW s, w.op \in SelectOps
  PROVE  /\ w.op \in ComputeOps
         /\ Outcome(m, w, s) =
              Plainly(IF Holds(w.cond, m.flags) THEN Reads(m, w, w.n)
                      ELSE ElseValue(w.op, Reads(m, w, w.m), s), s)
BY OnDataPath, DataOfSelect DEF PathOps

FieldValue(w, a, c, old, s) ==
  CASE w.op = "ubfx"  -> Extract(a, w.k, w.wd)
    [] w.op = "sbfx"  -> Extend(Extract(a, w.k, w.wd), w.wd - 1, s)
    [] w.op = "ubfiz" -> Place(a, w.k, w.wd)
    [] w.op = "sbfiz" -> Extend(Place(a, w.k, w.wd), w.k + w.wd - 1, s)
    [] w.op = "bfi"   -> (old \ Place(Low(s), w.k, w.wd)) \cup Place(a, w.k, w.wd)
    [] w.op = "bfxil" -> (old \ Low(w.wd)) \cup Extract(a, w.k, w.wd)
    [] w.op = "extr"  -> Lsr(c, w.k) \cup Lsl(a, s - w.k, s)
    [] w.op \in {"andi", "andsi"} -> a \cap w.mask
    [] w.op = "eori"  -> SymDiff(a, w.mask)
    [] w.op = "mov"   -> w.mask

LEMMA OutcomeOfField ==
  ASSUME NEW m, NEW w, NEW s, w.op \in FieldOps
  PROVE  /\ w.op \in ComputeOps
         /\ Outcome(m, w, s) =
              Plainly(FieldValue(w, Reads(m, w, w.n), Reads(m, w, w.m), Reads(m, w, w.d), s), s)
<1>1. w.op \in PathOps
  BY DEF FieldOps, PathOps, ExtractOps, PlaceOps, ImmLogicOps
<1>2. \A a, c, old : DataOf(m, w, a, c, old, s) = FieldValue(w, a, c, old, s)
  BY DataOfField DEF FieldOps, FieldValue
<1>. QED
  BY <1>1, <1>2, OnDataPath

-----------------------------------------------------------------------------
(* Runs: the machines a sequence of words goes through.                    *)

Trace(T, m, ws) == T[0] = m /\ \A k \in 1 .. Len(ws) : T[k] = Exec(T[k - 1], ws[k])

LEMMA TraceExists == ASSUME NEW m, NEW ws, Len(ws) \in Nat PROVE \E T : Trace(T, m, ws)
<1>. DEFINE S == {n \in Nat : \E T : T[0] = m /\ \A k \in 1 .. n : T[k] = Exec(T[k - 1], ws[k])}
<1>1. 0 \in S
  <2>. DEFINE T == [k \in {0} |-> m]
  <2>1. T[0] = m /\ \A k \in 1 .. 0 : T[k] = Exec(T[k - 1], ws[k])
    OBVIOUS
  <2>. HIDE DEF T
  <2>. QED
    BY <2>1
<1>2. ASSUME NEW n \in Nat, n \in S PROVE n + 1 \in S
  <2>1. PICK T : T[0] = m /\ \A k \in 1 .. n : T[k] = Exec(T[k - 1], ws[k])
    BY <1>2
  <2>. DEFINE U == [k \in 0 .. n + 1 |-> IF k = n + 1 THEN Exec(T[n], ws[n + 1]) ELSE T[k]]
  <2>2. U[n + 1] = Exec(T[n], ws[n + 1]) /\ \A k \in 0 .. n : U[k] = T[k]
    OBVIOUS
  <2>. HIDE DEF U
  <2>3. U[0] = m
    BY <2>1, <2>2
  <2>4. ASSUME NEW k \in 1 .. n + 1 PROVE U[k] = Exec(U[k - 1], ws[k])
    <3>1. CASE k = n + 1
      <4>1. k - 1 = n /\ U[n] = T[n]
        BY <2>2, <3>1
      <4>. QED
        BY <2>2, <3>1, <4>1
    <3>2. CASE k # n + 1
      <4>1. k \in 1 .. n /\ k - 1 \in 0 .. n /\ k \in 0 .. n
        BY <3>2
      <4>2. U[k] = T[k] /\ U[k - 1] = T[k - 1] /\ T[k] = Exec(T[k - 1], ws[k])
        BY <2>1, <2>2, <4>1
      <4>. QED
        BY <4>2
    <3>. QED
      BY <3>1, <3>2
  <2>. QED
    BY <2>3, <2>4
<1>. HIDE DEF S
<1>3. Len(ws) \in S
  BY <1>1, <1>2, HandedOn
<1>. QED
  BY <1>3 DEF S, Trace

LEMMA Greatest ==
  ASSUME NEW S \in SUBSET Nat, NEW x \in S, \A y \in S : y <= x PROVE Max(S) = x
<1>1. \A z \in S : (\A y \in S : z >= y) => z = x
  OBVIOUS
<1>. QED
  BY <1>1 DEF Max

\* FoldLeft takes the greatest index last.
Folded(u, m, ws, n) ==
  u[{}] = m /\ \A s \in SUBSET (1 .. n) : s # {} => u[s] = Exec(u[s \ {Max(s)}], ws[Max(s)])

LEMMA FoldExists == ASSUME NEW m, NEW ws, NEW len \in Nat PROVE \E u : Folded(u, m, ws, len)
<1>. DEFINE S == {n \in Nat : \E u : Folded(u, m, ws, n)}
<1>1. 0 \in S
  <2>. DEFINE u == [s \in {{}} |-> m]
  <2>1. u[{}] = m /\ \A s \in SUBSET (1 .. 0) : s = {}
    OBVIOUS
  <2>. HIDE DEF u
  <2>. QED
    BY <2>1 DEF Folded
<1>2. ASSUME NEW n \in Nat, n \in S PROVE n + 1 \in S
  <2>1. PICK u : Folded(u, m, ws, n)
    BY <1>2
  <2>. DEFINE v == [s \in SUBSET (1 .. n + 1) |-> IF n + 1 \in s THEN Exec(u[s \ {n + 1}], ws[n + 1]) ELSE u[s]]
  <2>2. \A s \in SUBSET (1 .. n + 1) :
          /\ n + 1 \in s => v[s] = Exec(u[s \ {n + 1}], ws[n + 1])
          /\ n + 1 \notin s => v[s] = u[s]
    OBVIOUS
  <2>. HIDE DEF v
  <2>3. {} \in SUBSET (1 .. n + 1) /\ v[{}] = m
    BY <2>1, <2>2 DEF Folded
  <2>4. ASSUME NEW s \in SUBSET (1 .. n + 1), s # {} PROVE v[s] = Exec(v[s \ {Max(s)}], ws[Max(s)])
    <3>1. CASE n + 1 \in s
      <4>1. Max(s) = n + 1
        BY <3>1, Greatest
      <4>2. s \ {n + 1} \in SUBSET (1 .. n + 1) /\ n + 1 \notin s \ {n + 1}
        OBVIOUS
      <4>. QED
        BY <2>2, <3>1, <4>1, <4>2
    <3>2. CASE n + 1 \notin s
      <4>1. s \in SUBSET (1 .. n) /\ s \ {Max(s)} \in SUBSET (1 .. n + 1) /\ n + 1 \notin s \ {Max(s)}
        <5>1. \A i \in s : i \in 1 .. n
          BY <3>2
        <5>. QED
          BY <5>1, <3>2
      <4>2. u[s] = Exec(u[s \ {Max(s)}], ws[Max(s)])
        BY <2>1, <2>4, <4>1 DEF Folded
      <4>. QED
        BY <2>2, <3>2, <4>1, <4>2
    <3>. QED
      BY <3>1, <3>2
  <2>5. Folded(v, m, ws, n + 1)
    BY <2>3, <2>4 DEF Folded
  <2>. QED
    BY <2>5
<1>. HIDE DEF S
<1>3. len \in S
  BY <1>1, <1>2, HandedOn
<1>. QED
  BY <1>3 DEF S

LEMMA RunIsTrace ==
  ASSUME NEW m, NEW ws, Len(ws) \in Nat, DOMAIN ws = 1 .. Len(ws), NEW T, Trace(T, m, ws)
  PROVE  Run(m, ws) = T[Len(ws)]
<1>. DEFINE n == Len(ws)
            Body(u) == [s \in SUBSET DOMAIN ws |-> IF s = {} THEN m
                          ELSE Exec(u[s \ {Max(s)}], ws[Max(s)])]
            u == CHOOSE u : u = Body(u)
<1>1. Run(m, ws) = u[DOMAIN ws]
  BY DEF Run, FoldLeft, MapThenFoldSet
<1>2. PICK v : Folded(v, m, ws, n)
  BY FoldExists
<1>. DEFINE r == [s \in SUBSET DOMAIN ws |-> v[s]]
<1>3. r = Body(r)
  <2>1. \A s \in SUBSET DOMAIN ws : s \ {Max(s)} \in SUBSET DOMAIN ws
    OBVIOUS
  <2>2. \A s \in SUBSET DOMAIN ws : v[s] = IF s = {} THEN m ELSE Exec(v[s \ {Max(s)}], ws[Max(s)])
    BY <1>2 DEF Folded
  <2>3. \A s \in SUBSET DOMAIN ws : r[s] = v[s]
    OBVIOUS
  <2>4. \A s \in SUBSET DOMAIN ws : r[s] = IF s = {} THEN m ELSE Exec(r[s \ {Max(s)}], ws[Max(s)])
    <3>. HIDE DEF r
    <3>. QED
      BY <2>1, <2>2, <2>3
  <2>. QED
    BY <2>4
<1>4. u = Body(u)
  BY <1>3
<1>5. \A s \in SUBSET (1 .. n) : u[s] = IF s = {} THEN m ELSE Exec(u[s \ {Max(s)}], ws[Max(s)])
  BY <1>4
<1>. HIDE DEF u, r
<1>. DEFINE S == {k \in Nat : k <= n => u[1 .. k] = T[k]}
<1>6. 0 \in S
  <2>1. 1 .. 0 = {} /\ {} \in SUBSET (1 .. n)
    OBVIOUS
  <2>2. u[{}] = m
    BY <1>5, <2>1
  <2>. QED
    BY <2>1, <2>2 DEF Trace
<1>7. ASSUME NEW k \in Nat, k \in S PROVE k + 1 \in S
  <2>1. SUFFICES ASSUME k + 1 <= n PROVE u[1 .. k + 1] = T[k + 1]
    OBVIOUS
  <2>2. 1 .. k + 1 \in SUBSET (1 .. n) /\ 1 .. k + 1 # {} /\ (1 .. k + 1) \ {k + 1} = 1 .. k
    BY <2>1
  <2>3. Max(1 .. k + 1) = k + 1
    <3>1. 1 .. k + 1 \in SUBSET Nat /\ k + 1 \in 1 .. k + 1 /\ \A y \in 1 .. k + 1 : y <= k + 1
      OBVIOUS
    <3>. QED
      BY <3>1, Greatest
  <2>4. u[1 .. k + 1] = Exec(u[1 .. k], ws[k + 1])
    BY <1>5, <2>2, <2>3
  <2>5. u[1 .. k] = T[k]
    BY <1>7, <2>1
  <2>6. k + 1 \in 1 .. n /\ k + 1 - 1 = k
    BY <2>1
  <2>7. T[k + 1] = Exec(T[k], ws[k + 1])
    BY <2>6 DEF Trace
  <2>. QED
    BY <2>4, <2>5, <2>7
<1>. HIDE DEF S
<1>8. n \in S
  BY <1>6, <1>7, HandedOn
<1>. QED
  BY <1>1, <1>8 DEF S

LEMMA RunOfNone == ASSUME NEW m PROVE Run(m, <<>>) = m
<1>1. PICK T : Trace(T, m, <<>>)
  BY TraceExists
<1>2. Run(m, <<>>) = T[Len(<<>>)]
  BY <1>1, RunIsTrace
<1>. QED
  BY <1>1, <1>2 DEF Trace

LEMMA RunOfOne == ASSUME NEW m, NEW a PROVE Run(m, <<a>>) = Exec(m, a)
<1>. DEFINE ws == <<a>>
<1>1. PICK T : Trace(T, m, ws)
  BY TraceExists
<1>2. Run(m, ws) = T[Len(ws)]
  <2>1. Len(ws) \in Nat /\ DOMAIN ws = 1 .. Len(ws)
    OBVIOUS
  <2>. HIDE DEF ws
  <2>. QED
    BY <1>1, <2>1, RunIsTrace
<1>3. T[0] = m /\ T[1] = Exec(T[0], a)
  BY <1>1 DEF Trace
<1>. QED
  BY <1>2, <1>3

LEMMA RunOfTwo == ASSUME NEW m, NEW a, NEW b PROVE Run(m, <<a, b>>) = Exec(Exec(m, a), b)
<1>. DEFINE ws == <<a, b>>
<1>1. PICK T : Trace(T, m, ws)
  BY TraceExists
<1>2. Run(m, ws) = T[Len(ws)]
  BY <1>1, RunIsTrace
<1>3. T[0] = m /\ T[1] = Exec(T[0], a) /\ T[2] = Exec(T[1], b)
  BY <1>1 DEF Trace
<1>. QED
  BY <1>2, <1>3

LEMMA RunOfThree == ASSUME NEW m, NEW a, NEW b, NEW c PROVE Run(m, <<a, b, c>>) = Exec(Exec(Exec(m, a), b), c)
<1>. DEFINE ws == <<a, b, c>>
<1>1. PICK T : Trace(T, m, ws)
  BY TraceExists
<1>2. Run(m, ws) = T[Len(ws)]
  BY <1>1, RunIsTrace
<1>3. T[0] = m /\ T[1] = Exec(T[0], a) /\ T[2] = Exec(T[1], b) /\ T[3] = Exec(T[2], c)
  BY <1>1 DEF Trace
<1>. QED
  BY <1>2, <1>3

-----------------------------------------------------------------------------
(* What a word leaves.                                                     *)

Reg == Gprs \cup {R31}
Shaped(m) ==
  /\ {"x", "sp", "base", "flags"} \subseteq DOMAIN m /\ m = [f \in DOMAIN m |-> m[f]]
  /\ m.x = [r \in Gprs |-> m.x[r]]

LEMMA AfterCommit ==
  ASSUME NEW m, Shaped(m), NEW w, NEW r
  PROVE  /\ Shaped(Committed(m, w, r)) /\ Committed(m, w, r).base = m.base
         /\ Committed(m, w, r).sp = IF w.d = R31 /\ w.op \in SpDest THEN r.v ELSE m.sp
         /\ Committed(m, w, r).flags = IF w.op \in FlagOps \cup {"fcmp"} THEN r.flags ELSE m.flags
         /\ \A g \in Gprs : Committed(m, w, r).x[g] = IF g = w.d THEN r.v ELSE m.x[g]
         /\ DOMAIN Committed(m, w, r) = DOMAIN m
         /\ \A f \in DOMAIN m \ {"x", "sp", "flags"} : Committed(m, w, r)[f] = m[f]
<1>. DEFINE x == IF w.d = R31 THEN m.x ELSE [m.x EXCEPT ![w.d] = r.v]
            sp == IF w.d = R31 /\ w.op \in SpDest THEN r.v ELSE m.sp
            flags == IF w.op \in FlagOps \cup {"fcmp"} THEN r.flags ELSE m.flags
            c == Committed(m, w, r)
<1>1. c = [m EXCEPT !.x = x, !.sp = sp, !.flags = flags]
  BY DEF Committed
<1>2. x = [g \in Gprs |-> x[g]] /\ \A g \in Gprs : x[g] = IF g = w.d THEN r.v ELSE m.x[g]
  BY AluAssumption DEF Shaped
<1>. HIDE DEF x, sp, flags, c
<1>3. /\ DOMAIN c = DOMAIN m /\ c.x = x /\ c.sp = sp /\ c.flags = flags
      /\ \A f \in DOMAIN m \ {"x", "sp", "flags"} : c[f] = m[f]
      /\ c = [f \in DOMAIN c |-> c[f]]
  BY <1>1 DEF Shaped
<1>4. c.base = m.base /\ Shaped(c)
  BY <1>2, <1>3 DEF Shaped
<1>. QED
  BY <1>2, <1>3, <1>4 DEF c, sp, flags

Value(m, w) == Outcome(m, w, Size(w)).v

LEMMA AfterCompute ==
  ASSUME NEW m, Shaped(m), NEW w, w.op \in ComputeOps
  PROVE  /\ Shaped(Exec(m, w)) /\ Exec(m, w).base = m.base
         /\ Exec(m, w).sp = IF w.d = R31 /\ w.op \in SpDest THEN Value(m, w) ELSE m.sp
         /\ Exec(m, w).flags = IF w.op \in FlagOps THEN Outcome(m, w, Size(w)).flags ELSE m.flags
         /\ \A g \in Gprs : Exec(m, w).x[g] = IF g = w.d THEN Value(m, w) ELSE m.x[g]
<1>1. w.op # "fcmp"
  BY DEF ComputeOps, ShiftOps, ExtractOps, PlaceOps, MoveOps,
         LogicOps, ImmLogicOps, ArithOps, ImmArithOps, ExtArithOps, SelectOps, MulOps, HighOps, TwoSourceOps,
         OneSourceOps, CarryOps, CondCmpOps, CondCmpImmOps
<1>. QED
  BY <1>1, ComputeCommits, AfterCommit DEF Value

LEMMA ComputeKeeps ==
  ASSUME NEW m, Shaped(m), NEW w, w.op \in ComputeOps
  PROVE  /\ DOMAIN Exec(m, w) = DOMAIN m
         /\ \A f \in DOMAIN m \ {"x", "sp", "flags"} : Exec(m, w)[f] = m[f]
BY ComputeCommits, AfterCommit

LEMMA ValueOfField ==
  ASSUME NEW m, NEW w, w.op \in FieldOps
  PROVE  Value(m, w) = FieldValue(w, Reads(m, w, w.n), Reads(m, w, w.m), Reads(m, w, w.d), Size(w))
BY OutcomeOfField DEF Value, Plainly

LEMMA ExtrValue ==
  ASSUME NEW m, NEW w, w.op = "extr"
  PROVE  Value(m, w) = Lsr(Reads(m, w, w.m), w.k) \cup Lsl(Reads(m, w, w.n), Size(w) - w.k, Size(w))
BY ValueOfField DEF FieldOps, FieldValue

LEMMA BitfieldValue ==
  ASSUME NEW m, NEW w
  PROVE  /\ w.op = "ubfx"  => Value(m, w) = Extract(Reads(m, w, w.n), w.k, w.wd)
         /\ w.op = "sbfx"  => Value(m, w) = Extend(Extract(Reads(m, w, w.n), w.k, w.wd), w.wd - 1, Size(w))
         /\ w.op = "ubfiz" => Value(m, w) = Place(Reads(m, w, w.n), w.k, w.wd)
         /\ w.op = "sbfiz" => Value(m, w) = Extend(Place(Reads(m, w, w.n), w.k, w.wd), w.k + w.wd - 1, Size(w))
BY ValueOfField DEF FieldOps, FieldValue

LEMMA InsertValue ==
  ASSUME NEW m, NEW w
  PROVE  /\ w.op = "bfi"   => Value(m, w) = (Reads(m, w, w.d) \ Place(Low(Size(w)), w.k, w.wd))
                                            \cup Place(Reads(m, w, w.n), w.k, w.wd)
         /\ w.op = "bfxil" => Value(m, w) = (Reads(m, w, w.d) \ Low(w.wd)) \cup Extract(Reads(m, w, w.n), w.k, w.wd)
BY ValueOfField DEF FieldOps, FieldValue

LEMMA MaskValue ==
  ASSUME NEW m, NEW w
  PROVE  /\ w.op \in {"andi", "andsi"} => Value(m, w) = Reads(m, w, w.n) \cap w.mask
         /\ w.op = "eori"  => Value(m, w) = SymDiff(Reads(m, w, w.n), w.mask)
         /\ w.op = "mov"   => Value(m, w) = w.mask
BY ValueOfField DEF FieldOps, FieldValue

\* What a word reads after a producer that writes a general register and no
\* flags.
Produces(p) == p.op \in ComputeOps \ FlagOps /\ p.d \in Gprs

LEMMA ReadsAfter ==
  ASSUME NEW m, Shaped(m), NEW p, Produces(p), NEW w, NEW r \in Reg
  PROVE  /\ Reads(Exec(m, p), w, r) =
              IF r = p.d THEN Value(m, p) \cap Low(Size(w)) ELSE Reads(m, w, r)
         /\ Exec(m, p).flags = m.flags
<1>1. p.d # R31
  BY AluAssumption DEF Produces
<1>2. /\ Exec(m, p).sp = m.sp /\ Exec(m, p).flags = m.flags
      /\ \A g \in Gprs : Exec(m, p).x[g] = IF g = p.d THEN Value(m, p) ELSE m.x[g]
  BY <1>1, AfterCompute DEF Produces
<1>3. r # R31 => r \in Gprs
  BY DEF Reg
<1>. QED
  BY <1>1, <1>2, <1>3 DEF Reads

\* A read is of the word's width.
LEMMA ReadFits ==
  ASSUME NEW m, NEW w, NEW r
  PROVE  /\ Reads(m, w, r) \in SUBSET Low(Size(w)) /\ Reads(m, w, r) \in SUBSET Low(W)
         /\ Size(w) \in {H, W} /\ Size(w) \in 0 .. W /\ Size(w) \in Nat \ {0}
<1>1. Size(w) \in {H, W} /\ Size(w) \in 0 .. W /\ Size(w) \in Nat \ {0}
  BY Widths
<1>2. Reads(m, w, r) \in SUBSET Low(Size(w))
  BY DEF Reads
<1>. QED
  BY <1>1, <1>2, NumberFits

-----------------------------------------------------------------------------
(* Shifted values, bit by bit.                                             *)

LEMMA LslBits ==
  ASSUME NEW s \in Nat, NEW v \in SUBSET Low(s), NEW k \in 0 .. s
  PROVE  Lsl(v, k, s) = {i \in Low(s) : i - k \in v}
<1>1. ASSUME NEW j \in v \cap Low(s - k) PROVE j + k \in Low(s) /\ (j + k) - k = j
  BY DEF Low
<1>2. ASSUME NEW i \in Low(s), i - k \in v PROVE i - k \in v \cap Low(s - k) /\ i = (i - k) + k
  BY <1>2 DEF Low
<1>. QED
  BY <1>1, <1>2 DEF Lsl

LEMMA LsrBits ==
  ASSUME NEW s \in Nat, NEW v \in SUBSET Low(s), NEW k \in Nat
  PROVE  Lsr(v, k) = {i \in Low(s) : i + k \in v}
<1>1. ASSUME NEW j \in v \ Low(k) PROVE j - k \in Low(s) /\ (j - k) + k = j
  BY DEF Low
<1>2. ASSUME NEW i \in Low(s), i + k \in v PROVE i + k \in v \ Low(k) /\ i = (i + k) - k
  BY <1>2 DEF Low
<1>. QED
  BY <1>1, <1>2 DEF Lsr

LEMMA AsrBits ==
  ASSUME NEW s \in Nat, NEW v \in SUBSET Low(s), NEW k \in 0 .. s - 1
  PROVE  Asr(v, k, s) = {i \in Low(s) : i + k \in v \/ (i + k >= s /\ s - 1 \in v)}
<1>1. Lsr(v, k) = {i \in Low(s) : i + k \in v}
  BY LsrBits
<1>2. \A i : i \in s - k .. s - 1 <=> i \in Low(s) /\ i + k >= s
  BY DEF Low
<1>. QED
  BY <1>1, <1>2 DEF Asr

LEMMA ExtractBits ==
  ASSUME NEW s \in Nat, NEW v \in SUBSET Low(s), NEW k \in Nat, NEW wd \in Int, wd <= s
  PROVE  Extract(v, k, wd) = {i \in Low(wd) : i + k \in v}
<1>1. Lsr(v, k) = {i \in Low(s) : i + k \in v}
  BY LsrBits
<1>2. \A i \in Low(wd) : i \in Low(s)
  BY DEF Low
<1>. QED
  BY <1>1, <1>2 DEF Extract

LEMMA PlaceBits ==
  ASSUME NEW s \in Nat, NEW v \in SUBSET Low(s), NEW k \in Nat, NEW wd \in Int, wd <= s - k
  PROVE  Place(v, k, wd) = {i \in Low(s) : i - k \in v /\ i - k < wd}
<1>1. ASSUME NEW j \in v \cap Low(wd) PROVE j + k \in Low(s) /\ (j + k) - k = j /\ j < wd
  BY DEF Low
<1>2. ASSUME NEW i \in Low(s), i - k \in v, i - k < wd PROVE i - k \in v \cap Low(wd) /\ i = (i - k) + k
  BY <1>2 DEF Low
<1>. QED
  BY <1>1, <1>2 DEF Place

LEMMA ExtendBits ==
  ASSUME NEW s \in Nat, NEW v \in SUBSET Low(s), NEW top \in Nat
  PROVE  Extend(v, top, s) = {i \in Low(s) : i \in v \/ (i >= top /\ top \in v)}
<1>1. \A i : i \in top .. s - 1 <=> i \in Low(s) /\ i >= top
  BY DEF Low
<1>. QED
  BY <1>1 DEF Extend

LEMMA RorFits ==
  ASSUME NEW s \in Nat \ {0}, NEW v \in SUBSET Low(s), NEW k \in Int
  PROVE  Ror(v, k, s) \in SUBSET Low(s)
<1>1. ASSUME NEW i \in v PROVE (i + s - k) % s \in Low(s)
  <2>. DEFINE n == i + s - k
  <2>1. n \in Int
    BY DEF Low
  <2>. HIDE DEF n
  <2>2. n % s \in 0 .. s - 1
    BY <2>1
  <2>. QED
    BY <2>2 DEF n, Low
<1>. QED
  BY <1>1 DEF Ror

LEMMA ShiftFits ==
  ASSUME NEW s \in Nat \ {0}, NEW v \in SUBSET Low(s), NEW k \in 0 .. s - 1, NEW sh \in ShiftOps
  PROVE  ShiftBy(sh, v, k, s) \in SUBSET Low(s)
<1>1. s \in Nat /\ k \in 0 .. s /\ k \in Nat /\ k \in Int
  OBVIOUS
<1>2. Lsl(v, k, s) \in SUBSET Low(s)
  BY <1>1, LslBits
<1>3. Lsr(v, k) \in SUBSET Low(s)
  BY <1>1, LsrBits
<1>4. Asr(v, k, s) \in SUBSET Low(s)
  <2>1. Asr(v, k, s) = {i \in Low(s) : i + k \in v \/ (i + k >= s /\ s - 1 \in v)}
    BY <1>1, AsrBits
  <2>. QED
    BY <2>1
<1>5. Ror(v, k, s) \in SUBSET Low(s)
  BY <1>1, RorFits
<1>. QED
  BY <1>2, <1>3, <1>4, <1>5 DEF ShiftBy, ShiftOps

LEMMA ShiftByNothing ==
  ASSUME NEW s \in Nat \ {0}, NEW v \in SUBSET Low(s), NEW sh \in ShiftOps
  PROVE  ShiftBy(sh, v, 0, s) = v
<1>1. s \in Nat /\ 0 \in 0 .. s /\ 0 \in Nat /\ 0 \in 0 .. s - 1
  OBVIOUS
<1>2. \A i \in Low(s) : i - 0 = i /\ i + 0 = i /\ ~(i + 0 >= s)
  BY DEF Low
<1>3. Lsl(v, 0, s) = v
  <2>1. Lsl(v, 0, s) = {i \in Low(s) : i - 0 \in v}
    BY <1>1, LslBits
  <2>. QED
    BY <1>2, <2>1
<1>4. Lsr(v, 0) = v
  <2>1. Lsr(v, 0) = {i \in Low(s) : i + 0 \in v}
    BY <1>1, LsrBits
  <2>. QED
    BY <1>2, <2>1
<1>5. Asr(v, 0, s) = v
  <2>1. Asr(v, 0, s) = {i \in Low(s) : i + 0 \in v \/ (i + 0 >= s /\ s - 1 \in v)}
    BY <1>1, AsrBits
  <2>. QED
    BY <1>2, <2>1
<1>6. Ror(v, 0, s) = v
  <2>1. ASSUME NEW i \in v PROVE (i + s - 0) % s = i
    <3>1. i \in 0 .. s - 1 /\ i + s - 0 = s * 1 + i /\ i + s - 0 \in Int
      BY DEF Low
    <3>. QED
      BY <3>1, Division
  <2>. QED
    BY <2>1 DEF Ror
<1>. QED
  BY <1>3, <1>4, <1>5, <1>6 DEF ShiftBy, ShiftOps

-----------------------------------------------------------------------------
(* The words a fold suggests, and those it reads.                          *)

LEMMA BarrelIs ==
  ASSUME NEW op, NEW sf, NEW d, NEW n, NEW m, NEW sh, NEW k, NEW w, w = Barrel(op, sf, d, n, m, sh, k)
  PROVE  w.op = op /\ w.sf = sf /\ w.d = d /\ w.n = n /\ w.m = m /\ w.sh = sh /\ w.k = k
BY DEF Barrel, Ternary, Word

LEMMA TernaryIs ==
  ASSUME NEW op, NEW sf, NEW d, NEW n, NEW m, NEW w, w = Ternary(op, sf, d, n, m)
  PROVE  w.op = op /\ w.sf = sf /\ w.d = d /\ w.n = n /\ w.m = m /\ w.sh = "lsl" /\ w.k = 0
BY DEF Ternary, Word

LEMMA SelectIs ==
  ASSUME NEW op, NEW sf, NEW d, NEW n, NEW m, NEW cond, NEW w, w = Select(op, sf, d, n, m, cond)
  PROVE  w.op = op /\ w.sf = sf /\ w.d = d /\ w.n = n /\ w.m = m /\ w.cond = cond
BY DEF Select, Ternary, Word

LEMMA FieldIs ==
  ASSUME NEW op, NEW sf, NEW d, NEW n, NEW k, NEW wd, NEW w, w = Field(op, sf, d, n, k, wd)
  PROVE  w.op = op /\ w.sf = sf /\ w.d = d /\ w.n = n /\ w.m = R31 /\ w.k = k /\ w.wd = wd
BY DEF Field, Word

LEMMA MaskedIs ==
  ASSUME NEW op, NEW sf, NEW d, NEW n, NEW mask, NEW w, w = Masked(op, sf, d, n, mask)
  PROVE  w.op = op /\ w.sf = sf /\ w.d = d /\ w.n = n /\ w.m = R31 /\ w.mask = mask
BY DEF Masked, Word

LEMMA MulAddIs ==
  ASSUME NEW op, NEW sf, NEW d, NEW n, NEW m, NEW a, NEW w, w = MulAdd(op, sf, d, n, m, a)
  PROVE  w.op = op /\ w.sf = sf /\ w.d = d /\ w.n = n /\ w.m = m /\ w.a = a
BY DEF MulAdd, Ternary, Word

LEMMA ExtendedIs ==
  ASSUME NEW op, NEW sf, NEW d, NEW n, NEW m, NEW sh, NEW wd, NEW k, NEW w,
         w = Extended(op, sf, d, n, m, sh, wd, k)
  PROVE  /\ w.op = op /\ w.sf = sf /\ w.d = d /\ w.n = n /\ w.m = m
         /\ w.sh = sh /\ w.wd = wd /\ w.k = k
BY DEF Extended, Ternary, Word

LEMMA ShiftedIs ==
  ASSUME NEW op, NEW sf, NEW d, NEW n, NEW k, NEW w, w = Shifted(op, sf, d, n, k)
  PROVE  w.op = op /\ w.sf = sf /\ w.d = d /\ w.n = n /\ w.k = k
BY DEF Shifted, Word

LEMMA SameRead ==
  ASSUME NEW m, NEW w, NEW v, NEW r, w.sf = v.sf, r # R31 \/ (w.op \in SpSource <=> v.op \in SpSource)
  PROVE  Reads(m, w, r) = Reads(m, v, r)
BY DEF Reads, Size

\* Arithmetic and logic on two registers.
Operated(op, a, b, s) ==
  IF op \in ArithOps THEN Totalled(op, a, b, s)
  ELSE Plainly(Logic(op, a, IF op \in InvertedOps THEN Low(s) \ b ELSE b), s)

LEMMA OutcomeOfOperation ==
  ASSUME NEW m, NEW w, NEW s, w.op \in ArithOps \cup LogicOps
  PROVE  /\ w.op \in ComputeOps
         /\ Outcome(m, w, s) = Operated(w.op, Reads(m, w, w.n), ShiftBy(w.sh, Reads(m, w, w.m), w.k, s), s)
<1>1. CASE w.op \in ArithOps
  BY <1>1, OutcomeOfArith DEF Operated
<1>2. CASE w.op \notin ArithOps
  BY <1>2, OutcomeOfLogic DEF Operated, Logical
<1>. QED
  BY <1>1, <1>2

\* A word depends on the flags, the base of the image and the registers it
\* reads.
ReadAlike(m1, m2, w) ==
  /\ m1.flags = m2.flags /\ m1.base = m2.base
  /\ w.op \notin Immediates => Reads(m1, w, w.n) = Reads(m2, w, w.n)
  /\ w.op \in TwoRegisters => Reads(m1, w, w.m) = Reads(m2, w, w.m)
  /\ w.op \in MulOps => Reads(m1, w, w.a) = Reads(m2, w, w.a)
  /\ w.op \in {"bfi", "bfxil", "movk"} => Reads(m1, w, w.d) = Reads(m2, w, w.d)

\* What a word reads second, where register 31 is ZR.
Second(m, w) == IF w.m = R31 THEN {} ELSE Reads(m, w, w.m)

LEMMA SecondRead ==
  ASSUME NEW m, NEW w, w.op \notin SpSource
  PROVE  Reads(m, w, w.m) = Second(m, w)
BY DEF Second, Reads

\* Two words that differ in their registers at most, executed by machines
\* that hold the same in what each reads.
AlikeWords(v, w) ==
  /\ v.op = w.op /\ v.sf = w.sf /\ v.sh = w.sh /\ v.k = w.k /\ v.wd = w.wd
  /\ v.mask = w.mask /\ v.cond = w.cond
SameInputs(m, v, n, w) ==
  /\ AlikeWords(v, w)
  /\ v.op \notin Immediates => Reads(m, v, v.n) = Reads(n, w, w.n)
  /\ v.op \in TwoRegisters => Second(m, v) = Second(n, w)
  /\ v.op \in MulOps => Reads(m, v, v.a) = Reads(n, w, w.a)
  /\ v.op \in {"bfi", "bfxil", "movk"} => Reads(m, v, v.d) = Reads(n, w, w.d)
  /\ v.op \in SelectOps \cup CarryOps \cup CondCmpOps => m.flags = n.flags
  /\ v.op = "adr" => m.base = n.base

LEMMA SameSum ==
  ASSUME NEW m, NEW v, NEW n, NEW w, NEW s, v.op = w.op, Augend(m, v) = Augend(n, w),
         Addend(m, v, Reads(m, v, v.m), s) = Addend(n, w, Reads(n, w, w.m), s),
         v.op \in CarryOps => m.flags = n.flags
  PROVE  Sum(m, v, s) = Sum(n, w, s)
BY DEF Sum

LEMMA SameOtherData ==
  ASSUME NEW m, NEW v, NEW n, NEW w, NEW s, NEW a, NEW c1, NEW c2, NEW old1, NEW old2,
         v.op \in HighOps \cup TwoSourceOps \cup OneSourceOps \cup {"orri"}, AlikeWords(v, w),
         v.op \in HighOps \cup TwoSourceOps => c1 = c2
  PROVE  DataOf(m, v, a, c1, old1, s) = DataOf(n, w, a, c2, old2, s)
<1>1. v.op \notin MoveOps /\ v.op \notin ShiftOps /\ v.op \notin LogicOps /\ v.op \notin SelectOps
  BY DEF HighOps, TwoSourceOps, OneSourceOps, ShiftOps, MoveOps, LogicOps, SelectOps
<1>2. CASE v.op \in {"umulh", "smulh", "udiv", "sdiv"}
  BY <1>1, <1>2 DEF DataOf, HighOps, TwoSourceOps, AlikeWords
<1>3. CASE v.op \in {"lslv", "lsrv", "asrv", "rorv"}
  BY <1>1, <1>3 DEF DataOf, HighOps, TwoSourceOps, AlikeWords
<1>4. CASE v.op \in {"umax", "umin", "smax", "smin"}
  BY <1>1, <1>4 DEF DataOf, HighOps, TwoSourceOps, AlikeWords
<1>5. CASE v.op \in {"rbit", "clz", "cls"}
  BY <1>1, <1>5 DEF DataOf, AlikeWords
<1>6. CASE v.op \in {"ctz", "cnt", "abs", "orri"}
  BY <1>1, <1>6 DEF DataOf, AlikeWords
<1>. QED
  BY <1>2, <1>3, <1>4, <1>5, <1>6 DEF HighOps, TwoSourceOps, OneSourceOps

LEMMA SameComputation ==
  ASSUME NEW m, NEW v, NEW n, NEW w, NEW s, v.op \in ComputeOps, SameInputs(m, v, n, w)
  PROVE  Outcome(m, v, s) = Outcome(n, w, s)
<1>. USE DEF AlikeWords
<1>1. CASE v.op \in ShiftOps
  <2>1. v.op \notin Immediates
    BY <1>1 DEF ShiftOps, Immediates, MoveOps
  <2>. QED
    BY <1>1, <2>1, OutcomeOfShift DEF SameInputs
<1>2. CASE v.op \in FieldOps \ {"extr", "mov", "bfi", "bfxil"}
  <2>1. v.op \notin Immediates /\ v.op \in {"ubfx", "sbfx", "ubfiz", "sbfiz", "andi", "andsi", "eori"} /\ v.op \in FieldOps
    BY <1>2 DEF FieldOps, Immediates, MoveOps
  <2>2. \A a, c1, c2, old1, old2 : FieldValue(v, a, c1, old1, s) = FieldValue(w, a, c2, old2, s)
    BY <2>1 DEF FieldValue, SameInputs
  <2>. QED
    BY <2>1, <2>2, OutcomeOfField DEF SameInputs
<1>3. CASE v.op \in {"bfi", "bfxil"}
  <2>1. v.op \notin Immediates /\ v.op \in FieldOps
    BY <1>3 DEF FieldOps, Immediates, MoveOps
  <2>2. \A a, c1, c2, old : FieldValue(v, a, c1, old, s) = FieldValue(w, a, c2, old, s)
    BY <1>3 DEF FieldValue, SameInputs
  <2>. QED
    BY <1>3, <2>1, <2>2, OutcomeOfField DEF SameInputs
<1>4. CASE v.op = "extr"
  <2>1. v.op \notin Immediates /\ v.op \in FieldOps /\ v.op \in TwoRegisters /\ v.op \notin SpSource
    BY <1>4 DEF FieldOps, Immediates, MoveOps, TwoRegisters, SpSource, ImmArithOps, ExtArithOps
  <2>2. \A a, c, old1, old2 : FieldValue(v, a, c, old1, s) = FieldValue(w, a, c, old2, s)
    BY <1>4 DEF FieldValue, SameInputs
  <2>. QED
    BY <2>1, <2>2, SecondRead, OutcomeOfField DEF SameInputs
<1>5. CASE v.op = "mov"
  <2>1. v.op \in FieldOps
    BY <1>5 DEF FieldOps
  <2>2. \A a1, a2, c1, c2, old1, old2 : FieldValue(v, a1, c1, old1, s) = FieldValue(w, a2, c2, old2, s)
    BY <1>5 DEF FieldValue, SameInputs
  <2>. QED
    BY <2>1, <2>2, OutcomeOfField DEF SameInputs
<1>6. CASE v.op \in MoveOps
  <2>1. /\ v.op \in PathOps /\ v.op \notin ShiftOps /\ v.op \notin LogicOps /\ v.op \notin SelectOps
        /\ v.op \in {"movz", "movn", "movk"}
    BY <1>6 DEF PathOps, MoveOps, ShiftOps, LogicOps, SelectOps
  <2>2. /\ \A a, c, old : DataOf(m, v, a, c, old, s) = Wide(v, old, Lsl(v.mask, Piece * v.k, s), s)
        /\ \A a, c, old : DataOf(n, w, a, c, old, s) = Wide(w, old, Lsl(w.mask, Piece * w.k, s), s)
    BY <1>6, <2>1 DEF DataOf, SameInputs
  <2>. PICK imm : imm = Lsl(v.mask, Piece * v.k, s)
    OBVIOUS
  <2>3. /\ \A old : Wide(v, old, imm, s) = Wide(w, old, imm, s)
        /\ \A old1, old2 : v.op # "movk" => Wide(v, old1, imm, s) = Wide(v, old2, imm, s)
    BY <2>1 DEF Wide, SameInputs
  <2>4. imm = Lsl(w.mask, Piece * w.k, s) /\ w.op = v.op
    BY DEF SameInputs
  <2>. QED
    BY <2>1, <2>2, <2>3, <2>4, OnDataPath DEF SameInputs
<1>7. CASE v.op \in LogicOps
  <2>1. v.op \notin Immediates /\ v.op \in TwoRegisters /\ v.op \notin SpSource
    BY <1>7 DEF LogicOps, Immediates, MoveOps, TwoRegisters, SpSource, ImmArithOps, ExtArithOps
  <2>2. \A a, b : Logical(v, a, b, s) = Logical(w, a, b, s)
    BY DEF Logical, SameInputs
  <2>. QED
    BY <1>7, <2>1, <2>2, SecondRead, OutcomeOfLogic DEF SameInputs
<1>8. CASE v.op \in SelectOps
  <2>1. v.op \notin Immediates /\ v.op \in TwoRegisters /\ v.op \notin SpSource
    BY <1>8 DEF SelectOps, Immediates, MoveOps, TwoRegisters, SpSource, ImmArithOps, ExtArithOps
  <2>. QED
    BY <1>8, <2>1, SecondRead, OutcomeOfSelect DEF SameInputs
<1>9. CASE v.op \in HighOps \cup TwoSourceOps \cup OneSourceOps \cup {"orri"}
  <2>1. /\ v.op \notin Immediates /\ v.op \in PathOps /\ v.op \notin SpSource
        /\ v.op \in HighOps \cup TwoSourceOps => v.op \in TwoRegisters
    BY <1>9 DEF HighOps, TwoSourceOps, OneSourceOps, Immediates, MoveOps, TwoRegisters, PathOps, ImmLogicOps, SpSource,
       ImmArithOps, ExtArithOps
  <2>. PICK a, c1, c2, old1, old2 :
         /\ a = Reads(m, v, v.n) /\ c1 = Reads(m, v, v.m) /\ c2 = Reads(n, w, w.m)
         /\ old1 = Reads(m, v, v.d) /\ old2 = Reads(n, w, w.d)
    OBVIOUS
  <2>2. a = Reads(n, w, w.n) /\ (v.op \in HighOps \cup TwoSourceOps => c1 = c2) /\ AlikeWords(v, w) /\ w.op = v.op
    BY <2>1, SecondRead DEF SameInputs
  <2>3. DataOf(m, v, a, c1, old1, s) = DataOf(n, w, a, c2, old2, s)
    BY <1>9, <2>2, SameOtherData
  <2>4. Outcome(m, v, s) = Plainly(DataOf(m, v, a, c1, old1, s), s)
    BY <2>1, OnDataPath
  <2>5. Outcome(n, w, s) = Plainly(DataOf(n, w, a, c2, old2, s), s)
    BY <2>1, <2>2, OnDataPath
  <2>. QED
    BY <2>3, <2>4, <2>5
<1>10. CASE v.op \in SumOps
  <2>1. CASE v.op = "adr"
    <3>. /\ v.op \notin MulOps /\ v.op \notin ImmArithOps \cup CondCmpImmOps /\ v.op \notin ExtArithOps
         /\ v.op \notin ArithOps /\ v.op \notin CarryOps
      BY <2>1 DEF MulOps, ImmArithOps, CondCmpImmOps, ExtArithOps, ArithOps, CarryOps
    <3>1. Augend(m, v) = Augend(n, w) /\ \A c1, c2 : Addend(m, v, c1, s) = Addend(n, w, c2, s)
      BY <2>1 DEF Augend, Addend, SameInputs
    <3>. QED
      BY <1>10, <3>1, SameSum, OnAdder DEF SameInputs
  <2>2. CASE v.op \in ArithOps
    <3>1. v.op \notin Immediates /\ v.op \in TwoRegisters /\ v.op \notin SpSource
      BY <2>2 DEF ArithOps, Immediates, MoveOps, TwoRegisters, SpSource, ImmArithOps, ExtArithOps
    <3>. QED
      BY <2>2, <3>1, SecondRead, OutcomeOfArith DEF SameInputs
  <2>3. CASE v.op \in ImmArithOps
    <3>1. v.op \notin Immediates /\ v.op \notin CarryOps
      BY <2>3 DEF ImmArithOps, Immediates, MoveOps, CarryOps
    <3>2. Augend(m, v) = Augend(n, w) /\ \A c1, c2 : Addend(m, v, c1, s) = Addend(n, w, c2, s)
      BY <2>3, <3>1, AdderInputs DEF SameInputs
    <3>. QED
      BY <1>10, <3>1, <3>2, SameSum, OnAdder DEF SameInputs
  <2>4. CASE v.op \in ExtArithOps
    <3>1. v.op \notin Immediates /\ v.op \in TwoRegisters
      BY <2>4 DEF ExtArithOps, Immediates, MoveOps, TwoRegisters
    <3>. QED
      BY <2>4, <3>1, OutcomeOfExtended DEF SameInputs, Second
  <2>5. CASE v.op \in MulOps
    <3>1. v.op \notin Immediates /\ v.op \in TwoRegisters /\ v.op \notin SpSource
      BY <2>5 DEF MulOps, Immediates, MoveOps, TwoRegisters, SpSource, ImmArithOps, ExtArithOps
    <3>2. Product(m, v, s) = Product(n, w, s)
      BY <3>1, SecondRead DEF Product, SameInputs
    <3>. QED
      BY <2>5, <3>2, OutcomeOfMultiply DEF SameInputs
  <2>. QED
    BY <1>10, <2>1, <2>2, <2>3, <2>4, <2>5 DEF SumOps
<1>11. CASE v.op \in CarryOps \cup CondCmpOps
  <2>1. /\ v.op \notin Immediates /\ v.op # "adr" /\ v.op \notin MulOps /\ v.op \notin ImmArithOps
        /\ v.op \notin ExtArithOps /\ v.op \notin ArithOps /\ v.op \in AdderOps /\ v.op # "fcmp"
        /\ v.op \notin CondCmpImmOps => v.op \in TwoRegisters
        /\ v.op \notin SpSource
    BY <1>11 DEF CarryOps, CondCmpOps, CondCmpImmOps, Immediates, MoveOps, MulOps, ImmArithOps, ExtArithOps, ArithOps,
       TwoRegisters, AdderOps, SpSource
  <2>2. Augend(m, v) = Augend(n, w)
    BY <2>1 DEF Augend, SameInputs
  <2>3. Addend(m, v, Reads(m, v, v.m), s) = Addend(n, w, Reads(n, w, w.m), s)
    BY <2>1, SecondRead DEF Addend, SameInputs
  <2>4. Sum(m, v, s) = Sum(n, w, s) /\ m.flags = n.flags /\ v.op = w.op /\ v.cond = w.cond /\ v.mask = w.mask
    BY <1>11, <2>2, <2>3, SameSum DEF SameInputs
  <2>5. CASE v.op \in CondCmpOps /\ ~Holds(v.cond, m.flags)
    BY <2>1, <2>4, <2>5 DEF Outcome
  <2>6. CASE v.op \in CondCmpOps => Holds(v.cond, m.flags)
    BY <2>1, <2>4, <2>6 DEF Outcome
  <2>. QED
    BY <2>5, <2>6
<1>. QED
  BY <1>1, <1>2, <1>3, <1>4, <1>5, <1>6, <1>7, <1>8, <1>9, <1>10, <1>11
     DEF ComputeOps, FieldOps, SumOps, ExtractOps, PlaceOps, ImmLogicOps

LEMMA SameOutcome ==
  ASSUME NEW m1, NEW m2, NEW w, NEW s, w.op \in ComputeOps, ReadAlike(m1, m2, w)
  PROVE  Outcome(m1, w, s) = Outcome(m2, w, s)
BY SameComputation DEF SameInputs, AlikeWords, ReadAlike, Second

\* An adjustment of the immediate k.
LEMMA AdjustValue ==
  ASSUME NEW m, NEW w, w.op = "addi"
  PROVE  /\ Value(m, w) = Added(Reads(m, w, w.n), Bits(w.k, Size(w)), Size(w))
         /\ w.k = 0 => Value(m, w) = Reads(m, w, w.n)
<1>. PICK s, x : s = Size(w) /\ x = Reads(m, w, w.n)
  OBVIOUS
<1>1. s \in 0 .. W /\ s \in {H, W} /\ x \in SUBSET Low(s)
  BY ReadFits
<1>2. Value(m, w) = Added(x, Bits(w.k, s), s)
  BY OutcomeOfAdjust DEF Value, Summed, Added
<1>3. ASSUME w.k = 0 PROVE Added(x, Bits(w.k, s), s) = x
  <2>1. Bits(w.k, s) = {}
    BY <1>1, <1>3, BitsOfOne
  <2>2. Added(x, {}, s) = x
    BY <1>1, AddNothing
  <2>. QED
    BY <2>1, <2>2
<1>. QED
  BY <1>2, <1>3
=============================================================================
